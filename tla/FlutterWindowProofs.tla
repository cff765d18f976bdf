-------------------------- MODULE FlutterWindowProofs --------------------------
(***************************************************************************)
(* Proofs about the window of the Windows runner, for every configuration  *)
(* of its parts and any number of events: the engine's next-frame slot is  *)
(* never overwritten, no engine outlives the quit, no rebuild interrupts a *)
(* startup that still blocks, the watchdog has a timer until it has said   *)
(* that it is off, and the backoff of its retries stays within its limits. *)
(***************************************************************************)
EXTENDS FlutterWindow, WellFoundedInduction, TLAPS

-----------------------------------------------------------------------------
(***************************************************************************)
(* What is kept.                                                           *)
(***************************************************************************)
\* w is a window, whatever its parts hold.
Shaped(w) ==
  w \in [phase : {w.phase}, enabled : {w.enabled}, engine : {w.engine},
         probe_armed : {w.probe_armed}, callback : {w.callback},
         main_seen : {w.main_seen}, sentinel : {w.sentinel},
         period : {w.period}, due : {w.due}, withdrawn : {w.withdrawn},
         gate : {w.gate}, session : {w.session}, live : {w.live},
         dog : {w.dog}]

\* The probe flag and the slot of the engine agree.
Sound(w) ==
  /\ Shaped(w)
  /\ w.probe_armed \in BOOLEAN
  /\ w.probe_armed <=> w.callback # "none"
  /\ w.callback # "overwritten"
  /\ w.engine = "none" => w.callback = "none"

\* What a handler leaves of a window: it may begin to stop the timer, and it
\* makes no engine where there was none.
Handled(w, v) ==
  /\ Sound(v)
  /\ v.phase = w.phase \/ v.phase \in {"stop_exit", "stop_disarm"}
  /\ v.withdrawn = w.withdrawn
  /\ w.engine = "none" => v.engine = "none"

\* No engine before the start and after the quit; a window that is closed had
\* its restart withdrawn.
Ended(w) ==
  /\ w.phase \in {"starting", "quit", "ended"} => w.engine = "none"
  /\ w.phase = "stop_close" => w.withdrawn

WindowInv == Sound(window) /\ Ended(window)
-----------------------------------------------------------------------------
(***************************************************************************)
(* One field at a time.                                                    *)
(***************************************************************************)
\* The fields the slot does not depend on.
LEMMA OtherField ==
  ASSUME NEW w, Sound(w), NEW x
  PROVE  /\ Handled(w, w)
         /\ Handled(w, [w EXCEPT !.dog = x])
         /\ Handled(w, [w EXCEPT !.gate = x])
         /\ Handled(w, [w EXCEPT !.session = x])
         /\ Handled(w, [w EXCEPT !.live = x])
         /\ Handled(w, [w EXCEPT !.main_seen = x])
         /\ Handled(w, [w EXCEPT !.sentinel = x])
         /\ Handled(w, [w EXCEPT !.period = x])
         /\ Handled(w, [w EXCEPT !.due = x])
<1>1. Handled(w, w)
  BY DEF Sound, Handled
<1>2. Handled(w, [w EXCEPT !.dog = x])
  BY DEF Sound, Handled, Shaped
<1>3. Handled(w, [w EXCEPT !.gate = x])
  BY DEF Sound, Handled, Shaped
<1>4. Handled(w, [w EXCEPT !.session = x])
  BY DEF Sound, Handled, Shaped
<1>5. Handled(w, [w EXCEPT !.live = x])
  BY DEF Sound, Handled, Shaped
<1>6. Handled(w, [w EXCEPT !.main_seen = x])
  BY DEF Sound, Handled, Shaped
<1>7. Handled(w, [w EXCEPT !.sentinel = x])
  BY DEF Sound, Handled, Shaped
<1>8. Handled(w, [w EXCEPT !.period = x])
  BY DEF Sound, Handled, Shaped
<1>9. Handled(w, [w EXCEPT !.due = x])
  BY DEF Sound, Handled, Shaped
<1> QED BY <1>1, <1>2, <1>3, <1>4, <1>5, <1>6, <1>7, <1>8, <1>9

\* Handlers follow each other.
LEMMA Then ==
  ASSUME NEW w, NEW v, NEW u, Handled(w, v), Handled(v, u)
  PROVE  Handled(w, u)
  BY DEF Handled

\* A window begins to stop its timer.
LEMMA Stops ==
  ASSUME NEW w, Sound(w), NEW phase \in {"stop_exit", "stop_disarm"}
  PROVE  Handled(w, [w EXCEPT !.phase = phase])
  BY DEF Sound, Handled, Shaped
-----------------------------------------------------------------------------
(***************************************************************************)
(* The methods.                                                            *)
(***************************************************************************)
LEMMA Judged ==
  ASSUME NEW w, Sound(w)
  PROVE  Handled(w, UpdateWatchdogJudgeable(w))
  BY OtherField DEF UpdateWatchdogJudgeable

\* A probe fills a slot that is free.
LEMMA Probes ==
  ASSUME NEW w, Sound(w)
  PROVE  Handled(w, StartProbe(w))
<1>1. CASE w.engine = "none" \/ w.probe_armed
  BY <1>1, OtherField DEF StartProbe
<1>2. CASE ~(w.engine = "none" \/ w.probe_armed)
  <2> DEFINE v == [w EXCEPT !.probe_armed = TRUE,
                            !.callback = SetNextFrameCallback(@)]
  <2>1. StartProbe(w) = v
    BY <1>2 DEF StartProbe
  <2>2. Shaped(v)
    BY DEF Sound, Shaped
  <2>3. /\ v.phase = w.phase /\ v.withdrawn = w.withdrawn
        /\ v.engine = w.engine /\ v.probe_armed = TRUE
        /\ v.callback = SetNextFrameCallback(w.callback)
    BY DEF Sound, Shaped
  <2>4. SetNextFrameCallback(w.callback) = "armed"
    BY <1>2 DEF Sound, SetNextFrameCallback
  <2> QED BY <1>2, <2>1, <2>2, <2>3, <2>4 DEF Handled, Sound
<1> QED BY <1>1, <1>2

\* The slot goes with its engine.
LEMMA Destroys ==
  ASSUME NEW w, Sound(w)
  PROVE  /\ Handled(w, DestroyController(w))
         /\ DestroyController(w).engine = "none"
         /\ DestroyController(w).phase = w.phase
<1> DEFINE v == [w EXCEPT !.engine = "none", !.probe_armed = FALSE,
                          !.callback = "none"]
<1>1. DestroyController(w) = v
  BY DEF DestroyController
<1>2. Shaped(v)
  BY DEF Sound, Shaped
<1>3. /\ v.phase = w.phase /\ v.withdrawn = w.withdrawn
      /\ v.engine = "none" /\ v.probe_armed = FALSE /\ v.callback = "none"
  BY DEF Sound, Shaped
<1> QED BY <1>1, <1>2, <1>3 DEF Handled, Sound

\* A new engine has a slot of its own, which takes the first callback.
LEMMA Creates ==
  ASSUME NEW w, Sound(w), w.engine = "none", NEW created
  PROVE  /\ Sound(CreateController(w, created))
         /\ CreateController(w, created).phase = w.phase
         /\ CreateController(w, created).withdrawn = w.withdrawn
<1> DEFINE a == [w EXCEPT !.gate = GateEngineCreated(@), !.main_seen = FALSE]
           b == UpdateWatchdogJudgeable(a)
           c == [b EXCEPT !.live = EpochStarted]
           failed == [c EXCEPT !.engine = "none"]
           lives == [c EXCEPT !.engine = "live", !.probe_armed = TRUE,
                              !.callback = SetNextFrameCallback("none"),
                              !.session = SessionEngineCreated(@)]
<1>1. CreateController(w, created)
        = IF created = "failed" THEN failed ELSE lives
  BY DEF CreateController
<1>2. /\ Sound(a) /\ a.engine = "none"
      /\ a.phase = w.phase /\ a.withdrawn = w.withdrawn
  <2>1. Shaped(a)
    BY DEF Sound, Shaped
  <2>2. /\ a.phase = w.phase /\ a.withdrawn = w.withdrawn
        /\ a.engine = w.engine /\ a.probe_armed = w.probe_armed
        /\ a.callback = w.callback
    BY DEF Sound, Shaped
  <2> QED BY <2>1, <2>2 DEF Sound
<1>3. /\ Sound(b) /\ b.engine = "none"
      /\ b.phase = w.phase /\ b.withdrawn = w.withdrawn
  <2>1. /\ b.phase = a.phase /\ b.withdrawn = a.withdrawn
        /\ b.engine = a.engine
    BY <1>2 DEF Sound, Shaped, UpdateWatchdogJudgeable
  <2>2. Sound(b)
    BY <1>2, Judged DEF Handled
  <2> QED BY <1>2, <2>1, <2>2
<1> HIDE DEF b
<1>4. /\ Sound(c) /\ c.engine = "none"
      /\ c.phase = w.phase /\ c.withdrawn = w.withdrawn
  <2>1. /\ c.phase = b.phase /\ c.withdrawn = b.withdrawn
        /\ c.engine = b.engine
    BY <1>3 DEF Sound, Shaped
  <2>2. Sound(c)
    BY <1>3, OtherField DEF Handled
  <2> QED BY <1>3, <2>1, <2>2
<1> HIDE DEF c
<1>5. CASE created = "failed"
  <2>1. /\ failed.phase = c.phase /\ failed.withdrawn = c.withdrawn
        /\ failed.engine = "none" /\ failed.callback = c.callback
        /\ failed.probe_armed = c.probe_armed
    BY <1>4 DEF Sound, Shaped
  <2>2. Shaped(failed)
    BY <1>4 DEF Sound, Shaped
  <2> QED BY <1>1, <1>4, <1>5, <2>1, <2>2 DEF Sound
<1>6. CASE created # "failed"
  <2>1. /\ lives.phase = c.phase /\ lives.withdrawn = c.withdrawn
        /\ lives.engine = "live" /\ lives.probe_armed = TRUE
        /\ lives.callback = SetNextFrameCallback("none")
    BY <1>4 DEF Sound, Shaped
  <2>2. Shaped(lives)
    BY <1>4 DEF Sound, Shaped
  <2>3. SetNextFrameCallback("none") = "armed"
    BY DEF SetNextFrameCallback
  <2> HIDE DEF lives
  <2>4. Sound(lives)
    BY <2>1, <2>2, <2>3 DEF Sound
  <2> QED BY <1>1, <1>4, <1>6, <2>1, <2>4
<1> QED BY <1>5, <1>6

\* Only an engine that is there is replaced.
LEMMA Rebuilds ==
  ASSUME NEW w, Sound(w), NEW created
  PROVE  Handled(w, PerformEngineRebuild(w, created))
<1>1. CASE w.engine = "none"
  BY <1>1, OtherField DEF PerformEngineRebuild
<1>2. CASE w.engine # "none"
  <2> DEFINE gone == DestroyController(w)
             built == CreateController(gone, created)
             v == IF built.engine = "none" THEN built
                  ELSE [built EXCEPT !.sentinel = created]
  <2>1. PerformEngineRebuild(w, created) = UpdateWatchdogJudgeable(v)
    BY <1>2 DEF PerformEngineRebuild
  <2>2. /\ Sound(gone) /\ gone.engine = "none" /\ gone.phase = w.phase
        /\ gone.withdrawn = w.withdrawn
    BY Destroys DEF Handled
  <2> HIDE DEF gone
  <2>3. /\ Sound(built) /\ built.phase = w.phase
        /\ built.withdrawn = w.withdrawn
    BY <2>2, Creates
  <2> HIDE DEF built
  <2>4. Handled(w, built)
    BY <1>2, <2>3 DEF Handled
  <2>5. Handled(built, v)
    BY <2>3, OtherField
  <2> HIDE DEF v
  <2>6. Handled(w, v)
    BY <2>4, <2>5, Then
  <2>7. Handled(v, UpdateWatchdogJudgeable(v))
    BY <2>6, Judged DEF Handled
  <2> QED BY <2>1, <2>6, <2>7, Then
<1> QED BY <1>1, <1>2

\* A request for a rebuild (FlutterWindow::RequestEngineRebuild).
LEMMA Requests ==
  ASSUME NEW w, Sound(w), NEW created
  PROVE  Handled(w, RequestEngineRebuild(w, created))
<1> DEFINE d == GateRequest(w.gate)
           asked == [w EXCEPT !.gate = d.gate]
<1>1. \/ RequestEngineRebuild(w, created) = w
      \/ RequestEngineRebuild(w, created) = PerformEngineRebuild(asked, created)
      \/ RequestEngineRebuild(w, created) = UpdateWatchdogJudgeable(asked)
  BY DEF RequestEngineRebuild
<1>2. Handled(w, asked)
  BY OtherField
<1> HIDE DEF asked
<1>3. /\ Handled(asked, PerformEngineRebuild(asked, created))
      /\ Handled(asked, UpdateWatchdogJudgeable(asked))
  BY <1>2, Rebuilds, Judged DEF Handled
<1>4. Handled(w, w)
  BY OtherField
<1> QED BY <1>1, <1>2, <1>3, <1>4, Then

\* The timer has no say in the slot.
LEMMA Timed ==
  ASSUME NEW w, Sound(w), NEW period
  PROVE  /\ Handled(w, SetWatchdogPeriod(w, period))
         /\ Handled(w, StartWatchdogTimer(w, period))
<1> DEFINE v == [w EXCEPT !.period = period]
           u == [v EXCEPT !.due = period]
           t == [w EXCEPT !.period = period, !.due = period]
<1>1. Handled(w, v)
  BY OtherField
<1>2. Handled(w, t)
  <2>1. Shaped(t)
    BY DEF Sound, Shaped
  <2>2. /\ t.phase = w.phase /\ t.withdrawn = w.withdrawn
        /\ t.engine = w.engine /\ t.probe_armed = w.probe_armed
        /\ t.callback = w.callback
    BY DEF Sound, Shaped
  <2> HIDE DEF t
  <2> QED BY <2>1, <2>2 DEF Handled, Sound
<1>3. Handled(w, w)
  BY OtherField
<1>4. SetWatchdogPeriod(w, period) = t \/ SetWatchdogPeriod(w, period) = w
  BY DEF SetWatchdogPeriod
<1>5. \/ StartWatchdogTimer(w, period) = t
      \/ StartWatchdogTimer(w, period) = SetWatchdogPeriod(w, period)
  BY DEF StartWatchdogTimer
<1> QED BY <1>2, <1>3, <1>4, <1>5

\* The two ways to end the watchdog: the exit after a loss, and for good.
LEMMA Disarms ==
  ASSUME NEW w, Sound(w)
  PROVE  /\ Handled(w, ExitAfterDeviceLoss(w))
         /\ Handled(w, DisableWatchdog(w))
<1>1. Handled(w, ExitAfterDeviceLoss(w))
  BY Stops DEF ExitAfterDeviceLoss
<1>2. Handled(w, DisableWatchdog(w))
  <2> DEFINE v == [w EXCEPT !.dog = Disable(@), !.phase = "stop_disarm"]
  <2>1. Shaped(v)
    BY DEF Sound, Shaped
  <2>2. /\ v.phase = "stop_disarm" /\ v.withdrawn = w.withdrawn
        /\ v.engine = w.engine /\ v.probe_armed = w.probe_armed
        /\ v.callback = w.callback
    BY DEF Sound, Shaped
  <2>3. DisableWatchdog(w) = v
    BY DEF DisableWatchdog
  <2> HIDE DEF v
  <2> QED BY <2>1, <2>2, <2>3 DEF Handled, Sound
<1> QED BY <1>1, <1>2

\* What the watchdog has decided, done (FlutterWindow::ApplyAction).
LEMMA Acts ==
  ASSUME NEW w, Sound(w), NEW a, NEW created
  PROVE  Handled(w, ApplyAction(w, a, created))
<1> DEFINE rebuilt == IF a.restart THEN RequestEngineRebuild(w, created) ELSE w
           probed == IF a.probe THEN StartProbe(rebuilt) ELSE rebuilt
<1>1. \/ ApplyAction(w, a, created) = ExitAfterDeviceLoss(w)
      \/ ApplyAction(w, a, created) = probed
      \/ ApplyAction(w, a, created) = SetWatchdogPeriod(probed, a.period)
  BY DEF ApplyAction
<1>2. Handled(w, rebuilt)
  BY OtherField, Requests
<1> HIDE DEF rebuilt
<1>3. Handled(rebuilt, probed)
  BY <1>2, OtherField, Probes DEF Handled
<1> HIDE DEF probed
<1>4. Handled(w, probed)
  BY <1>2, <1>3, Then
<1>5. Handled(w, SetWatchdogPeriod(probed, a.period))
  <2>1. Handled(probed, SetWatchdogPeriod(probed, a.period))
    BY <1>4, Timed DEF Handled
  <2> QED BY <1>4, <2>1, Then
<1> QED BY <1>1, <1>4, <1>5, Disarms

\* A reading of the renderer, given to the watchdog.
LEMMA Dispatches ==
  ASSUME NEW w, Sound(w), NEW r, NEW created, NEW fault
  PROVE  Handled(w, Dispatch(w, r, created, fault))
<1> DEFINE v == [w EXCEPT !.dog = r.dog]
<1>1. Handled(w, v)
  BY OtherField
<1>2. CASE ~w.enabled \/ w.dog.disabled
  BY <1>2, OtherField DEF Dispatch
<1>3. CASE ~(~w.enabled \/ w.dog.disabled)
  <2>1. \/ Dispatch(w, r, created, fault) = DisableWatchdog(v)
        \/ Dispatch(w, r, created, fault)
             = ApplyAction(v, Done(r.action, fault), created)
    BY <1>3 DEF Dispatch
  <2> HIDE DEF v
  <2>2. /\ Handled(v, DisableWatchdog(v))
        /\ Handled(v, ApplyAction(v, Done(r.action, fault), created))
    BY <1>1, Disarms, Acts DEF Handled
  <2> QED BY <1>1, <2>1, <2>2, Then
<1> QED BY <1>2, <1>3
-----------------------------------------------------------------------------
(***************************************************************************)
(* The handlers.                                                           *)
(***************************************************************************)
LEMMA Hints ==
  ASSUME NEW w, Sound(w), NEW fault
  PROVE  Handled(w, Hint(w, fault))
  BY Dispatches DEF Hint

\* The message that says the renderer was lost.
LEMMA Losses ==
  ASSUME NEW w, Sound(w), NEW created, NEW fault
  PROVE  Handled(w, LossMessage(w, created, fault))
  BY OtherField, Dispatches DEF LossMessage

\* The rebuild that waits for its moment, asked for again.
LEMMA Polls ==
  ASSUME NEW w, Sound(w), NEW created
  PROVE  Handled(w, Poll(w, created))
<1> DEFINE v == [w EXCEPT !.gate = GatePoll(w.gate).gate]
<1>1. Poll(w, created) = w \/ Poll(w, created) = PerformEngineRebuild(v, created)
  BY DEF Poll
<1>2. Handled(w, v)
  BY OtherField
<1> HIDE DEF v
<1>3. Handled(v, PerformEngineRebuild(v, created))
  BY <1>2, Rebuilds DEF Handled
<1> QED BY <1>1, <1>2, <1>3, OtherField, Then

\* What the session policy has decided (HandleSessionDecision).
LEMMA Decides ==
  ASSUME NEW w, Sound(w), NEW rebuild, NEW created
  PROVE  Handled(w, HandleSessionDecision(w, rebuild, created))
  BY OtherField, Requests DEF HandleSessionDecision

\* A tick of the watchdog timer.
LEMMA Ticks ==
  ASSUME NEW v, Sound(v), NEW created, NEW fault
  PROVE  Handled(v, Tick(v, created, fault))
<1> DEFINE w == [v EXCEPT !.dog = ConsumeJudgementHoldExpired(@)]
           s == [w EXCEPT !.session = SessionTick(@)]
           r == IF RenderDeviceIsLost(w) THEN OnRendererLost(w.dog)
                ELSE OnTick(w.dog)
<1>1. Handled(v, w)
  BY OtherField
<1>2. \/ Tick(v, created, fault) = Poll(w, created)
      \/ Tick(v, created, fault) = HandleSessionDecision(s, TRUE, created)
      \/ Tick(v, created, fault) = Dispatch(w, r, created, fault)
  BY DEF Tick
<1> HIDE DEF w, r
<1>3. Handled(w, s)
  <2>1. Sound(w)
    BY <1>1 DEF Handled
  <2> QED BY <2>1, OtherField
<1> HIDE DEF s
<1>4. /\ Handled(w, Poll(w, created))
      /\ Handled(w, Dispatch(w, r, created, fault))
  BY <1>1, Polls, Dispatches DEF Handled
<1>5. Handled(s, HandleSessionDecision(s, TRUE, created))
  <2>1. Sound(s)
    BY <1>3 DEF Handled
  <2> QED BY <2>1, Decides
<1>6. /\ Handled(v, Poll(w, created))
      /\ Handled(v, Dispatch(w, r, created, fault))
      /\ Handled(v, HandleSessionDecision(s, TRUE, created))
  BY <1>1, <1>3, <1>4, <1>5, Then
<1> QED BY <1>2, <1>6

\* The callback that has run leaves its slot free.
LEMMA Presents ==
  ASSUME NEW w, Sound(w), NEW fault
  PROVE  Handled(w, OnFramePresented(w, fault))
<1> DEFINE free == [w EXCEPT !.probe_armed = FALSE, !.callback = "none"]
           judged == Dispatch(free, WatchdogFrame(free.dog), "failed", fault)
<1>1. OnFramePresented(w, fault)
        = [judged EXCEPT !.session = SessionFrame(@)]
  BY DEF OnFramePresented
<1>2. Handled(w, free)
  <2>1. Shaped(free)
    BY DEF Sound, Shaped
  <2>2. /\ free.phase = w.phase /\ free.withdrawn = w.withdrawn
        /\ free.engine = w.engine /\ free.probe_armed = FALSE
        /\ free.callback = "none"
    BY DEF Sound, Shaped
  <2> HIDE DEF free
  <2> QED BY <2>1, <2>2 DEF Handled, Sound
<1> HIDE DEF free
<1>3. Handled(free, judged)
  BY <1>2, Dispatches DEF Handled
<1> HIDE DEF judged
<1>4. Handled(judged, [judged EXCEPT !.session = SessionFrame(@)])
  <2>1. Sound(judged)
    BY <1>3 DEF Handled
  <2> QED BY <2>1, OtherField
<1> QED BY <1>1, <1>2, <1>3, <1>4, Then

\* What Dart reports: its main, its startup, its liveness.
LEMMA Reports ==
  ASSUME NEW w, Sound(w), NEW args
  PROVE  /\ Handled(w, OnMainStarting(w))
         /\ Handled(w, OnStartupComplete(w, args))
         /\ Handled(w, OnLivenessStamp(w, args))
<1> DEFINE v == [w EXCEPT !.main_seen = TRUE]
<1>1. Handled(w, v)
  BY OtherField
<1> HIDE DEF v
<1>2. Handled(v, UpdateWatchdogJudgeable(v))
  BY <1>1, Judged DEF Handled
<1>3. OnMainStarting(w) = UpdateWatchdogJudgeable(v)
  BY DEF OnMainStarting, v
<1>4. Handled(w, OnMainStarting(w))
  BY <1>1, <1>2, <1>3, Then
<1>5. Handled(w, OnStartupComplete(w, args))
  BY OtherField DEF OnStartupComplete
<1>6. Handled(w, OnLivenessStamp(w, args))
  BY OtherField DEF OnLivenessStamp
<1> QED BY <1>4, <1>5, <1>6

\* Time touches none of it.
LEMMA Ages ==
  ASSUME NEW w, Sound(w)
  PROVE  Handled(w, Age(w))
<1> DEFINE later == IF w.due > 0 THEN w.due - 1 ELSE 0
           v == [w EXCEPT !.gate = AgeGate(@), !.session = AgeSession(@),
                          !.live = AgeWatch(@), !.dog = AgeWatchdog(@),
                          !.due = later]
<1>1. Age(w) = v
  BY DEF Age
<1> HIDE DEF later
<1>2. Shaped(v)
  BY DEF Sound, Shaped
<1>3. /\ v.phase = w.phase /\ v.withdrawn = w.withdrawn
      /\ v.engine = w.engine /\ v.probe_armed = w.probe_armed
      /\ v.callback = w.callback
  BY DEF Sound, Shaped
<1> HIDE DEF v
<1> QED BY <1>1, <1>2, <1>3 DEF Handled, Sound
-----------------------------------------------------------------------------
(***************************************************************************)
(* The steps.                                                              *)
(***************************************************************************)
LEMMA Kept ==
  ASSUME NEW w, NEW v, Sound(w), Ended(w), Handled(w, v)
  PROVE  Sound(v) /\ Ended(v)
  BY DEF Handled, Ended

\* The window of OnCreate before its timer starts.
LEMMA Starts ==
  ASSUME NEW w, Sound(w), NEW created, NEW storm
  PROVE  LET v == [w EXCEPT !.phase = "running", !.sentinel = created,
                            !.session.storm_detector = storm,
                            !.dog = OnStarted(@).dog]
         IN Sound(v) /\ Ended(v)
<1> DEFINE s == [w.session EXCEPT !.storm_detector = storm]
           v == [w EXCEPT !.phase = "running", !.sentinel = created,
                          !.session = s, !.dog = OnStarted(@).dog]
<1> HIDE DEF s
<1>1. Shaped(v)
  BY DEF Sound, Shaped
<1>2. /\ v.phase = "running" /\ v.engine = w.engine
      /\ v.probe_armed = w.probe_armed /\ v.callback = w.callback
  BY DEF Sound, Shaped
<1>3. v = [w EXCEPT !.phase = "running", !.sentinel = created,
                    !.session.storm_detector = storm,
                    !.dog = OnStarted(@).dog]
  BY DEF s
<1> HIDE DEF v
<1>4. Sound(v) /\ Ended(v)
  BY <1>1, <1>2 DEF Sound, Ended
<1> QED BY <1>3, <1>4

\* A phase that is neither the start nor the end.
LEMMA Enters ==
  ASSUME NEW w, Sound(w),
         NEW phase \in {"running", "failed_start", "wedged"}
  PROVE  /\ Sound([w EXCEPT !.phase = phase])
         /\ Ended([w EXCEPT !.phase = phase])
<1> DEFINE v == [w EXCEPT !.phase = phase]
<1>1. Shaped(v)
  BY DEF Sound, Shaped
<1>2. /\ v.phase = phase /\ v.engine = w.engine
      /\ v.probe_armed = w.probe_armed /\ v.callback = w.callback
  BY DEF Sound, Shaped
<1> HIDE DEF v
<1>3. Sound(v) /\ Ended(v)
  BY <1>1, <1>2 DEF Sound, Ended
<1> QED BY <1>3 DEF v

\* OnCreate.
LEMMA Created ==
  ASSUME WindowInv, OnCreate
  PROVE  WindowInv'
<1>1. PICK created \in Outcome, storm, timer \in BOOLEAN :
        LET built == CreateController(window, created)
            armed == [built EXCEPT !.phase = "running", !.sentinel = created,
                                   !.session.storm_detector = storm,
                                   !.dog = OnStarted(@).dog]
        IN window' =
             CASE created = "failed" -> [built EXCEPT !.phase = "failed_start"]
               [] created # "failed" /\ ~window.enabled ->
                    [built EXCEPT !.phase = "running"]
               [] created # "failed" /\ window.enabled /\ timer ->
                    StartWatchdogTimer(StartProbe(armed), ProbeInterval)
               [] OTHER -> DisableWatchdog(StartProbe(armed))
  BY DEF OnCreate
<1> DEFINE built == CreateController(window, created)
           armed == [built EXCEPT !.phase = "running", !.sentinel = created,
                                  !.session.storm_detector = storm,
                                  !.dog = OnStarted(@).dog]
           probed == StartProbe(armed)
<1>2. \/ window' = [built EXCEPT !.phase = "failed_start"]
      \/ window' = [built EXCEPT !.phase = "running"]
      \/ window' = StartWatchdogTimer(probed, ProbeInterval)
      \/ window' = DisableWatchdog(probed)
  <2>1. CASE created = "failed"
    BY <1>1, <2>1
  <2>2. CASE created # "failed" /\ ~window.enabled
    BY <1>1, <2>2
  <2>3. CASE created # "failed" /\ window.enabled /\ timer
    BY <1>1, <2>3
  <2>4. CASE created # "failed" /\ window.enabled /\ ~timer
    BY <1>1, <2>4
  <2> QED BY <2>1, <2>2, <2>3, <2>4
<1>3. Sound(built)
  <2>1. Sound(window) /\ window.engine = "none"
    BY DEF WindowInv, Ended, OnCreate
  <2> QED BY <2>1, Creates
<1> HIDE DEF built
<1>4. Sound(armed) /\ Ended(armed)
  BY <1>3, Starts
<1> HIDE DEF armed
<1>5. Sound(probed) /\ Ended(probed)
  BY <1>4, Probes, Kept
<1> HIDE DEF probed
<1>6. CASE \/ window' = [built EXCEPT !.phase = "failed_start"]
           \/ window' = [built EXCEPT !.phase = "running"]
  BY <1>3, <1>6, Enters DEF WindowInv
<1>7. CASE \/ window' = StartWatchdogTimer(probed, ProbeInterval)
           \/ window' = DisableWatchdog(probed)
  BY <1>5, <1>7, Timed, Disarms, Kept DEF WindowInv
<1> QED BY <1>2, <1>6, <1>7

\* The steps that apply a handler.
LEMMA Handles ==
  ASSUME WindowInv,
         \/ FramePresented \/ MainStarting \/ StartupComplete \/ LivenessStamp
         \/ HandlePosted \/ PowerResume \/ DisplayChange \/ SessionChange
         \/ HandleTick \/ Storm \/ DeviceRemoved \/ Hang \/ Recover
         \/ TimerFires \/ Elapse
  PROVE  Handled(window, window')
<1>0. Sound(window)
  BY DEF WindowInv
<1>1. CASE FramePresented
  BY <1>0, <1>1, Presents DEF FramePresented
<1>2. CASE MainStarting
  BY <1>0, <1>2, Reports DEF MainStarting
<1>3. CASE StartupComplete
  BY <1>0, <1>3, Reports DEF StartupComplete
<1>4. CASE LivenessStamp
  BY <1>0, <1>4, Reports DEF LivenessStamp
<1>5. CASE HandlePosted
  BY <1>0, <1>5, Polls, Losses DEF HandlePosted
<1>6. CASE PowerResume
  <2> DEFINE hinted == Hint(window, "none")
  <2>1. Handled(window, hinted)
    BY <1>0, Hints
  <2>2. window' = RequestEngineRebuild(hinted, "watched")
    BY <1>6 DEF PowerResume
  <2> HIDE DEF hinted
  <2>3. Handled(hinted, RequestEngineRebuild(hinted, "watched"))
    BY <2>1, Requests DEF Handled
  <2> QED BY <2>1, <2>2, <2>3, Then
<1>7. CASE DisplayChange
  BY <1>0, <1>7, Hints DEF DisplayChange
<1>8. CASE SessionChange
  <2> DEFINE w == Hint(window, "none")
  <2>1. PICK answer :
          \/ window' =
               HandleSessionDecision([w EXCEPT !.session = answer.policy],
                                     answer.rebuild, "watched")
          \/ window' = [w EXCEPT !.session = OnRemoteDisconnect(@)]
    BY <1>8 DEF SessionChange
  <2>2. Handled(window, w) /\ Sound(w)
    BY <1>0, Hints DEF Handled
  <2> DEFINE v == [w EXCEPT !.session = answer.policy]
  <2> HIDE DEF w
  <2>3. Handled(w, [w EXCEPT !.session = OnRemoteDisconnect(@)])
    BY <2>2, OtherField
  <2>4. Handled(w, v)
    BY <2>2, OtherField
  <2> HIDE DEF v
  <2>8. Sound(v)
    BY <2>4 DEF Handled
  <2>5. Handled(v, HandleSessionDecision(v, answer.rebuild, "watched"))
    BY <2>8, Decides
  <2>6. \/ window' = HandleSessionDecision(v, answer.rebuild, "watched")
        \/ window' = [w EXCEPT !.session = OnRemoteDisconnect(@)]
    BY <2>1 DEF v
  <2>7. Handled(w, window')
    BY <2>3, <2>4, <2>5, <2>6, Then
  <2> QED BY <2>2, <2>7, Then
<1>9. CASE HandleTick
  BY <1>0, <1>9, Ticks DEF HandleTick
<1>10. CASE Storm \/ Hang \/ Recover
  BY <1>0, <1>10, OtherField DEF Storm, Hang, Recover
<1>11. CASE DeviceRemoved
  BY <1>0, <1>11, OtherField DEF DeviceRemoved
<1>12. CASE TimerFires
  BY <1>0, <1>12, OtherField DEF TimerFires
<1>13. CASE Elapse
  BY <1>0, <1>13, Ages DEF Elapse
<1> QED BY <1>1, <1>2, <1>3, <1>4, <1>5, <1>6, <1>7, <1>8, <1>9, <1>10, <1>11,
           <1>12, <1>13

\* The steps that end something.
LEMMA Ends ==
  ASSUME WindowInv,
         EngineDraws \/ Close \/ SendTimesOut \/ TimerStopped \/ LoopEnds
  PROVE  WindowInv'
<1>0. Sound(window) /\ Ended(window)
  BY DEF WindowInv
<1>1. CASE EngineDraws
  <2> DEFINE v == [window EXCEPT !.callback = "posted"]
  <2>1. window' = v /\ window.phase = "running" /\ window.callback = "armed"
    BY <1>1 DEF EngineDraws
  <2>2. Shaped(v)
    BY <1>0 DEF Sound, Shaped
  <2>3. /\ v.phase = window.phase /\ v.engine = window.engine
        /\ v.probe_armed = window.probe_armed /\ v.callback = "posted"
    BY <1>0 DEF Sound, Shaped
  <2> HIDE DEF v
  <2> QED BY <1>0, <2>1, <2>2, <2>3 DEF Sound, Ended, WindowInv
<1>2. CASE Close
  <2> DEFINE v == [window EXCEPT !.withdrawn = TRUE, !.phase = "stop_close"]
  <2>1. window' = v
    BY <1>2 DEF Close
  <2>2. Shaped(v)
    BY <1>0 DEF Sound, Shaped
  <2>3. /\ v.phase = "stop_close" /\ v.withdrawn = TRUE
        /\ v.engine = window.engine /\ v.probe_armed = window.probe_armed
        /\ v.callback = window.callback
    BY <1>0 DEF Sound, Shaped
  <2> HIDE DEF v
  <2> QED BY <1>0, <2>1, <2>2, <2>3 DEF Sound, Ended, WindowInv
<1>3. CASE SendTimesOut
  <2>1. window' = window \/ window' = [window EXCEPT !.phase = "wedged"]
    BY <1>3 DEF SendTimesOut
  <2> QED BY <1>0, <2>1, Enters DEF WindowInv
<1>4. CASE TimerStopped
  <2> DEFINE w == [window EXCEPT !.period = 0, !.due = 0]
             gone == DestroyController(w)
             quit == [gone EXCEPT !.phase = "quit"]
  <2>1. \/ window' = [w EXCEPT !.phase = "running"]
        \/ window' = quit
    BY <1>4 DEF TimerStopped
  <2>2. Shaped(w)
    BY <1>0 DEF Sound, Shaped
  <2>3. /\ w.engine = window.engine /\ w.probe_armed = window.probe_armed
        /\ w.callback = window.callback
    BY <1>0 DEF Sound, Shaped
  <2> HIDE DEF w
  <2>4. Sound(w)
    BY <1>0, <2>2, <2>3 DEF Sound
  <2>5. Sound(gone) /\ gone.engine = "none"
    BY <2>4, Destroys DEF Handled
  <2> HIDE DEF gone
  <2>6. Shaped(quit)
    BY <2>5 DEF Sound, Shaped
  <2>7. /\ quit.phase = "quit" /\ quit.engine = "none"
        /\ quit.probe_armed = gone.probe_armed
        /\ quit.callback = gone.callback
    BY <2>5 DEF Sound, Shaped
  <2> HIDE DEF quit
  <2>8. Sound(quit) /\ Ended(quit)
    BY <2>5, <2>6, <2>7 DEF Sound, Ended
  <2> QED BY <2>1, <2>4, <2>8, Enters DEF WindowInv
<1>5. CASE LoopEnds
  <2> DEFINE v == [window EXCEPT !.phase = "ended"]
  <2>1. window' = v /\ window.phase = "quit"
    BY <1>5 DEF LoopEnds
  <2>2. Shaped(v)
    BY <1>0 DEF Sound, Shaped
  <2>3. /\ v.phase = "ended" /\ v.engine = window.engine
        /\ v.probe_armed = window.probe_armed /\ v.callback = window.callback
    BY <1>0 DEF Sound, Shaped
  <2> HIDE DEF v
  <2> QED BY <1>0, <2>1, <2>2, <2>3 DEF Sound, Ended, WindowInv
<1> QED BY <1>1, <1>2, <1>3, <1>4, <1>5
-----------------------------------------------------------------------------
(***************************************************************************)
(* The theorems.                                                           *)
(***************************************************************************)
LEMMA WindowInit == Init => WindowInv
<1> SUFFICES ASSUME NEW enabled \in BOOLEAN, NEW policy \in Policies,
                    window = NewWindow(enabled, policy)
             PROVE  WindowInv
  BY DEF Init
<1>1. Shaped(window)
  BY DEF NewWindow, Shaped
<1>2. /\ window.engine = "none" /\ window.callback = "none"
      /\ window.probe_armed = FALSE /\ window.phase = "starting"
  BY DEF NewWindow
<1> QED BY <1>1, <1>2 DEF WindowInv, Sound, Ended

\* Every step keeps the window sound.
LEMMA WindowStep == WindowInv /\ [Next]_vars => WindowInv'
<1> SUFFICES ASSUME WindowInv, [Next]_vars
             PROVE  WindowInv'
  OBVIOUS
<1>1. CASE UNCHANGED vars
  BY <1>1 DEF vars, WindowInv
<1>2. CASE Next
  BY <1>2, Created, Handles, Ends, Kept DEF Next, PlatformStep, WindowInv
<1> QED BY <1>1, <1>2

\* What the two theorems rest on, in every state.
THEOREM WindowInvariant == Spec => []WindowInv
<1>1. Init => WindowInv
  BY WindowInit
<1>2. WindowInv /\ [Next]_vars => WindowInv'
  BY WindowStep
<1> QED BY <1>1, <1>2, PTL DEF Spec

\* The engine's next-frame slot is never set twice, and the flag that guards it
\* never lies about it (FlutterWindow::StartProbe): through rebuilds that
\* succeed, fail or are refused, failing actions, exits and closes.
THEOREM CallbackArmedOnce == Spec => []FrameCallbackArmedOnce
<1>1. WindowInv => FrameCallbackArmedOnce
  BY DEF WindowInv, Sound, FrameCallbackArmedOnce
<1> QED BY <1>1, WindowInvariant, PTL

\* Messages that are handled after the quit was posted make no new engine, and
\* a closed window had its restart withdrawn first (FlutterWindow::OnDestroy).
THEOREM NoEngineOutlivesTheQuit == Spec => []NoEngineAfterQuit
<1>1. WindowInv => NoEngineAfterQuit
  BY DEF WindowInv, Ended, NoEngineAfterQuit
<1> QED BY <1>1, WindowInvariant, PTL

-----------------------------------------------------------------------------
(***************************************************************************)
(* No rebuild interrupts a startup that still blocks, whoever asks for it: *)
(* the handlers, one by one, leave the gate of such a startup and what     *)
(* Dart reported of it as they are.                                        *)
(***************************************************************************)
\* A window whose gate is one.
Good(w) == Sound(w) /\ w.gate \in Gate

\* What a handler leaves of a startup that blocks.
Spared(w, v) ==
  StartupBlocking(w.gate) =>
    /\ StartupBlocking(v.gate) /\ v.gate.startup_left = w.gate.startup_left
    /\ w.main_seen => v.main_seen

Carries(w, v) == Handled(w, v) /\ v.gate \in Gate /\ Spared(w, v)

\* A window is good after a handler.
LEMMA GoodAfter ==
  ASSUME NEW w, NEW v, Carries(w, v)
  PROVE  Good(v)
  BY DEF Carries, Handled, Good

\* Handlers compose.
LEMMA CarriesOn ==
  ASSUME NEW w, NEW v, NEW u, Carries(w, v), Carries(v, u)
  PROVE  Carries(w, u)
<1>1. Handled(w, u)
  BY Then DEF Carries
<1> QED BY <1>1 DEF Carries, Spared

\* A handler that does not touch the gate nor forgets main().
LEMMA LeavesGate ==
  ASSUME NEW w, NEW v, Good(w), Handled(w, v), v.gate = w.gate,
         w.main_seen => v.main_seen
  PROVE  Carries(w, v)
  BY DEF Carries, Spared, Good

\* What the rest of the window holds is of no matter to the startup.
LEMMA OtherGood ==
  ASSUME NEW w, Good(w), NEW x
  PROVE  /\ Carries(w, w)
         /\ Carries(w, [w EXCEPT !.dog = x])
         /\ Carries(w, [w EXCEPT !.session = x])
         /\ Carries(w, [w EXCEPT !.live = x])
         /\ Carries(w, [w EXCEPT !.sentinel = x])
         /\ Carries(w, [w EXCEPT !.period = x])
         /\ Carries(w, [w EXCEPT !.due = x])
<1>0. Sound(w)
  BY DEF Good
<1>1. Carries(w, w)
  BY <1>0, OtherField, LeavesGate
<1>2. Carries(w, [w EXCEPT !.dog = x])
  <2>1. /\ [w EXCEPT !.dog = x].gate = w.gate
        /\ [w EXCEPT !.dog = x].main_seen = w.main_seen
    BY <1>0 DEF Sound, Shaped
  <2> QED BY <1>0, <2>1, OtherField, LeavesGate
<1>3. Carries(w, [w EXCEPT !.session = x])
  <2>1. /\ [w EXCEPT !.session = x].gate = w.gate
        /\ [w EXCEPT !.session = x].main_seen = w.main_seen
    BY <1>0 DEF Sound, Shaped
  <2> QED BY <1>0, <2>1, OtherField, LeavesGate
<1>4. Carries(w, [w EXCEPT !.live = x])
  <2>1. /\ [w EXCEPT !.live = x].gate = w.gate
        /\ [w EXCEPT !.live = x].main_seen = w.main_seen
    BY <1>0 DEF Sound, Shaped
  <2> QED BY <1>0, <2>1, OtherField, LeavesGate
<1>5. Carries(w, [w EXCEPT !.sentinel = x])
  <2>1. /\ [w EXCEPT !.sentinel = x].gate = w.gate
        /\ [w EXCEPT !.sentinel = x].main_seen = w.main_seen
    BY <1>0 DEF Sound, Shaped
  <2> QED BY <1>0, <2>1, OtherField, LeavesGate
<1>6. Carries(w, [w EXCEPT !.period = x])
  <2>1. /\ [w EXCEPT !.period = x].gate = w.gate
        /\ [w EXCEPT !.period = x].main_seen = w.main_seen
    BY <1>0 DEF Sound, Shaped
  <2> QED BY <1>0, <2>1, OtherField, LeavesGate
<1>7. Carries(w, [w EXCEPT !.due = x])
  <2>1. /\ [w EXCEPT !.due = x].gate = w.gate
        /\ [w EXCEPT !.due = x].main_seen = w.main_seen
    BY <1>0 DEF Sound, Shaped
  <2> QED BY <1>0, <2>1, OtherField, LeavesGate
<1> QED BY <1>1, <1>2, <1>3, <1>4, <1>5, <1>6, <1>7
-----------------------------------------------------------------------------
(***************************************************************************)
(* The gate.                                                               *)
(***************************************************************************)
LEMMA GateKept ==
  ASSUME NEW g \in Gate
  PROVE  /\ Release(g) \in Gate /\ GateEngineCreated(g) \in Gate
         /\ [g EXCEPT !.queued = TRUE] \in Gate
         /\ StartupBlocking(Release(g)) <=> StartupBlocking(g)
<1>1. StartupTimeout \in 0 .. StartupTimeout /\ Debounce \in 0 .. Debounce
  BY GateConstants
<1>2. Release(g) \in Gate
  BY <1>1 DEF Release, Gate
<1>3. GateEngineCreated(g) \in Gate
  BY <1>1 DEF GateEngineCreated, Gate
<1>4. [g EXCEPT !.queued = TRUE] \in Gate
  BY DEF Gate
<1>5. /\ Release(g).startup_left = g.startup_left
      /\ Release(g).startup_in_flight = g.startup_in_flight
  BY DEF Release, Gate
<1> QED BY <1>2, <1>3, <1>4, <1>5 DEF StartupBlocking

\* A request is answered with a rebuild only when no startup blocks.
LEMMA RequestSpares ==
  ASSUME NEW g \in Gate
  PROVE  LET d == GateRequest(g)
         IN /\ d.gate \in Gate
            /\ d.verdict = "rebuild" => ~StartupBlocking(d.gate)
            /\ d.verdict # "rebuild" /\ StartupBlocking(g)
                 => StartupBlocking(d.gate)
            /\ StartupBlocking(g) => d.verdict # "rebuild"
            /\ d.gate.startup_left = g.startup_left
<1>0. g.debounce_left \in Nat
  BY GateConstants DEF Gate
<1>1. CASE g.debounce_left > 0
  <2>1. GateRequest(g) = [gate |-> g, verdict |-> "debounced"]
    BY <1>0, <1>1 DEF GateRequest
  <2> QED BY <2>1
<1>2. CASE g.debounce_left = 0 /\ StartupBlocking(g)
  <2> DEFINE q == [g EXCEPT !.queued = TRUE]
  <2>1. GateRequest(g) = [gate |-> q,
          verdict |-> IF g.queued THEN "coalesced" ELSE "queued"]
    BY <1>2 DEF GateRequest
  <2>2. /\ q.startup_left = g.startup_left
        /\ q.startup_in_flight = g.startup_in_flight
    BY DEF Gate
  <2>3. q \in Gate
    BY GateKept
  <2> HIDE DEF q
  <2> QED BY <2>1, <2>2, <2>3 DEF StartupBlocking
<1>3. CASE g.debounce_left = 0 /\ ~StartupBlocking(g)
  <2>1. GateRequest(g) = [gate |-> Release(g), verdict |-> "rebuild"]
    BY <1>3 DEF GateRequest
  <2>2. Release(g).startup_left = g.startup_left
    BY DEF Release, Gate
  <2>3. Release(g) \in Gate /\ ~StartupBlocking(Release(g))
    BY <1>3, GateKept
  <2> QED BY <1>3, <2>1, <2>2, <2>3
<1> QED BY <1>0, <1>1, <1>2, <1>3
-----------------------------------------------------------------------------
(***************************************************************************)
(* The methods.                                                            *)
(***************************************************************************)
LEMMA JudgedGood ==
  ASSUME NEW w, Good(w)
  PROVE  Carries(w, UpdateWatchdogJudgeable(w))
  BY OtherGood DEF UpdateWatchdogJudgeable

\* Arming the probe spares a startup.
LEMMA ProbesGood ==
  ASSUME NEW w, Good(w)
  PROVE  Carries(w, StartProbe(w))
<1>1. Handled(w, StartProbe(w))
  BY Probes DEF Good
<1>2. StartProbe(w).gate = w.gate /\ StartProbe(w).main_seen = w.main_seen
  BY DEF Good, Sound, Shaped, StartProbe
<1> QED BY <1>1, <1>2, LeavesGate

\* The gate of a new engine.
LEMMA CreatesGood ==
  ASSUME NEW w, Good(w), w.engine = "none", NEW created
  PROVE  Good(CreateController(w, created))
<1> DEFINE a == [w EXCEPT !.gate = GateEngineCreated(@), !.main_seen = FALSE]
           b == UpdateWatchdogJudgeable(a)
           c == [b EXCEPT !.live = EpochStarted]
           v == CreateController(w, created)
<1>1. Sound(v)
  BY Creates DEF Good
<1>2. /\ a.gate = GateEngineCreated(w.gate) /\ Shaped(a)
  BY DEF Good, Sound, Shaped
<1>3. b.gate = a.gate /\ Shaped(b)
  BY <1>2 DEF Shaped, UpdateWatchdogJudgeable
<1>4. v = IF created = "failed" THEN [c EXCEPT !.engine = "none"]
          ELSE [c EXCEPT !.engine = "live", !.probe_armed = TRUE,
                         !.callback = SetNextFrameCallback("none"),
                         !.session = SessionEngineCreated(@)]
  BY DEF CreateController
<1> HIDE DEF b
<1>5. c.gate = b.gate /\ Shaped(c)
  BY <1>3 DEF Shaped
<1> HIDE DEF a, c
<1>6. v.gate = c.gate
  <2>1. [c EXCEPT !.engine = "none"].gate = c.gate
    BY <1>5 DEF Shaped
  <2>2. [c EXCEPT !.engine = "live", !.probe_armed = TRUE,
                  !.callback = SetNextFrameCallback("none"),
                  !.session = SessionEngineCreated(@)].gate = c.gate
    BY <1>5 DEF Shaped
  <2> HIDE DEF v
  <2> QED BY <1>4, <2>1, <2>2
<1>7. GateEngineCreated(w.gate) \in Gate
  BY GateKept DEF Good
<1> HIDE DEF v
<1>8. Good(v)
  BY <1>1, <1>2, <1>3, <1>5, <1>6, <1>7 DEF Good
<1> QED BY <1>8 DEF v

\* A rebuild where no startup blocks spares it.
LEMMA RebuildsGood ==
  ASSUME NEW w, Good(w), ~StartupBlocking(w.gate), NEW created
  PROVE  Carries(w, PerformEngineRebuild(w, created))
<1>1. Handled(w, PerformEngineRebuild(w, created))
  BY Rebuilds DEF Good
<1>2. CASE w.engine = "none"
  BY <1>2, OtherGood DEF PerformEngineRebuild
<1>3. CASE w.engine # "none"
  <2> DEFINE gone == DestroyController(w)
             built == CreateController(gone, created)
             v == IF built.engine = "none" THEN built
                  ELSE [built EXCEPT !.sentinel = created]
  <2>1. PerformEngineRebuild(w, created) = UpdateWatchdogJudgeable(v)
    BY <1>3 DEF PerformEngineRebuild
  <2>2. Sound(gone) /\ gone.engine = "none"
    BY Destroys DEF Handled, Good
  <2>3. gone.gate = w.gate
    BY DEF DestroyController, Good, Sound, Shaped
  <2>4. Good(gone)
    BY <2>2, <2>3 DEF Good
  <2> HIDE DEF gone
  <2>5. Good(built)
    BY <2>2, <2>4, CreatesGood
  <2> HIDE DEF built
  <2>6. Good(v)
    BY <2>5, OtherGood, GoodAfter
  <2> HIDE DEF v
  <2>7. Good(UpdateWatchdogJudgeable(v))
    BY <2>6, JudgedGood, GoodAfter
  <2> QED BY <1>1, <2>1, <2>7 DEF Carries, Spared, Good
<1> QED BY <1>2, <1>3

\* A window with another gate.
LEMMA GateGood ==
  ASSUME NEW w, Good(w), NEW g \in Gate,
         StartupBlocking(w.gate) =>
           StartupBlocking(g) /\ g.startup_left = w.gate.startup_left
  PROVE  Carries(w, [w EXCEPT !.gate = g]) /\ [w EXCEPT !.gate = g].gate = g
<1> DEFINE v == [w EXCEPT !.gate = g]
<1>1. Handled(w, v)
  BY OtherField DEF Good
<1>2. v.gate = g /\ v.main_seen = w.main_seen
  BY DEF Good, Sound, Shaped
<1> HIDE DEF v
<1>3. Carries(w, v)
  BY <1>1, <1>2 DEF Carries, Spared
<1> QED BY <1>2, <1>3 DEF v

\* So does a request, which the gate of a startup refuses or queues.
LEMMA RequestsGood ==
  ASSUME NEW w, Good(w), NEW created
  PROVE  Carries(w, RequestEngineRebuild(w, created))
<1> DEFINE d == GateRequest(w.gate)
           asked == [w EXCEPT !.gate = d.gate]
<1>1. \/ RequestEngineRebuild(w, created) = w
      \/ /\ d.verdict = "rebuild"
         /\ RequestEngineRebuild(w, created)
              = PerformEngineRebuild(asked, created)
      \/ /\ d.verdict # "rebuild"
         /\ RequestEngineRebuild(w, created) = UpdateWatchdogJudgeable(asked)
  BY DEF RequestEngineRebuild
<1>2. /\ d.gate \in Gate
      /\ d.verdict = "rebuild" => ~StartupBlocking(d.gate)
      /\ StartupBlocking(w.gate) =>
           StartupBlocking(d.gate) /\ d.gate.startup_left = w.gate.startup_left
  BY RequestSpares DEF Good
<1> HIDE DEF d
<1>3. Carries(w, asked) /\ asked.gate = d.gate
  BY <1>2, GateGood
<1> HIDE DEF asked
<1>4. Good(asked)
  BY <1>3, GoodAfter
<1>5. CASE RequestEngineRebuild(w, created) = w
  BY <1>5, OtherGood
<1>6. CASE /\ d.verdict = "rebuild"
           /\ RequestEngineRebuild(w, created)
                = PerformEngineRebuild(asked, created)
  BY <1>2, <1>3, <1>4, <1>6, RebuildsGood, CarriesOn
<1>7. CASE RequestEngineRebuild(w, created) = UpdateWatchdogJudgeable(asked)
  BY <1>3, <1>4, <1>7, JudgedGood, CarriesOn
<1> QED BY <1>1, <1>5, <1>6, <1>7

\* Setting the period of the timer spares a startup, and starting it does.
LEMMA TimedGood ==
  ASSUME NEW w, Good(w), NEW period
  PROVE  /\ Carries(w, SetWatchdogPeriod(w, period))
         /\ Carries(w, StartWatchdogTimer(w, period))
<1> DEFINE t == [w EXCEPT !.period = period, !.due = period]
<1>1. /\ Handled(w, SetWatchdogPeriod(w, period))
      /\ Handled(w, StartWatchdogTimer(w, period))
  BY Timed DEF Good
<1>2. t.gate = w.gate /\ t.main_seen = w.main_seen
  BY DEF Good, Sound, Shaped
<1>3. SetWatchdogPeriod(w, period) = t \/ SetWatchdogPeriod(w, period) = w
  BY DEF SetWatchdogPeriod
<1>4. \/ StartWatchdogTimer(w, period) = t
      \/ StartWatchdogTimer(w, period) = SetWatchdogPeriod(w, period)
  BY DEF StartWatchdogTimer
<1> HIDE DEF t
<1> QED BY <1>1, <1>2, <1>3, <1>4, LeavesGate

\* Ending the watchdog spares a startup.
LEMMA DisarmsGood ==
  ASSUME NEW w, Good(w)
  PROVE  /\ Carries(w, ExitAfterDeviceLoss(w))
         /\ Carries(w, DisableWatchdog(w))
<1>1. Handled(w, ExitAfterDeviceLoss(w)) /\ Handled(w, DisableWatchdog(w))
  BY Disarms DEF Good
<1>2. /\ ExitAfterDeviceLoss(w).gate = w.gate
      /\ ExitAfterDeviceLoss(w).main_seen = w.main_seen
  BY DEF ExitAfterDeviceLoss, Good, Sound, Shaped
<1>3. /\ DisableWatchdog(w).gate = w.gate
      /\ DisableWatchdog(w).main_seen = w.main_seen
  BY DEF DisableWatchdog, Good, Sound, Shaped
<1> QED BY <1>1, <1>2, <1>3, LeavesGate

\* Whatever the watchdog decides spares a startup.
LEMMA ActsGood ==
  ASSUME NEW w, Good(w), NEW a, NEW created
  PROVE  Carries(w, ApplyAction(w, a, created))
<1> DEFINE rebuilt == IF a.restart THEN RequestEngineRebuild(w, created) ELSE w
           probed == IF a.probe THEN StartProbe(rebuilt) ELSE rebuilt
<1>1. \/ ApplyAction(w, a, created) = ExitAfterDeviceLoss(w)
      \/ ApplyAction(w, a, created) = probed
      \/ ApplyAction(w, a, created) = SetWatchdogPeriod(probed, a.period)
  BY DEF ApplyAction
<1>2. Carries(w, rebuilt)
  BY OtherGood, RequestsGood
<1> HIDE DEF rebuilt
<1>3. Good(rebuilt)
  BY <1>2, GoodAfter
<1>4. Carries(rebuilt, probed)
  BY <1>3, OtherGood, ProbesGood
<1> HIDE DEF probed
<1>5. Carries(w, probed)
  BY <1>2, <1>4, CarriesOn
<1>6. Good(probed)
  BY <1>4, GoodAfter
<1>7. Carries(probed, SetWatchdogPeriod(probed, a.period))
  BY <1>6, TimedGood
<1>8. Carries(w, SetWatchdogPeriod(probed, a.period))
  BY <1>5, <1>7, CarriesOn
<1> QED BY <1>1, <1>5, <1>8, DisarmsGood

\* A reading given to the watchdog spares a startup.
LEMMA DispatchesGood ==
  ASSUME NEW w, Good(w), NEW r, NEW created, NEW fault
  PROVE  Carries(w, Dispatch(w, r, created, fault))
<1> DEFINE v == [w EXCEPT !.dog = r.dog]
<1>1. Carries(w, v)
  BY OtherGood
<1>2. CASE ~w.enabled \/ w.dog.disabled
  BY <1>2, OtherGood DEF Dispatch
<1>3. CASE ~(~w.enabled \/ w.dog.disabled)
  <2>1. \/ Dispatch(w, r, created, fault) = DisableWatchdog(v)
        \/ Dispatch(w, r, created, fault)
             = ApplyAction(v, Done(r.action, fault), created)
    BY <1>3 DEF Dispatch
  <2> HIDE DEF v
  <2>2. Good(v)
    BY <1>1, GoodAfter
  <2>3. /\ Carries(v, DisableWatchdog(v))
        /\ Carries(v, ApplyAction(v, Done(r.action, fault), created))
    BY <2>2, DisarmsGood, ActsGood
  <2> QED BY <1>1, <2>1, <2>3, CarriesOn
<1> QED BY <1>2, <1>3
-----------------------------------------------------------------------------
(***************************************************************************)
(* The handlers.                                                           *)
(***************************************************************************)
LEMMA HintsGood ==
  ASSUME NEW w, Good(w), NEW fault
  PROVE  Carries(w, Hint(w, fault))
  BY DispatchesGood DEF Hint

\* The message of a loss spares a startup.
LEMMA LossesGood ==
  ASSUME NEW w, Good(w), NEW created, NEW fault
  PROVE  Carries(w, LossMessage(w, created, fault))
  BY OtherGood, DispatchesGood DEF LossMessage

\* A rebuild that waits goes on waiting for a startup.
LEMMA PollsGood ==
  ASSUME NEW w, Good(w), NEW created
  PROVE  Carries(w, Poll(w, created))
<1> DEFINE v == [w EXCEPT !.gate = Release(w.gate)]
<1>1. CASE ~PollReleases(w.gate)
  BY <1>1, OtherGood DEF Poll, GatePoll
<1>2. CASE PollReleases(w.gate)
  <2>1. Poll(w, created) = PerformEngineRebuild(v, created)
    BY <1>2 DEF Poll, GatePoll
  <2>2. ~StartupBlocking(w.gate) /\ ~StartupBlocking(Release(w.gate))
    BY <1>2, GateKept DEF PollReleases, Good
  <2>3. Carries(w, v) /\ v.gate = Release(w.gate)
    BY <2>2, GateKept, GateGood DEF Good
  <2> HIDE DEF v
  <2>4. Good(v)
    BY <2>3, GoodAfter
  <2>5. Carries(v, PerformEngineRebuild(v, created))
    BY <2>2, <2>3, <2>4, RebuildsGood
  <2> QED BY <2>1, <2>3, <2>5, CarriesOn
<1> QED BY <1>1, <1>2

\* Whatever the session policy decides spares a startup.
LEMMA DecidesGood ==
  ASSUME NEW w, Good(w), NEW rebuild, NEW created
  PROVE  Carries(w, HandleSessionDecision(w, rebuild, created))
  BY OtherGood, RequestsGood DEF HandleSessionDecision

\* A tick of the timer spares a startup.
LEMMA TicksGood ==
  ASSUME NEW v, Good(v), NEW created, NEW fault
  PROVE  Carries(v, Tick(v, created, fault))
<1> DEFINE w == [v EXCEPT !.dog = ConsumeJudgementHoldExpired(@)]
           s == [w EXCEPT !.session = SessionTick(@)]
           r == IF RenderDeviceIsLost(w) THEN OnRendererLost(w.dog)
                ELSE OnTick(w.dog)
<1>1. Carries(v, w)
  BY OtherGood
<1>2. \/ Tick(v, created, fault) = Poll(w, created)
      \/ Tick(v, created, fault) = HandleSessionDecision(s, TRUE, created)
      \/ Tick(v, created, fault) = Dispatch(w, r, created, fault)
  BY DEF Tick
<1> HIDE DEF w, r
<1>3. Good(w)
  BY <1>1, GoodAfter
<1>4. Carries(w, s)
  BY <1>3, OtherGood
<1> HIDE DEF s
<1>5. Good(s)
  BY <1>4, GoodAfter
<1>6. /\ Carries(w, Poll(w, created))
      /\ Carries(w, Dispatch(w, r, created, fault))
  BY <1>3, PollsGood, DispatchesGood
<1>7. Carries(s, HandleSessionDecision(s, TRUE, created))
  BY <1>5, DecidesGood
<1>8. Carries(w, HandleSessionDecision(s, TRUE, created))
  BY <1>4, <1>7, CarriesOn
<1> QED BY <1>1, <1>2, <1>6, <1>8, CarriesOn

\* The first frame spares a startup.
LEMMA PresentsGood ==
  ASSUME NEW w, Good(w), NEW fault
  PROVE  Carries(w, OnFramePresented(w, fault))
<1> DEFINE free == [w EXCEPT !.probe_armed = FALSE, !.callback = "none"]
           judged == Dispatch(free, WatchdogFrame(free.dog), "failed", fault)
<1>1. OnFramePresented(w, fault)
        = [judged EXCEPT !.session = SessionFrame(@)]
  BY DEF OnFramePresented
<1>2. Carries(w, free)
  <2>1. Shaped(free)
    BY DEF Good, Sound, Shaped
  <2>2. /\ free.phase = w.phase /\ free.withdrawn = w.withdrawn
        /\ free.engine = w.engine /\ free.probe_armed = FALSE
        /\ free.callback = "none" /\ free.gate = w.gate
        /\ free.main_seen = w.main_seen
    BY DEF Good, Sound, Shaped
  <2> HIDE DEF free
  <2>3. Handled(w, free)
    BY <2>1, <2>2 DEF Handled, Sound
  <2> QED BY <2>2, <2>3, LeavesGate
<1> HIDE DEF free
<1>3. Good(free)
  BY <1>2, GoodAfter
<1>4. Carries(free, judged)
  BY <1>3, DispatchesGood
<1> HIDE DEF judged
<1>5. Good(judged)
  BY <1>4, GoodAfter
<1>6. Carries(judged, [judged EXCEPT !.session = SessionFrame(@)])
  BY <1>5, OtherGood
<1> QED BY <1>1, <1>2, <1>4, <1>6, CarriesOn

\* What Dart reports spares a startup, but that it is complete.
LEMMA ReportsGood ==
  ASSUME NEW w, Good(w), NEW args
  PROVE  /\ Carries(w, OnMainStarting(w))
         /\ Carries(w, OnLivenessStamp(w, args))
<1> DEFINE v == [w EXCEPT !.main_seen = TRUE]
<1>1. Handled(w, v)
  BY OtherField DEF Good
<1>2. v.gate = w.gate /\ v.main_seen = TRUE
  BY DEF Good, Sound, Shaped
<1> HIDE DEF v
<1>3. Carries(w, v)
  BY <1>1, <1>2, LeavesGate
<1>4. Good(v)
  BY <1>3, GoodAfter
<1>5. Carries(v, UpdateWatchdogJudgeable(v))
  BY <1>4, JudgedGood
<1>6. OnMainStarting(w) = UpdateWatchdogJudgeable(v)
  BY DEF OnMainStarting, v
<1>7. Carries(w, OnMainStarting(w))
  BY <1>3, <1>5, <1>6, CarriesOn
<1>8. Carries(w, OnLivenessStamp(w, args))
  BY OtherGood DEF OnLivenessStamp
<1> QED BY <1>7, <1>8
-----------------------------------------------------------------------------
(***************************************************************************)
(* The steps.                                                              *)
(***************************************************************************)
\* Before the window is up no engine starts.
GateInv ==
  /\ window.gate \in Gate
  /\ window.phase = "starting" => ~window.gate.startup_in_flight

\* One step of StartupNotInterrupted.
SparesStartup ==
  StartupBlocking(window.gate) /\ window'.engine = "live"
    => /\ window'.gate.startup_left <= window.gate.startup_left
       /\ window.main_seen => window'.main_seen

\* A handler runs in a window that is up.
LEMMA CarriedStep ==
  ASSUME GateInv, Carries(window, window'), window.phase # "starting"
  PROVE  GateInv' /\ SparesStartup
<1>1. window.gate.startup_left \in Nat
  BY GateConstants DEF GateInv, Gate
<1>2. window'.phase # "starting"
  BY DEF Carries, Handled
<1>3. window'.gate \in Gate
  BY DEF Carries
<1>4. SparesStartup
  BY <1>1 DEF Carries, Spared, SparesStartup
<1> QED BY <1>2, <1>3, <1>4 DEF GateInv

\* A step that is none of the gate's business.
LEMMA GateUntouched ==
  ASSUME GateInv, window'.gate = window.gate,
         window'.main_seen = window.main_seen,
         window'.phase = "starting" => window.phase = "starting"
  PROVE  GateInv' /\ SparesStartup
<1>1. window.gate.startup_left \in Nat
  BY GateConstants DEF GateInv, Gate
<1> QED BY <1>1 DEF GateInv, SparesStartup

\* Every action that runs a handler spares a startup.
LEMMA HandlersSpare ==
  ASSUME WindowInv, GateInv,
         \/ FramePresented \/ MainStarting \/ LivenessStamp \/ HandlePosted
         \/ PowerResume \/ DisplayChange \/ SessionChange \/ HandleTick
  PROVE  GateInv' /\ SparesStartup
<1>0. Good(window)
  BY DEF WindowInv, GateInv, Good
<1>p. window.phase # "starting"
  BY DEF FramePresented, MainStarting, LivenessStamp, HandlePosted,
         PowerResume, DisplayChange, SessionChange, HandleTick, InEngineCall,
         Pumping
<1> SUFFICES Carries(window, window')
  BY <1>p, CarriedStep
<1>1. CASE FramePresented
  BY <1>0, <1>1, PresentsGood DEF FramePresented
<1>2. CASE MainStarting
  BY <1>0, <1>2, ReportsGood DEF MainStarting
<1>3. CASE LivenessStamp
  BY <1>0, <1>3, ReportsGood DEF LivenessStamp
<1>4. CASE HandlePosted
  BY <1>0, <1>4, PollsGood, LossesGood DEF HandlePosted
<1>5. CASE PowerResume
  <2> DEFINE hinted == Hint(window, "none")
  <2>1. Carries(window, hinted)
    BY <1>0, HintsGood
  <2>2. window' = RequestEngineRebuild(hinted, "watched")
    BY <1>5 DEF PowerResume
  <2> HIDE DEF hinted
  <2>3. Good(hinted)
    BY <2>1, GoodAfter
  <2>4. Carries(hinted, RequestEngineRebuild(hinted, "watched"))
    BY <2>3, RequestsGood
  <2> QED BY <2>1, <2>2, <2>4, CarriesOn
<1>6. CASE DisplayChange
  BY <1>0, <1>6, HintsGood DEF DisplayChange
<1>7. CASE SessionChange
  <2> DEFINE w == Hint(window, "none")
  <2>1. PICK answer :
          \/ window' =
               HandleSessionDecision([w EXCEPT !.session = answer.policy],
                                     answer.rebuild, "watched")
          \/ window' = [w EXCEPT !.session = OnRemoteDisconnect(@)]
    BY <1>7 DEF SessionChange
  <2>2. Carries(window, w)
    BY <1>0, HintsGood
  <2> DEFINE v == [w EXCEPT !.session = answer.policy]
  <2> HIDE DEF w
  <2>3. Good(w)
    BY <2>2, GoodAfter
  <2>4. Carries(w, [w EXCEPT !.session = OnRemoteDisconnect(@)])
    BY <2>3, OtherGood
  <2>5. Carries(w, v)
    BY <2>3, OtherGood
  <2> HIDE DEF v
  <2>6. Good(v)
    BY <2>5, GoodAfter
  <2>7. Carries(v, HandleSessionDecision(v, answer.rebuild, "watched"))
    BY <2>6, DecidesGood
  <2>8. \/ window' = HandleSessionDecision(v, answer.rebuild, "watched")
        \/ window' = [w EXCEPT !.session = OnRemoteDisconnect(@)]
    BY <2>1 DEF v
  <2>9. Carries(w, window')
    BY <2>4, <2>5, <2>7, <2>8, CarriesOn
  <2> QED BY <2>2, <2>9, CarriesOn
<1>8. CASE HandleTick
  BY <1>0, <1>8, TicksGood DEF HandleTick
<1> QED BY <1>1, <1>2, <1>3, <1>4, <1>5, <1>6, <1>7, <1>8

\* A startup may end, and its time runs out.
LEMMA TimeSpares ==
  ASSUME WindowInv, GateInv, StartupComplete \/ Elapse
  PROVE  GateInv' /\ SparesStartup
<1>0. Sound(window) /\ window.gate \in Gate
  BY DEF WindowInv, GateInv
<1>1. CASE StartupComplete
  <2> DEFINE g == GateStartupComplete(window.gate)
             v == [window EXCEPT !.gate = g]
  <2>1. window' = v \/ window' = window
    BY <1>1 DEF StartupComplete, OnStartupComplete
  <2>2. /\ v.gate = g /\ v.main_seen = window.main_seen
        /\ v.phase = window.phase
    BY <1>0 DEF Sound, Shaped
  <2>3. 0 \in 0 .. StartupTimeout /\ window.gate.startup_left \in Nat
    BY <1>0, GateConstants DEF Gate
  <2>4. g \in Gate /\ g.startup_left = 0 /\ g.startup_in_flight = FALSE
    BY <1>0, <2>3 DEF Gate, GateStartupComplete
  <2> HIDE DEF g, v
  <2>5. CASE window' = v
    <3>1. GateInv'
      BY <2>2, <2>4, <2>5 DEF GateInv
    <3>2. 0 <= window.gate.startup_left
      BY <2>3
    <3>3. SparesStartup
      BY <2>2, <2>4, <2>5, <3>2 DEF SparesStartup
    <3> QED BY <3>1, <3>3
  <2>6. CASE window' = window
    BY <2>6, GateUntouched
  <2> QED BY <2>1, <2>5, <2>6
<1>2. CASE Elapse
  <2> DEFINE later == IF window.due > 0 THEN window.due - 1 ELSE 0
             g == AgeGate(window.gate)
             v == [window EXCEPT !.gate = g, !.session = AgeSession(@),
                                 !.live = AgeWatch(@), !.dog = AgeWatchdog(@),
                                 !.due = later]
  <2>1. window' = v
    BY <1>2 DEF Elapse, Age
  <2> HIDE DEF later
  <2>2. /\ v.gate = g /\ v.main_seen = window.main_seen
        /\ v.phase = window.phase
    BY <1>0 DEF Sound, Shaped
  <2>3. /\ window.gate.startup_left \in 0 .. StartupTimeout
        /\ window.gate.debounce_left \in 0 .. Debounce
    BY <1>0 DEF Gate
  <2>4. /\ Less(window.gate.startup_left) \in 0 .. StartupTimeout
        /\ Less(window.gate.debounce_left) \in 0 .. Debounce
        /\ Less(window.gate.startup_left) <= window.gate.startup_left
    BY <2>3, GateConstants DEF Less
  <2>5. g \in Gate
    BY <1>0, <2>4 DEF AgeGate, Gate
  <2>6. g.startup_left = Less(window.gate.startup_left)
    BY <1>0 DEF AgeGate, Gate
  <2> HIDE DEF g, v
  <2>7. window.phase = "running"
    BY <1>2 DEF Elapse
  <2>8. GateInv'
    BY <2>1, <2>2, <2>5, <2>7 DEF GateInv
  <2>9. SparesStartup
    BY <2>1, <2>2, <2>4, <2>6 DEF SparesStartup
  <2> QED BY <2>8, <2>9
<1> QED BY <1>1, <1>2

\* The steps that do not ask the gate.
LEMMA OthersSpare ==
  ASSUME WindowInv, GateInv,
         \/ EngineDraws \/ Storm \/ DeviceRemoved \/ Hang \/ Recover \/ Close
         \/ TimerFires \/ SendTimesOut \/ TimerStopped \/ LoopEnds
  PROVE  GateInv' /\ SparesStartup
<1>0. Shaped(window)
  BY DEF WindowInv, Sound
<1> SUFFICES /\ window'.gate = window.gate
             /\ window'.main_seen = window.main_seen
             /\ window'.phase = "starting" => window.phase = "starting"
  BY GateUntouched
<1>1. CASE EngineDraws
  BY <1>0, <1>1 DEF EngineDraws, Shaped
<1>2. CASE Storm \/ Hang \/ Recover
  BY <1>2 DEF Storm, Hang, Recover
<1>3. CASE DeviceRemoved
  BY <1>0, <1>3 DEF DeviceRemoved, Shaped
<1>4. CASE Close
  BY <1>0, <1>4 DEF Close, Shaped
<1>5. CASE TimerFires
  BY <1>0, <1>5 DEF TimerFires, Shaped
<1>6. CASE SendTimesOut
  <2>1. window' = window \/ window' = [window EXCEPT !.phase = "wedged"]
    BY <1>6 DEF SendTimesOut
  <2> QED BY <1>0, <2>1 DEF Shaped
<1>7. CASE TimerStopped
  <2> DEFINE w == [window EXCEPT !.period = 0, !.due = 0]
             gone == DestroyController(w)
  <2>1. \/ window' = [w EXCEPT !.phase = "running"]
        \/ window' = [gone EXCEPT !.phase = "quit"]
    BY <1>7 DEF TimerStopped
  <2>2. Shaped(w) /\ w.gate = window.gate /\ w.main_seen = window.main_seen
    BY <1>0 DEF Shaped
  <2> HIDE DEF w
  <2>3. Shaped(gone) /\ gone.gate = w.gate /\ gone.main_seen = w.main_seen
    BY <2>2 DEF Shaped, DestroyController
  <2> HIDE DEF gone
  <2> QED BY <2>1, <2>2, <2>3 DEF Shaped
<1>8. CASE LoopEnds
  BY <1>0, <1>8 DEF LoopEnds, Shaped
<1> QED BY <1>1, <1>2, <1>3, <1>4, <1>5, <1>6, <1>7, <1>8

\* The first engine finds a gate with no startup.
LEMMA CreationSpares ==
  ASSUME WindowInv, GateInv, OnCreate
  PROVE  GateInv' /\ SparesStartup
<1>1. PICK created \in Outcome, storm, timer \in BOOLEAN :
        LET built == CreateController(window, created)
            armed == [built EXCEPT !.phase = "running", !.sentinel = created,
                                   !.session.storm_detector = storm,
                                   !.dog = OnStarted(@).dog]
        IN window' =
             CASE created = "failed" -> [built EXCEPT !.phase = "failed_start"]
               [] created # "failed" /\ ~window.enabled ->
                    [built EXCEPT !.phase = "running"]
               [] created # "failed" /\ window.enabled /\ timer ->
                    StartWatchdogTimer(StartProbe(armed), ProbeInterval)
               [] OTHER -> DisableWatchdog(StartProbe(armed))
  BY DEF OnCreate
<1> DEFINE built == CreateController(window, created)
           s == [built.session EXCEPT !.storm_detector = storm]
           armed == [built EXCEPT !.phase = "running", !.sentinel = created,
                                  !.session = s, !.dog = OnStarted(@).dog]
           probed == StartProbe(armed)
<1>2. \/ window' = [built EXCEPT !.phase = "failed_start"]
      \/ window' = [built EXCEPT !.phase = "running"]
      \/ window' = StartWatchdogTimer(probed, ProbeInterval)
      \/ window' = DisableWatchdog(probed)
  <2>1. CASE created = "failed"
    BY <1>1, <2>1
  <2>2. CASE created # "failed" /\ ~window.enabled
    BY <1>1, <2>2
  <2>3. CASE created # "failed" /\ window.enabled /\ timer
    BY <1>1, <2>3
  <2>4. CASE created # "failed" /\ window.enabled /\ ~timer
    BY <1>1, <2>4
  <2> QED BY <2>1, <2>2, <2>3, <2>4
<1>3. window.phase = "starting" /\ ~StartupBlocking(window.gate)
  BY DEF OnCreate, GateInv, StartupBlocking
<1>4. Good(built)
  <2>1. Good(window) /\ window.engine = "none"
    BY <1>3 DEF WindowInv, Ended, GateInv, Good
  <2> QED BY <2>1, CreatesGood
<1> HIDE DEF built, s
<1>5. Good(armed) /\ armed.phase = "running"
  <2>1. Shaped(armed)
    BY <1>4 DEF Good, Sound, Shaped
  <2>2. /\ armed.phase = "running" /\ armed.engine = built.engine
        /\ armed.probe_armed = built.probe_armed
        /\ armed.callback = built.callback /\ armed.gate = built.gate
    BY <1>4 DEF Good, Sound, Shaped
  <2> HIDE DEF armed
  <2> QED BY <1>4, <2>1, <2>2 DEF Good, Sound
<1> HIDE DEF armed
<1>6. Carries(armed, probed) /\ Good(probed)
  BY <1>5, ProbesGood, GoodAfter
<1>7. probed.phase # "starting"
  BY <1>5, <1>6 DEF Carries, Handled
<1> HIDE DEF probed
<1>8. CASE \/ window' = StartWatchdogTimer(probed, ProbeInterval)
           \/ window' = DisableWatchdog(probed)
  <2>1. Carries(probed, window')
    BY <1>6, <1>8, TimedGood, DisarmsGood
  <2> QED BY <1>3, <1>7, <2>1 DEF Carries, Handled, GateInv, SparesStartup
<1>9. CASE \/ window' = [built EXCEPT !.phase = "failed_start"]
           \/ window' = [built EXCEPT !.phase = "running"]
  <2>1. window'.phase # "starting" /\ window'.gate = built.gate
    BY <1>4, <1>9 DEF Good, Sound, Shaped
  <2> QED BY <1>3, <1>4, <2>1 DEF Good, GateInv, SparesStartup
<1> QED BY <1>2, <1>8, <1>9

\* Every step spares a startup or moves nothing.
LEMMA StepSpares ==
  ASSUME WindowInv, GateInv, [Next]_vars
  PROVE  GateInv' /\ (SparesStartup \/ UNCHANGED vars)
<1>1. CASE UNCHANGED vars
  BY <1>1 DEF vars, GateInv
<1>2. CASE Next
  BY <1>2, CreationSpares, HandlersSpare, TimeSpares, OthersSpare
     DEF Next, PlatformStep
<1> QED BY <1>1, <1>2
-----------------------------------------------------------------------------
\* The gate of the first state is one.
LEMMA GateInit == Init => GateInv
<1> SUFFICES ASSUME NEW enabled \in BOOLEAN, NEW policy \in Policies,
                    window = NewWindow(enabled, policy)
             PROVE  GateInv
  BY DEF Init
<1>1. 0 \in 0 .. StartupTimeout /\ 0 \in 0 .. Debounce
  BY GateConstants
<1>2. NewGate \in Gate /\ NewGate.startup_in_flight = FALSE
  BY <1>1 DEF NewGate, Gate
<1>3. window.gate = NewGate
  BY DEF NewWindow
<1> QED BY <1>2, <1>3 DEF GateInv

\* A startup that is in flight and not timed out keeps its time and what Dart
\* reported of it, whichever of the watchdog, a session change, a power resume,
\* a posted message or a tick asks for a rebuild (EngineRebuildGate::Request):
\* for every setting of the parts and any number of events.
THEOREM StartupIsNotInterrupted == Spec => StartupNotInterrupted
<1>1. Init => GateInv
  BY GateInit
<1>2. WindowInv /\ GateInv /\ [Next]_vars =>
        GateInv' /\ (SparesStartup \/ UNCHANGED vars)
  BY StepSpares
<1>3. Spec => []GateInv
  BY <1>1, <1>2, WindowInvariant, PTL DEF Spec
<1>4. Spec => [][SparesStartup]_vars
  BY <1>2, <1>3, WindowInvariant, PTL DEF Spec
<1> QED BY <1>4 DEF StartupNotInterrupted, SparesStartup

-----------------------------------------------------------------------------
(***************************************************************************)
(* The backoff.  The prover does not induct over the numbers; a least      *)
(* counterexample does as well.                                            *)
(***************************************************************************)
LEMMA LeastNumber ==
  ASSUME NEW T, T \subseteq Nat, T # {}
  PROVE  \E x \in T : \A y \in T : ~(y < x)
<1> DEFINE R == {ss \in Nat \X Nat : ss[1] < ss[2]}
<1>1. IsWellFoundedOn(R, Nat)
  BY NatLessThanWellFounded DEF OpToRel
<1>2. \E x \in T : \A y \in T : <<y, x>> \notin R
  BY <1>1, WFMin
<1> QED BY <1>2

\* f holds the first k doublings.
Walk(f, k) ==
  /\ f \in [0 .. k -> Nat]
  /\ f[0] = ProbeInterval
  /\ \A n \in 1 .. k : f[n] = Longer(f[n - 1])

\* One doubling makes a number of a number, and no smaller one.
LEMMA LongerIsLonger ==
  ASSUME NEW b \in Nat
  PROVE  Longer(b) \in Nat /\ Longer(b) >= b
  BY WatchdogConstants DEF Longer

\* However many doublings are asked for.
LEMMA WalksExist == \A k \in Nat : \E f : Walk(f, k)
<1> SUFFICES ASSUME NEW j \in Nat, ~\E f : Walk(f, j)
             PROVE  FALSE
  OBVIOUS
<1> DEFINE T == {k \in Nat : ~\E f : Walk(f, k)}
<1>1. PICK x \in T : \A y \in T : ~(y < x)
  <2>1. T \subseteq Nat /\ T # {}
    OBVIOUS
  <2> HIDE DEF T
  <2> QED BY <2>1, LeastNumber
<1>2. x # 0
  <2> DEFINE f == [n \in 0 .. 0 |-> ProbeInterval]
  <2>1. Walk(f, 0)
    BY WatchdogConstants DEF Walk
  <2> QED BY <2>1
<1>3. x - 1 \in Nat /\ x - 1 < x /\ x - 1 \notin T
  BY <1>1, <1>2
<1>4. PICK f : Walk(f, x - 1)
  BY <1>3
<1> DEFINE g == [n \in 0 .. x |-> IF n = x THEN Longer(f[x - 1]) ELSE f[n]]
<1>5. f \in [0 .. x - 1 -> Nat] /\ f[x - 1] \in Nat
  BY <1>3, <1>4 DEF Walk
<1>6. g \in [0 .. x -> Nat]
  <2>1. Longer(f[x - 1]) \in Nat
    BY <1>5, LongerIsLonger
  <2>2. \A n \in 0 .. x : n # x => n \in 0 .. x - 1
    BY <1>3
  <2>3. \A n \in 0 .. x : n # x => f[n] \in Nat
    BY <1>5, <2>2
  <2> QED BY <2>1, <2>3
<1>7. g[0] = ProbeInterval
  BY <1>2, <1>3, <1>4 DEF Walk
<1>8. ASSUME NEW n \in 1 .. x
      PROVE  g[n] = Longer(g[n - 1])
  <2>1. CASE n = x
    BY <1>3, <2>1
  <2>2. CASE n # x
    <3>1. n \in 1 .. x - 1 /\ n \in 0 .. x /\ n - 1 \in 0 .. x /\ n - 1 # x
      BY <1>3, <2>2
    <3>2. g[n] = f[n] /\ g[n - 1] = f[n - 1]
      BY <2>2, <3>1
    <3> QED BY <1>4, <3>1, <3>2 DEF Walk
  <2> QED BY <2>1, <2>2
<1> HIDE DEF g
<1>9. Walk(g, x)
  BY <1>6, <1>7, <1>8 DEF Walk
<1> QED BY <1>9

\* What the first doublings are does not depend on how many are asked for.
LEMMA WalksAgree ==
  ASSUME NEW k \in Nat, NEW l \in Nat, NEW f, NEW g, Walk(f, k), Walk(g, l),
         NEW j \in Nat, j <= k, j <= l
  PROVE  f[j] = g[j]
<1> SUFFICES ASSUME f[j] # g[j]
             PROVE  FALSE
  OBVIOUS
<1> DEFINE T == {n \in Nat : n <= k /\ n <= l /\ f[n] # g[n]}
<1>1. PICK x \in T : \A y \in T : ~(y < x)
  <2>1. T \subseteq Nat /\ T # {}
    OBVIOUS
  <2> HIDE DEF T
  <2> QED BY <2>1, LeastNumber
<1>2. x # 0
  BY DEF Walk
<1>3. x \in Nat /\ x <= k /\ x <= l /\ f[x] # g[x]
  OBVIOUS
<1>4. x - 1 \in Nat /\ x - 1 < x /\ x - 1 <= k /\ x - 1 <= l
  BY <1>2, <1>3
<1>5. f[x - 1] = g[x - 1]
  BY <1>1, <1>4
<1>6. f[x] = Longer(f[x - 1]) /\ g[x] = Longer(g[x - 1])
  <2>1. x \in 1 .. k /\ x \in 1 .. l
    BY <1>2, <1>3
  <2> QED BY <2>1 DEF Walk
<1> QED BY <1>3, <1>5, <1>6

\* The recursive function is what its definition says.
LEMMA DoublingsAre ==
  Doublings = [n \in Nat |-> IF n = 0 THEN ProbeInterval
                             ELSE Longer(Doublings[n - 1])]
<1> DEFINE W(k) == CHOOSE f : Walk(f, k)
           F == [n \in Nat |-> W(n)[n]]
           D(h) == [n \in Nat |-> IF n = 0 THEN ProbeInterval
                                  ELSE Longer(h[n - 1])]
<1>1. \A k \in Nat : Walk(W(k), k)
  BY WalksExist
<1> HIDE DEF W
<1>2. ASSUME NEW n \in Nat
      PROVE  F[n] = IF n = 0 THEN ProbeInterval ELSE Longer(F[n - 1])
  <2>1. CASE n = 0
    BY <1>1, <2>1 DEF Walk
  <2>2. CASE n # 0
    <3>1. n - 1 \in Nat /\ n - 1 <= n /\ n \in 1 .. n
      BY <2>2
    <3>2. W(n)[n] = Longer(W(n)[n - 1])
      BY <1>1, <3>1 DEF Walk
    <3>3. W(n)[n - 1] = W(n - 1)[n - 1]
      BY <1>1, <3>1, WalksAgree
    <3>4. F[n] = W(n)[n] /\ F[n - 1] = W(n - 1)[n - 1]
      BY <3>1
    <3> QED BY <2>2, <3>2, <3>3, <3>4
  <2> QED BY <2>1, <2>2
<1>3. F = D(F)
  BY <1>2
<1> HIDE DEF F
<1>4. \E h : h = D(h)
  BY <1>3
<1> QED BY <1>4 DEF Doublings

\* A doubling is never shorter than the interval it starts from.
LEMMA DoublingsBounded ==
  ASSUME NEW j \in Nat
  PROVE  Doublings[j] \in Nat /\ Doublings[j] >= ProbeInterval
<1> SUFFICES ASSUME ~(Doublings[j] \in Nat /\ Doublings[j] >= ProbeInterval)
             PROVE  FALSE
  OBVIOUS
<1> DEFINE T == {n \in Nat :
                   ~(Doublings[n] \in Nat /\ Doublings[n] >= ProbeInterval)}
<1>1. PICK x \in T : \A y \in T : ~(y < x)
  <2>1. T \subseteq Nat /\ T # {}
    OBVIOUS
  <2> HIDE DEF T
  <2> QED BY <2>1, LeastNumber
<1>2. \A n \in Nat : Doublings[n] = IF n = 0 THEN ProbeInterval
                                    ELSE Longer(Doublings[n - 1])
  BY DoublingsAre
<1>3. x # 0
  BY <1>2, WatchdogConstants
<1>4. x - 1 \in Nat /\ x - 1 < x
  BY <1>3
<1>5. Doublings[x - 1] \in Nat /\ Doublings[x - 1] >= ProbeInterval
  BY <1>1, <1>4
<1>6. Doublings[x] = Longer(Doublings[x - 1])
  BY <1>2, <1>3
<1>7. Doublings[x] \in Nat /\ Doublings[x] >= ProbeInterval
  BY <1>5, <1>6, LongerIsLonger, WatchdogConstants
<1> QED BY <1>7

\* The period asked for after any number of restarts stays between the probe
\* interval and its maximum: the timer is never asked to stop, nor to wait
\* longer than the configuration says (GpuWatchdog::BackoffMs).
THEOREM BackoffInRange ==
  ASSUME NEW attempts \in Nat \ {0}
  PROVE  BackoffMs(attempts) \in ProbeInterval .. MaxProbeInterval
<1>1. attempts - 1 \in Nat
  OBVIOUS
<1>2. /\ Doublings[attempts - 1] \in Nat
      /\ Doublings[attempts - 1] >= ProbeInterval
  BY <1>1, DoublingsBounded
<1> QED BY <1>2, WatchdogConstants DEF BackoffMs

-----------------------------------------------------------------------------
(***************************************************************************)
(* The watchdog is a watchdog, and once disabled stays so.                 *)
(***************************************************************************)
Succeeds(d, e) == e \in Watchdog /\ (d.disabled => e.disabled)

\* The fields that say nothing of limits.
LEMMA FlagsFit ==
  ASSUME NEW d \in Watchdog, NEW x \in BOOLEAN
  PROVE  /\ Succeeds(d, d)
         /\ Succeeds(d, [d EXCEPT !.probe_outstanding = x])
         /\ Succeeds(d, [d EXCEPT !.hold_expired = x])
         /\ Succeeds(d, [d EXCEPT !.reported = x])
         /\ Succeeds(d, [d EXCEPT !.disabled = TRUE])
<1>1. Succeeds(d, d)
  BY DEF Succeeds
<1>2. Succeeds(d, [d EXCEPT !.probe_outstanding = x])
  BY DEF Succeeds, Watchdog
<1>3. Succeeds(d, [d EXCEPT !.hold_expired = x])
  BY DEF Succeeds, Watchdog
<1>4. Succeeds(d, [d EXCEPT !.reported = x])
  BY DEF Succeeds, Watchdog
<1>5. Succeeds(d, [d EXCEPT !.disabled = TRUE])
  BY DEF Succeeds, Watchdog
<1> QED BY <1>1, <1>2, <1>3, <1>4, <1>5

\* One after the other.
LEMMA SucceedsOn ==
  ASSUME NEW d, NEW e, NEW f, Succeeds(d, e), Succeeds(e, f)
  PROVE  Succeeds(d, f)
  BY DEF Succeeds

\* A hold and what ends it.
LEMMA HoldsFit ==
  ASSUME NEW d \in Watchdog, NEW judgeable
  PROVE  /\ Succeeds(d, NoHold(d))
         /\ Succeeds(d, SetJudgeable(d, judgeable))
         /\ Succeeds(d, ConsumeJudgementHoldExpired(d))
<1>1. 0 \in 0 .. HoldCap /\ HoldCap \in 0 .. HoldCap
  BY WatchdogConstants
<1> DEFINE free == [d EXCEPT !.holding = FALSE, !.hold_left = 0,
                             !.hold_expired = FALSE]
           held == [d EXCEPT !.holding = TRUE, !.hold_left = HoldCap,
                             !.hold_expired = FALSE]
<1>2. Succeeds(d, free)
  <2>1. free \in Watchdog
    BY <1>1 DEF Watchdog
  <2>2. free.disabled = d.disabled
    BY DEF Watchdog
  <2> QED BY <2>1, <2>2 DEF Succeeds
<1>3. Succeeds(d, held)
  <2>1. held \in Watchdog
    BY <1>1 DEF Watchdog
  <2>2. held.disabled = d.disabled
    BY DEF Watchdog
  <2> QED BY <2>1, <2>2 DEF Succeeds
<1> HIDE DEF free, held
<1>4. NoHold(d) = free
  BY DEF NoHold, free
<1>5. /\ SetJudgeable(d, judgeable) \in {free, d, held}
      /\ ConsumeJudgementHoldExpired(d) \in {free, d}
  BY <1>4 DEF SetJudgeable, ConsumeJudgementHoldExpired, held
<1> QED BY <1>2, <1>3, <1>4, <1>5, FlagsFit

\* An episode is counted up to one more than the limit.
LEMMA EpisodesFit ==
  ASSUME NEW d \in Watchdog
  PROVE  /\ Succeeds(d, CountEpisode(d))
         /\ CountEpisode(d).on_loss = d.on_loss
<1> DEFINE opened == [d EXCEPT !.window_left = LossWindow + 1, !.losses = 1]
           more == IF d.losses > MaxLosses THEN d.losses ELSE d.losses + 1
           again == [d EXCEPT !.losses = more]
           counted == IF d.window_left = 0 THEN opened ELSE again
           e == [counted EXCEPT !.reported = TRUE]
<1>1. /\ LossWindow + 1 \in 0 .. LossWindow + 1
      /\ 1 \in 0 .. MaxLosses + 1
      /\ more \in 0 .. MaxLosses + 1
  BY WatchdogConstants DEF Watchdog
<1>2. CountEpisode(d) = IF d.reported THEN d ELSE e
  BY DEF CountEpisode
<1> HIDE DEF more
<1>3. Succeeds(d, opened) /\ opened.on_loss = d.on_loss
  <2>1. opened \in Watchdog
    BY <1>1 DEF Watchdog
  <2>2. opened.disabled = d.disabled /\ opened.on_loss = d.on_loss
    BY DEF Watchdog
  <2> QED BY <2>1, <2>2 DEF Succeeds
<1>4. Succeeds(d, again) /\ again.on_loss = d.on_loss
  <2>1. again \in Watchdog
    BY <1>1 DEF Watchdog
  <2>2. again.disabled = d.disabled /\ again.on_loss = d.on_loss
    BY DEF Watchdog
  <2> QED BY <2>1, <2>2 DEF Succeeds
<1> HIDE DEF opened, again
<1>5. Succeeds(d, counted) /\ counted.on_loss = d.on_loss
  BY <1>3, <1>4
<1> HIDE DEF counted
<1>6. Succeeds(d, e) /\ e.on_loss = d.on_loss
  <2>1. counted \in Watchdog
    BY <1>5 DEF Succeeds
  <2>2. Succeeds(counted, e)
    BY <2>1, FlagsFit
  <2>3. e.on_loss = counted.on_loss
    BY <2>1 DEF Watchdog
  <2> QED BY <1>5, <2>2, <2>3, SucceedsOn
<1> HIDE DEF e
<1> QED BY <1>2, <1>6, FlagsFit

\* An answer of the watchdog: its new value, and what the host is to do.
Answers(d, r) == Succeeds(d, r.dog) /\ r.action \in Action

\* The actions the watchdog answers with are actions.
LEMMA ActionsFit ==
  ASSUME NEW n \in Nat
  PROVE  /\ Nothing \in Action /\ Probe \in Action
         /\ [Nothing EXCEPT !.exit = TRUE] \in Action
         /\ [Nothing EXCEPT !.period = n] \in Action
         /\ [Nothing EXCEPT !.restart = TRUE, !.period = n] \in Action
         /\ [Probe EXCEPT !.period = n] \in Action
<1>1. Nothing \in Action
  BY DEF Nothing, Action
<1>2. Probe \in Action
  BY DEF Nothing, Probe, Action
<1>3. [Nothing EXCEPT !.exit = TRUE] \in Action
  BY DEF Nothing, Action
<1>4. [Nothing EXCEPT !.period = n] \in Action
  BY DEF Nothing, Action
<1>5. [Nothing EXCEPT !.restart = TRUE, !.period = n] \in Action
  BY DEF Nothing, Action
<1>6. [Probe EXCEPT !.period = n] \in Action
  BY DEF Nothing, Probe, Action
<1> QED BY <1>1, <1>2, <1>3, <1>4, <1>5, <1>6

\* The restarts of an episode are counted up to their limit, because the one
\* that would pass it ends the process instead.
LEMMA LossesFit ==
  ASSUME NEW d \in Watchdog
  PROVE  Answers(d, DeclareLoss(d))
<1> DEFINE e == CountEpisode(d)
           gone == [e EXCEPT !.disabled = TRUE]
           logged == [e EXCEPT !.probe_outstanding = TRUE]
           tried == [e EXCEPT !.attempts = e.attempts + 1, !.missed = 0,
                              !.probe_outstanding = TRUE]
           exits == [Nothing EXCEPT !.exit = TRUE]
           restarts == [Nothing EXCEPT !.restart = TRUE,
                                       !.period = BackoffMs(e.attempts + 1)]
<1>1. DeclareLoss(d) =
        CASE e.on_loss = "exit" \/ (e.on_loss = "restart" /\ Escalates(e)) ->
               [dog |-> gone, action |-> exits]
          [] e.on_loss = "log" -> [dog |-> logged, action |-> Probe]
          [] OTHER -> [dog |-> tried, action |-> restarts]
  BY DEF DeclareLoss
<1>2. e \in Watchdog /\ Succeeds(d, e)
  BY EpisodesFit DEF Succeeds
<1> HIDE DEF e
<1>3. e.on_loss \in {"restart", "exit", "log"} /\ e.attempts \in Nat
  BY <1>2, WatchdogConstants DEF Watchdog, LossPolicy
<1>4. BackoffMs(e.attempts + 1) \in Nat
  BY <1>3, BackoffInRange, WatchdogConstants
<1>5. exits \in Action /\ restarts \in Action /\ Probe \in Action
  BY <1>4, ActionsFit
<1> HIDE DEF exits, restarts
<1>6. Succeeds(d, gone) /\ Succeeds(d, logged)
  BY <1>2, FlagsFit, SucceedsOn
<1> HIDE DEF gone, logged
<1>7. CASE e.on_loss = "exit" \/ (e.on_loss = "restart" /\ Escalates(e))
  BY <1>1, <1>5, <1>6, <1>7 DEF Answers
<1>8. CASE e.on_loss = "log"
  <2>1. DeclareLoss(d) = [dog |-> logged, action |-> Probe]
    BY <1>1, <1>8
  <2> QED BY <1>5, <1>6, <2>1 DEF Answers
<1>9. CASE e.on_loss = "restart" /\ ~Escalates(e)
  <2>1. DeclareLoss(d) = [dog |-> tried, action |-> restarts]
    BY <1>1, <1>9
  <2>2. e.attempts + 1 \in 0 .. MaxAttempts /\ 0 \in 0 .. MissedProbes
    BY <1>2, <1>9, WatchdogConstants DEF Escalates, Watchdog
  <2>3. tried \in Watchdog
    BY <1>2, <2>2 DEF Watchdog
  <2>4. tried.disabled = e.disabled
    BY <1>2 DEF Watchdog
  <2> HIDE DEF tried
  <2>5. Succeeds(d, tried)
    BY <1>2, <2>3, <2>4 DEF Succeeds
  <2> QED BY <1>5, <2>1, <2>5 DEF Answers
<1> QED BY <1>3, <1>7, <1>8, <1>9

\* A tick judges, or is held and judges nothing.
LEMMA TicksFit ==
  ASSUME NEW d \in Watchdog
  PROVE  Answers(d, OnTick(d))
<1> DEFINE heard == d.hold_expired \/ d.holding
           asked == [d EXCEPT !.hold_expired = heard]
           missed == IF d.missed < MissedProbes THEN d.missed + 1 ELSE d.missed
           judged == [asked EXCEPT !.missed = missed]
           counted == IF d.probe_outstanding THEN missed ELSE asked.missed
           waits == [asked EXCEPT !.missed = counted,
                                  !.probe_outstanding = TRUE]
           held == [d EXCEPT !.probe_outstanding = TRUE]
<1>1. \/ OnTick(d) = [dog |-> held, action |-> Probe]
      \/ OnTick(d) = DeclareLoss(judged)
      \/ OnTick(d) = [dog |-> waits, action |-> Probe]
  BY DEF OnTick
<1>2. missed \in 0 .. MissedProbes
  BY WatchdogConstants DEF Watchdog
<1> HIDE DEF missed
<1>3. heard \in BOOLEAN
  BY DEF Watchdog
<1> HIDE DEF heard
<1>4. Succeeds(d, asked)
  BY <1>3, FlagsFit
<1> HIDE DEF asked
<1>5. asked \in Watchdog /\ Succeeds(asked, judged)
  <2>1. asked \in Watchdog
    BY <1>4 DEF Succeeds
  <2>2. judged \in Watchdog
    BY <1>2, <2>1 DEF Watchdog
  <2>3. judged.disabled = asked.disabled
    BY <2>1 DEF Watchdog
  <2> QED BY <2>1, <2>2, <2>3 DEF Succeeds
<1>6. Succeeds(asked, waits)
  <2>1. counted \in 0 .. MissedProbes
    BY <1>2, <1>5 DEF Watchdog
  <2> HIDE DEF counted
  <2>2. waits \in Watchdog
    BY <1>5, <2>1 DEF Watchdog
  <2>3. waits.disabled = asked.disabled
    BY <1>5 DEF Watchdog
  <2> QED BY <2>2, <2>3 DEF Succeeds
<1> HIDE DEF judged, waits
<1>7. Succeeds(d, judged) /\ Succeeds(d, waits)
  BY <1>4, <1>5, <1>6, SucceedsOn
<1>8. Answers(judged, DeclareLoss(judged))
  <2>1. judged \in Watchdog
    BY <1>7 DEF Succeeds
  <2> QED BY <2>1, LossesFit
<1>9. Answers(d, DeclareLoss(judged))
  BY <1>7, <1>8, SucceedsOn DEF Answers
<1>10. Succeeds(d, held) /\ Probe \in Action
  BY FlagsFit, ActionsFit
<1> HIDE DEF held
<1>11. /\ Answers(d, [dog |-> held, action |-> Probe])
       /\ Answers(d, [dog |-> waits, action |-> Probe])
  BY <1>7, <1>10 DEF Answers
<1> QED BY <1>1, <1>9, <1>11

\* A frame, a hint, a report, the start.
LEMMA ReadingsFit ==
  ASSUME NEW d \in Watchdog
  PROVE  /\ Answers(d, WatchdogFrame(d))
         /\ Answers(d, OnDeviceLossHint(d))
         /\ Answers(d, OnRendererLost(d))
         /\ Answers(d, OnStarted(d))
<1> DEFINE free == NoHold(d)
           seen == [free EXCEPT !.probe_outstanding = FALSE, !.missed = 0,
                                !.reported = FALSE, !.attempts = 0]
           asked == [d EXCEPT !.probe_outstanding = TRUE]
           paced == [Nothing EXCEPT !.period = ProbeInterval]
           begins == [Probe EXCEPT !.period = ProbeInterval]
<1>1. /\ WatchdogFrame(d) =
           [dog |-> seen, action |-> IF d.attempts > 0 THEN paced ELSE Nothing]
      /\ OnDeviceLossHint(d) = [dog |-> asked, action |-> Probe]
      /\ OnStarted(d) = [dog |-> asked, action |-> begins]
      /\ OnRendererLost(d) = DeclareLoss(d)
  BY DEF WatchdogFrame, OnDeviceLossHint, OnStarted, OnRendererLost
<1>2. /\ paced \in Action /\ Nothing \in Action /\ Probe \in Action
      /\ begins \in Action
  BY ActionsFit, WatchdogConstants
<1> HIDE DEF paced, begins
<1>3. Succeeds(d, asked)
  BY FlagsFit
<1> HIDE DEF asked
<1>4. free \in Watchdog /\ Succeeds(d, free)
  BY HoldsFit DEF Succeeds
<1> HIDE DEF free
<1>5. Succeeds(free, seen)
  <2>1. 0 \in 0 .. MissedProbes /\ 0 \in 0 .. MaxAttempts
    BY WatchdogConstants
  <2>2. seen \in Watchdog
    BY <1>4, <2>1 DEF Watchdog
  <2>3. seen.disabled = free.disabled
    BY <1>4 DEF Watchdog
  <2> QED BY <2>2, <2>3 DEF Succeeds
<1> HIDE DEF seen
<1>6. Succeeds(d, seen)
  BY <1>4, <1>5, SucceedsOn
<1>7. Answers(d, WatchdogFrame(d))
  BY <1>1, <1>2, <1>6 DEF Answers
<1>8. Answers(d, OnDeviceLossHint(d)) /\ Answers(d, OnStarted(d))
  BY <1>1, <1>2, <1>3 DEF Answers
<1>9. Answers(d, OnRendererLost(d))
  BY <1>1, LossesFit
<1> QED BY <1>7, <1>8, <1>9

\* Giving up, and growing older.
LEMMA LimitsFit ==
  ASSUME NEW d \in Watchdog
  PROVE  /\ Succeeds(d, Disable(d)) /\ Disable(d).disabled
         /\ Succeeds(d, AgeWatchdog(d))
<1> DEFINE off == [d EXCEPT !.disabled = TRUE, !.probe_outstanding = FALSE]
           less == IF d.window_left > 0 THEN d.window_left - 1 ELSE 0
           sooner == IF d.hold_left > 0 THEN d.hold_left - 1 ELSE 0
           older == [d EXCEPT !.window_left = less, !.hold_left = sooner]
<1>1. Disable(d) = off /\ AgeWatchdog(d) = older
  BY DEF Disable, AgeWatchdog
<1>2. off \in Watchdog /\ off.disabled = TRUE
  BY DEF Watchdog
<1>3. less \in 0 .. LossWindow + 1 /\ sooner \in 0 .. HoldCap
  BY WatchdogConstants DEF Watchdog
<1> HIDE DEF less, sooner
<1>4. older \in Watchdog
  BY <1>3 DEF Watchdog
<1>5. older.disabled = d.disabled
  BY DEF Watchdog
<1> HIDE DEF off, older
<1> QED BY <1>1, <1>2, <1>4, <1>5 DEF Succeeds
-----------------------------------------------------------------------------
(***************************************************************************)
(* The other parts.                                                        *)
(***************************************************************************)
\* The gate, whoever asks it.
LEMMA GatesFit ==
  ASSUME NEW g \in Gate
  PROVE  /\ GateEngineCreated(g) \in Gate /\ GateStartupComplete(g) \in Gate
         /\ GateRequest(g).gate \in Gate /\ GatePoll(g).gate \in Gate
         /\ AgeGate(g) \in Gate
<1>1. /\ 0 \in 0 .. StartupTimeout /\ StartupTimeout \in 0 .. StartupTimeout
      /\ Debounce \in 0 .. Debounce
      /\ Less(g.startup_left) \in 0 .. StartupTimeout
      /\ Less(g.debounce_left) \in 0 .. Debounce
  BY GateConstants DEF Gate, Less
<1>2. GateEngineCreated(g) \in Gate
  BY <1>1 DEF GateEngineCreated, Gate
<1>3. GateStartupComplete(g) \in Gate
  BY <1>1 DEF GateStartupComplete, Gate
<1>4. Release(g) \in Gate
  BY <1>1 DEF Release, Gate
<1>5. [g EXCEPT !.queued = TRUE] \in Gate
  BY DEF Gate
<1>6. AgeGate(g) \in Gate
  BY <1>1 DEF AgeGate, Gate
<1>7. GateRequest(g).gate \in {g, [g EXCEPT !.queued = TRUE], Release(g)}
  BY DEF GateRequest
<1>8. GatePoll(g).gate \in {g, Release(g)}
  BY DEF GatePoll
<1> QED BY <1>2, <1>3, <1>4, <1>5, <1>6, <1>7, <1>8

\* The session, whatever is connected to it.
LEMMA SessionsFit ==
  ASSUME NEW p \in SessionState
  PROVE  /\ SessionEngineCreated(p) \in SessionState
         /\ OnRemoteDisconnect(p) \in SessionState
         /\ SessionFrame(p) \in SessionState
         /\ SessionTick(p) \in SessionState
         /\ AgeSession(p) \in SessionState
         /\ \A adapter : OnRemoteConnect(p, adapter).policy \in SessionState
         /\ \A storm \in BOOLEAN :
              [p EXCEPT !.storm_detector = storm] \in SessionState
<1> DEFINE less == IF p.probation_left > 0 THEN p.probation_left - 1 ELSE 0
           proved == [p EXCEPT !.probation = TRUE,
                               !.probation_left = Probation]
<1>1. /\ 0 \in 0 .. Probation /\ Probation \in 0 .. Probation
      /\ less \in 0 .. Probation
  BY SessionConstants DEF SessionState
<1>2. AgeSession(p) = [p EXCEPT !.probation_left = less]
  BY DEF AgeSession
<1> HIDE DEF less
<1>3. AgeSession(p) \in SessionState
  BY <1>1, <1>2 DEF SessionState
<1>4. Answered(p) \in SessionState
  BY <1>1 DEF Answered, SessionState
<1>5. proved \in SessionState
  BY <1>1 DEF SessionState
<1>6. \A adapter : OnRemoteConnect(p, adapter).policy \in SessionState
  BY <1>4, <1>5 DEF OnRemoteConnect
<1>7. \A storm \in BOOLEAN : [p EXCEPT !.storm_detector = storm] \in SessionState
  BY DEF SessionState
<1> QED BY <1>3, <1>4, <1>6, <1>7
        DEF SessionEngineCreated, OnRemoteDisconnect, SessionFrame, SessionTick

\* The record of Dart's liveness.
LEMMA WatchesFit ==
  ASSUME NEW l \in Watch
  PROVE  /\ EpochStarted \in Watch /\ AgeWatch(l) \in Watch
         /\ \A ours, probed, ok : OnStamp(l, ours, probed, ok) \in Watch
<1>1. 0 \in 0 .. RasterFailures
  BY LivenessConstants
<1>2. EpochStarted \in Watch
  BY <1>1 DEF EpochStarted, Watch
<1>3. AgeWatch(l) \in Watch
  BY DEF AgeWatch, Watch
<1>4. ASSUME NEW ours, NEW probed, NEW ok
      PROVE  OnStamp(l, ours, probed, ok) \in Watch
  <2> DEFINE n == IF l.raster_failures < RasterFailures
                  THEN l.raster_failures + 1 ELSE RasterFailures
             lost == l.raster_lost \/ n >= RasterFailures
             heard == [l EXCEPT !.stamped = TRUE]
             well == [heard EXCEPT !.raster_failures = 0,
                                   !.raster_lost = FALSE]
             badly == [heard EXCEPT !.raster_failures = n,
                                    !.raster_lost = heard.raster_lost
                                                    \/ n >= RasterFailures]
  <2>1. OnStamp(l, ours, probed, ok) \in {heard, well, badly}
    BY DEF OnStamp
  <2>2. n \in 0 .. RasterFailures
    BY LivenessConstants DEF Watch
  <2> HIDE DEF n
  <2>3. heard \in Watch
    BY DEF Watch
  <2> HIDE DEF heard
  <2>4. well \in Watch
    BY <1>1, <2>3 DEF Watch
  <2> DEFINE worse == heard.raster_lost \/ n >= RasterFailures
  <2>5. worse \in BOOLEAN
    OBVIOUS
  <2>6. badly = [heard EXCEPT !.raster_failures = n, !.raster_lost = worse]
    OBVIOUS
  <2> HIDE DEF worse, badly
  <2>7. badly \in Watch
    BY <2>2, <2>3, <2>5, <2>6 DEF Watch
  <2> QED BY <2>1, <2>3, <2>4, <2>7
<1> QED BY <1>2, <1>3, <1>4

-----------------------------------------------------------------------------
(***************************************************************************)
(* The window is a window, and watches as long as it does not say that it  *)
(* has stopped.                                                            *)
(***************************************************************************)
\* What a handler leaves of the watch: no handler takes the timer away, and
\* the one that stops it for good disables the watchdog first.
Watches(w, v) ==
  /\ v \in Window
  /\ v.enabled = w.enabled
  /\ w.dog.disabled => v.dog.disabled
  /\ w.period > 0 => v.period > 0
  /\ v.phase = "stop_disarm" => v.dog.disabled \/ w.phase = "stop_disarm"

\* One after the other.
LEMMA WatchesOn ==
  ASSUME NEW w, NEW v, NEW u, Watches(w, v), Watches(v, u)
  PROVE  Watches(w, u)
  BY DEF Watches

\* What the watch does not depend on.
SameWatch(w, v) ==
  /\ v \in Window
  /\ v.enabled = w.enabled /\ v.dog = w.dog /\ v.period = w.period
  /\ v.phase = w.phase

\* A window whose watch is the same is one the watch goes on in.
LEMMA SameWatches ==
  ASSUME NEW w, NEW v, SameWatch(w, v)
  PROVE  Watches(w, v)
  BY DEF SameWatch, Watches

\* What the window knows of its sentinel.
Sentinels == {"unavailable", "watched", "removed"}

\* The parts the watch does not depend on, one at a time.
LEMMA PartsFit ==
  ASSUME NEW w \in Window
  PROVE  /\ Watches(w, w)
         /\ \A x \in Gate : Watches(w, [w EXCEPT !.gate = x])
         /\ \A x \in SessionState : Watches(w, [w EXCEPT !.session = x])
         /\ \A x \in Watch : Watches(w, [w EXCEPT !.live = x])
         /\ \A x \in BOOLEAN : Watches(w, [w EXCEPT !.main_seen = x])
         /\ \A x \in Sentinels : Watches(w, [w EXCEPT !.sentinel = x])
         /\ \A x \in Nat : Watches(w, [w EXCEPT !.due = x])
<1>1. Watches(w, w)
  BY DEF Watches
<1>2. ASSUME NEW x \in Gate
      PROVE  Watches(w, [w EXCEPT !.gate = x])
  BY SameWatches DEF SameWatch, Window
<1>3. ASSUME NEW x \in SessionState
      PROVE  Watches(w, [w EXCEPT !.session = x])
  BY SameWatches DEF SameWatch, Window
<1>4. ASSUME NEW x \in Watch
      PROVE  Watches(w, [w EXCEPT !.live = x])
  BY SameWatches DEF SameWatch, Window
<1>5. ASSUME NEW x \in BOOLEAN
      PROVE  Watches(w, [w EXCEPT !.main_seen = x])
  BY SameWatches DEF SameWatch, Window
<1>6. ASSUME NEW x \in Sentinels
      PROVE  Watches(w, [w EXCEPT !.sentinel = x])
  BY SameWatches DEF SameWatch, Window, Sentinels
<1>7. ASSUME NEW x \in Nat
      PROVE  Watches(w, [w EXCEPT !.due = x])
  BY SameWatches DEF SameWatch, Window
<1> QED BY <1>1, <1>2, <1>3, <1>4, <1>5, <1>6, <1>7

\* The watchdog and its timer.
LEMMA WatchFits ==
  ASSUME NEW w \in Window
  PROVE  /\ \A x : Succeeds(w.dog, x) => Watches(w, [w EXCEPT !.dog = x])
         /\ \A n \in Nat \ {0} :
              Watches(w, [w EXCEPT !.period = n, !.due = n])
         /\ Watches(w, [w EXCEPT !.phase = "stop_exit"])
<1>1. ASSUME NEW x, Succeeds(w.dog, x)
      PROVE  Watches(w, [w EXCEPT !.dog = x])
  <2> DEFINE v == [w EXCEPT !.dog = x]
  <2>1. x \in Watchdog /\ (w.dog.disabled => x.disabled)
    BY <1>1 DEF Succeeds
  <2>2. v \in Window
    BY <2>1 DEF Window
  <2>3. /\ v.enabled = w.enabled /\ v.dog = x /\ v.period = w.period
        /\ v.phase = w.phase
    BY DEF Window
  <2> HIDE DEF v
  <2>4. Watches(w, v)
    BY <2>1, <2>2, <2>3 DEF Watches
  <2> QED BY <2>4 DEF v
<1>2. ASSUME NEW n \in Nat \ {0}
      PROVE  Watches(w, [w EXCEPT !.period = n, !.due = n])
  <2> DEFINE v == [w EXCEPT !.period = n, !.due = n]
  <2>1. v \in Window
    BY DEF Window
  <2>2. /\ v.enabled = w.enabled /\ v.dog = w.dog /\ v.period = n
        /\ v.phase = w.phase
    BY DEF Window
  <2>3. n > 0
    OBVIOUS
  <2> HIDE DEF v
  <2>4. Watches(w, v)
    BY <2>1, <2>2, <2>3 DEF Watches
  <2> QED BY <2>4 DEF v
<1>3. Watches(w, [w EXCEPT !.phase = "stop_exit"])
  <2> DEFINE v == [w EXCEPT !.phase = "stop_exit"]
  <2>1. v \in Window
    BY DEF Window, Phase, Stopping
  <2>2. /\ v.enabled = w.enabled /\ v.dog = w.dog /\ v.period = w.period
        /\ v.phase = "stop_exit"
    BY DEF Window
  <2> HIDE DEF v
  <2>4. Watches(w, v)
    BY <2>1, <2>2 DEF Watches
  <2> QED BY <2>4 DEF v
<1> QED BY <1>1, <1>2, <1>3

\* What the slot of the engine may hold.
Slots == {"none", "armed", "posted", "overwritten"}

\* The engine.
LEMMA EngineWatches ==
  ASSUME NEW w \in Window, NEW engine \in {"none", "live"}
  PROVE  Watches(w, [w EXCEPT !.engine = engine])
BY SameWatches DEF SameWatch, Window

\* The slot of the engine.
LEMMA SlotWatches ==
  ASSUME NEW w \in Window, NEW armed \in BOOLEAN,
         NEW callback \in Slots
  PROVE  Watches(w, [w EXCEPT !.probe_armed = armed, !.callback = callback])
<1> DEFINE v == [w EXCEPT !.probe_armed = armed, !.callback = callback]
<1>1. v \in Window
  BY DEF Window, Slots
<1>2. /\ v.enabled = w.enabled /\ v.dog = w.dog /\ v.period = w.period
      /\ v.phase = w.phase
  BY DEF Window, Slots
<1> HIDE DEF v
<1>3. Watches(w, v)
  BY <1>1, <1>2, SameWatches DEF SameWatch
<1> QED BY <1>3 DEF v

\* The engine with its slot.
LEMMA EngineFits ==
  ASSUME NEW w \in Window,
         NEW engine \in {"none", "live"}, NEW armed \in BOOLEAN,
         NEW callback \in Slots
  PROVE  Watches(w, [w EXCEPT !.engine = engine, !.probe_armed = armed,
                              !.callback = callback])
<1> DEFINE v == [w EXCEPT !.engine = engine, !.probe_armed = armed,
                          !.callback = callback]
<1>1. v \in Window
  BY DEF Window, Slots
<1>2. /\ v.enabled = w.enabled /\ v.dog = w.dog /\ v.period = w.period
      /\ v.phase = w.phase
  BY DEF Window, Slots
<1> HIDE DEF v
<1>3. Watches(w, v)
  BY <1>1, <1>2, SameWatches DEF SameWatch
<1> QED BY <1>3 DEF v

\* So is one whose watchdog was told what it may judge.
LEMMA JudgedWatches ==
  ASSUME NEW w \in Window
  PROVE  Watches(w, UpdateWatchdogJudgeable(w))
<1>1. w.dog \in Watchdog
  BY DEF Window
<1> DEFINE dog == SetJudgeable(w.dog, w.main_seen /\ ~w.gate.queued)
<1>2. Succeeds(w.dog, dog)
  BY <1>1, HoldsFit
<1>3. UpdateWatchdogJudgeable(w) = [w EXCEPT !.dog = dog]
  BY Zenon DEF UpdateWatchdogJudgeable
<1> HIDE DEF dog
<1>4. Watches(w, [w EXCEPT !.dog = dog])
  BY <1>2, WatchFits, Zenon
<1> QED BY <1>3, <1>4, Zenon

\* So is one that has asked the engine for a frame.
LEMMA ProbesWatch ==
  ASSUME NEW w \in Window
  PROVE  Watches(w, StartProbe(w))
<1> DEFINE slot == SetNextFrameCallback(w.callback)
<1>1. slot \in Slots
  BY DEF SetNextFrameCallback, Slots
<1>2. \/ StartProbe(w) = w
      \/ StartProbe(w) = [w EXCEPT !.probe_armed = TRUE, !.callback = slot]
  BY DEF StartProbe
<1> HIDE DEF slot
<1>3. Watches(w, w)
  BY PartsFit, Zenon
<1>4. Watches(w, [w EXCEPT !.probe_armed = TRUE, !.callback = slot])
  BY <1>1, SlotWatches, Zenon
<1> QED BY <1>2, <1>3, <1>4, Zenon

\* So is one whose engine was destroyed.
LEMMA DestroysWatch ==
  ASSUME NEW w \in Window
  PROVE  Watches(w, DestroyController(w))
<1>1. DestroyController(w) = [w EXCEPT !.engine = "none",
                                       !.probe_armed = FALSE,
                                       !.callback = "none"]
  BY Zenon DEF DestroyController
<1>2. "none" \in {"none", "live"} /\ "none" \in Slots
  BY DEF Slots
<1>3. Watches(w, [w EXCEPT !.engine = "none", !.probe_armed = FALSE,
                           !.callback = "none"])
  BY <1>2, EngineFits, Zenon
<1> QED BY <1>1, <1>3, Zenon

\* An engine is there exactly if it could be created.
LEMMA CreatesWatch ==
  ASSUME NEW w \in Window, NEW created
  PROVE  /\ Watches(w, CreateController(w, created))
         /\ CreateController(w, created).phase = w.phase
         /\ CreateController(w, created).dog.disabled = w.dog.disabled
         /\ created = "failed" => CreateController(w, created).engine = "none"
<1> DEFINE g == GateEngineCreated(w.gate)
           a == [w EXCEPT !.gate = g]
           b == [a EXCEPT !.main_seen = FALSE]
           c == UpdateWatchdogJudgeable(b)
           d == [c EXCEPT !.live = EpochStarted]
           failed == [d EXCEPT !.engine = "none"]
           slot == SetNextFrameCallback("none")
           s == SessionEngineCreated(d.session)
           up == [d EXCEPT !.engine = "live", !.probe_armed = TRUE,
                           !.callback = slot]
           lives == [up EXCEPT !.session = s]
<1>1. /\ created = "failed" => CreateController(w, created) = failed
      /\ created # "failed" => CreateController(w, created) = lives
  <2>1. b = [w EXCEPT !.gate = GateEngineCreated(@), !.main_seen = FALSE]
    BY DEF Window
  <2> HIDE DEF b
  <2>2. lives = [d EXCEPT !.engine = "live", !.probe_armed = TRUE,
                          !.callback = SetNextFrameCallback("none"),
                          !.session = SessionEngineCreated(@)]
    BY DEF UpdateWatchdogJudgeable
  <2> HIDE DEF lives
  <2> QED BY <2>1, <2>2 DEF CreateController
<1>2. Watches(w, a) /\ a.phase = w.phase /\ a.dog = w.dog
  <2>1. g \in Gate
    BY GatesFit DEF Window
  <2> HIDE DEF g
  <2>2. Watches(w, a)
    BY <2>1, PartsFit
  <2>3. a.phase = w.phase /\ a.dog = w.dog
    BY DEF Window
  <2> QED BY <2>2, <2>3
<1> HIDE DEF a
<1>3. Watches(w, b) /\ b.phase = w.phase /\ b.dog = w.dog
  <2>1. a \in Window
    BY <1>2 DEF Watches
  <2>2. b.phase = a.phase /\ b.dog = a.dog
    BY <2>1 DEF Window
  <2>3. Watches(a, b)
    BY <2>1, PartsFit
  <2> QED BY <1>2, <2>2, <2>3, WatchesOn
<1> HIDE DEF b
<1>4. Watches(w, c) /\ c.phase = w.phase /\ c.dog.disabled = w.dog.disabled
  <2>1. b \in Window /\ b.dog \in Watchdog
    BY <1>3 DEF Watches, Window
  <2>2. Watches(b, c)
    BY <2>1, JudgedWatches
  <2>3. c.phase = b.phase
        /\ c.dog = SetJudgeable(b.dog, b.main_seen /\ ~b.gate.queued)
    BY <2>1 DEF Window, UpdateWatchdogJudgeable
  <2>4. \A j : SetJudgeable(b.dog, j).disabled = b.dog.disabled
    BY <2>1 DEF SetJudgeable, NoHold, Watchdog
  <2> QED BY <1>3, <2>2, <2>3, <2>4, WatchesOn
<1> HIDE DEF c
<1>5. Watches(w, d) /\ d.phase = w.phase /\ d.dog.disabled = w.dog.disabled
  <2>1. c \in Window /\ EpochStarted \in Watch
    BY <1>4, WatchesFit DEF Watches, Window
  <2>2. d.phase = c.phase /\ d.dog = c.dog
    BY <2>1 DEF Window
  <2>3. Watches(c, d)
    BY <2>1, PartsFit
  <2> QED BY <1>4, <2>2, <2>3, WatchesOn
<1> HIDE DEF d
<1>6. d \in Window
  BY <1>5 DEF Watches
<1>7. CASE created = "failed"
  <2>1. Watches(d, failed)
    BY <1>6, EngineWatches
  <2>2. failed.phase = d.phase /\ failed.dog = d.dog /\ failed.engine = "none"
    BY <1>6 DEF Window
  <2> HIDE DEF failed
  <2> QED BY <1>1, <1>5, <1>7, <2>1, <2>2, WatchesOn
<1>8. CASE created # "failed"
  <2>1. slot \in Slots /\ s \in SessionState
    BY <1>6, SessionsFit DEF SetNextFrameCallback, Window, Slots
  <2> HIDE DEF slot, s
  <2>2. Watches(d, up)
    BY <1>6, <2>1, EngineFits
  <2>3. up.phase = d.phase /\ up.dog = d.dog
    BY <1>6 DEF Window
  <2> HIDE DEF up
  <2>4. up \in Window
    BY <2>2 DEF Watches
  <2>5. Watches(up, lives)
    BY <2>1, <2>4, PartsFit
  <2>6. lives.phase = up.phase /\ lives.dog = up.dog
    BY <2>4 DEF Window
  <2> HIDE DEF lives
  <2>7. Watches(w, lives)
    BY <1>5, <2>2, <2>5, WatchesOn
  <2> QED BY <1>1, <1>5, <1>8, <2>3, <2>6, <2>7
<1> QED BY <1>7, <1>8

\* The sentinel is one that could be had.
LEMMA RebuildsWatch ==
  ASSUME NEW w \in Window, NEW created \in Outcome
  PROVE  Watches(w, PerformEngineRebuild(w, created))
<1> DEFINE gone == DestroyController(w)
           built == CreateController(gone, created)
           v == IF built.engine = "none" THEN built
                ELSE [built EXCEPT !.sentinel = created]
<1>1. \/ PerformEngineRebuild(w, created) = w
      \/ PerformEngineRebuild(w, created) = UpdateWatchdogJudgeable(v)
  BY DEF PerformEngineRebuild
<1>2. Watches(w, gone) /\ gone \in Window
  BY DestroysWatch DEF Watches
<1> HIDE DEF gone
<1>3. /\ Watches(gone, built) /\ built \in Window
      /\ created = "failed" => built.engine = "none"
  BY <1>2, CreatesWatch DEF Watches
<1> HIDE DEF built
<1>4. Watches(built, v)
  <2>1. created # "failed" => created \in Sentinels
    BY DEF Outcome, Sentinels
  <2>2. /\ Watches(built, built)
        /\ \A x \in Sentinels : Watches(built, [built EXCEPT !.sentinel = x])
    BY <1>3, PartsFit, Zenon
  <2>3. CASE built.engine = "none"
    BY <2>2, <2>3, Zenon
  <2>4. CASE built.engine # "none"
    BY <1>3, <2>1, <2>2, <2>4, Zenon
  <2> QED BY <2>3, <2>4, Zenon
<1> HIDE DEF v
<1>5. Watches(w, v) /\ v \in Window
  BY <1>2, <1>3, <1>4, WatchesOn DEF Watches
<1>6. Watches(w, UpdateWatchdogJudgeable(v))
  BY <1>5, JudgedWatches, WatchesOn
<1> QED BY <1>1, <1>6, PartsFit

\* FlutterWindow::RequestEngineRebuild.
LEMMA RequestsWatch ==
  ASSUME NEW w \in Window, NEW created \in Outcome
  PROVE  Watches(w, RequestEngineRebuild(w, created))
<1> DEFINE d == GateRequest(w.gate)
           g == d.gate
           asked == [w EXCEPT !.gate = g]
<1>1. \/ RequestEngineRebuild(w, created) = w
      \/ RequestEngineRebuild(w, created) = PerformEngineRebuild(asked, created)
      \/ RequestEngineRebuild(w, created) = UpdateWatchdogJudgeable(asked)
  BY DEF RequestEngineRebuild
<1>2. g \in Gate
  BY GatesFit DEF Window
<1> HIDE DEF g
<1>3. Watches(w, asked) /\ asked \in Window
  BY <1>2, PartsFit DEF Watches
<1> HIDE DEF asked
<1>4. /\ Watches(asked, PerformEngineRebuild(asked, created))
      /\ Watches(asked, UpdateWatchdogJudgeable(asked))
  BY <1>3, RebuildsWatch, JudgedWatches
<1> QED BY <1>1, <1>3, <1>4, PartsFit, WatchesOn

\* A period is never set to none.
LEMMA TimerWatches ==
  ASSUME NEW w \in Window, NEW period \in Nat
  PROVE  /\ Watches(w, SetWatchdogPeriod(w, period))
         /\ period # 0 => /\ Watches(w, StartWatchdogTimer(w, period))
                          /\ StartWatchdogTimer(w, period).period > 0
                          /\ StartWatchdogTimer(w, period).phase = w.phase
<1> DEFINE v == [w EXCEPT !.period = period, !.due = period]
<1>1. period # 0 => /\ Watches(w, v) /\ v.period > 0 /\ v.phase = w.phase
  <2>1. period # 0 => Watches(w, v)
    BY WatchFits
  <2>2. v.period = period /\ v.phase = w.phase
    BY DEF Window
  <2> HIDE DEF v
  <2>3. period # 0 => period > 0
    OBVIOUS
  <2> QED BY <2>1, <2>2, <2>3
<1>2. \/ SetWatchdogPeriod(w, period) = w
      \/ period # 0 /\ SetWatchdogPeriod(w, period) = v
  BY DEF SetWatchdogPeriod
<1>3. \/ w.period # 0 /\ StartWatchdogTimer(w, period) = w
      \/ StartWatchdogTimer(w, period) = v
      \/ period = 0
  BY DEF StartWatchdogTimer, SetWatchdogPeriod
<1>4. w.period # 0 => w.period > 0
  BY DEF Window
<1> HIDE DEF v
<1> QED BY <1>1, <1>2, <1>3, <1>4, PartsFit

\* Who gives up says so.
LEMMA DisablesWatch ==
  ASSUME NEW w \in Window
  PROVE  /\ Watches(w, DisableWatchdog(w))
         /\ DisableWatchdog(w).dog.disabled
         /\ DisableWatchdog(w).phase = "stop_disarm"
<1> DEFINE off == Disable(w.dog)
           v == [w EXCEPT !.dog = off, !.phase = "stop_disarm"]
<1>1. DisableWatchdog(w) = v
  BY DEF DisableWatchdog
<1>2. off \in Watchdog /\ off.disabled
  BY LimitsFit DEF Window, Succeeds
<1> HIDE DEF off
<1>3. v \in Window
  BY <1>2 DEF Window, Phase, Stopping
<1>4. /\ v.enabled = w.enabled /\ v.dog = off /\ v.period = w.period
      /\ v.phase = "stop_disarm"
  BY DEF Window
<1> HIDE DEF v
<1> QED BY <1>1, <1>2, <1>3, <1>4 DEF Watches

\* FlutterWindow::ApplyAction.
LEMMA ActsWatch ==
  ASSUME NEW w \in Window, NEW a \in Action, NEW created \in Outcome
  PROVE  Watches(w, ApplyAction(w, a, created))
<1> DEFINE rebuilt == IF a.restart THEN RequestEngineRebuild(w, created) ELSE w
           probed == IF a.probe THEN StartProbe(rebuilt) ELSE rebuilt
<1>1. \/ ApplyAction(w, a, created) = [w EXCEPT !.phase = "stop_exit"]
      \/ ApplyAction(w, a, created) = probed
      \/ ApplyAction(w, a, created) = SetWatchdogPeriod(probed, a.period)
  BY DEF ApplyAction, ExitAfterDeviceLoss
<1>2. Watches(w, rebuilt) /\ rebuilt \in Window
  BY RequestsWatch, PartsFit DEF Watches
<1> HIDE DEF rebuilt
<1>3. Watches(rebuilt, probed) /\ probed \in Window
  BY <1>2, ProbesWatch, PartsFit DEF Watches
<1> HIDE DEF probed
<1>4. a.period \in Nat
  BY DEF Action
<1>5. Watches(probed, SetWatchdogPeriod(probed, a.period))
  BY <1>3, <1>4, TimerWatches
<1>6. Watches(w, probed)
  BY <1>2, <1>3, WatchesOn
<1>7. Watches(w, SetWatchdogPeriod(probed, a.period))
  BY <1>5, <1>6, WatchesOn
<1> QED BY <1>1, <1>6, <1>7, WatchFits

\* FlutterWindow::Dispatch.
LEMMA DispatchesWatch ==
  ASSUME NEW w \in Window, NEW r, Answers(w.dog, r), NEW created \in Outcome,
         NEW fault
  PROVE  Watches(w, Dispatch(w, r, created, fault))
<1> DEFINE v == [w EXCEPT !.dog = r.dog]
<1>1. \/ Dispatch(w, r, created, fault) = w
      \/ Dispatch(w, r, created, fault) = DisableWatchdog(v)
      \/ Dispatch(w, r, created, fault)
           = ApplyAction(v, Done(r.action, fault), created)
  BY DEF Dispatch
<1>2. Watches(w, v) /\ v \in Window
  BY WatchFits DEF Answers, Watches
<1> HIDE DEF v
<1>3. Done(r.action, fault) \in Action
  BY DEF Answers, Done, Action
<1>4. /\ Watches(v, DisableWatchdog(v))
      /\ Watches(v, ApplyAction(v, Done(r.action, fault), created))
  BY <1>2, <1>3, DisablesWatch, ActsWatch
<1> QED BY <1>1, <1>2, <1>4, PartsFit, WatchesOn

\* The readings a handler gives the watchdog.
LEMMA HintsWatch ==
  ASSUME NEW w \in Window, NEW created \in Outcome, NEW fault
  PROVE  /\ Watches(w, Hint(w, fault))
         /\ Watches(w, LossMessage(w, created, fault))
<1>1. w.dog \in Watchdog /\ "failed" \in Outcome
  BY DEF Window, Outcome
<1>2. /\ Answers(w.dog, OnDeviceLossHint(w.dog))
      /\ Answers(w.dog, OnRendererLost(w.dog))
  BY <1>1, ReadingsFit
<1>3. Watches(w, Hint(w, fault))
  BY <1>1, <1>2, DispatchesWatch DEF Hint
<1>4. Watches(w, LossMessage(w, created, fault))
  BY <1>2, DispatchesWatch, PartsFit DEF LossMessage
<1> QED BY <1>3, <1>4

\* A queued rebuild, and one the session asks for.
LEMMA PollsWatch ==
  ASSUME NEW w \in Window, NEW created \in Outcome, NEW rebuild
  PROVE  /\ Watches(w, Poll(w, created))
         /\ Watches(w, HandleSessionDecision(w, rebuild, created))
<1> DEFINE g == GatePoll(w.gate).gate
           v == [w EXCEPT !.gate = g]
<1>1. Poll(w, created) = w \/ Poll(w, created) = PerformEngineRebuild(v, created)
  BY DEF Poll
<1>2. g \in Gate
  BY GatesFit DEF Window
<1> HIDE DEF g
<1>3. Watches(w, v) /\ v \in Window
  BY <1>2, PartsFit DEF Watches
<1> HIDE DEF v
<1>4. Watches(w, PerformEngineRebuild(v, created))
  BY <1>3, RebuildsWatch, WatchesOn
<1>5. Watches(w, Poll(w, created))
  BY <1>1, <1>4, PartsFit
<1>6. Watches(w, HandleSessionDecision(w, rebuild, created))
  BY RequestsWatch, PartsFit DEF HandleSessionDecision
<1> QED BY <1>5, <1>6

\* A tick of the watchdog timer.
LEMMA TicksWatch ==
  ASSUME NEW v \in Window, NEW created \in Outcome, NEW fault
  PROVE  Watches(v, Tick(v, created, fault))
<1> DEFINE w == [v EXCEPT !.dog = ConsumeJudgementHoldExpired(@)]
           p == SessionTick(w.session)
           s == [w EXCEPT !.session = p]
           r == IF RenderDeviceIsLost(w) THEN OnRendererLost(w.dog)
                ELSE OnTick(w.dog)
<1>1. \/ Tick(v, created, fault) = Poll(w, created)
      \/ Tick(v, created, fault) = HandleSessionDecision(s, TRUE, created)
      \/ Tick(v, created, fault) = Dispatch(w, r, created, fault)
  BY DEF Tick
<1>2. Watches(v, w) /\ w \in Window
  <2>1. Succeeds(v.dog, ConsumeJudgementHoldExpired(v.dog))
    BY HoldsFit DEF Window
  <2> QED BY <2>1, WatchFits DEF Watches
<1> HIDE DEF w
<1>3. p \in SessionState /\ w.dog \in Watchdog
  BY <1>2, SessionsFit DEF Window
<1> HIDE DEF p
<1>4. Watches(w, s) /\ s \in Window
  BY <1>2, <1>3, PartsFit DEF Watches
<1> HIDE DEF s
<1>5. Answers(w.dog, r)
  BY <1>3, ReadingsFit, TicksFit
<1> HIDE DEF r
<1>6. /\ Watches(w, Poll(w, created))
      /\ Watches(w, Dispatch(w, r, created, fault))
      /\ Watches(s, HandleSessionDecision(s, TRUE, created))
  BY <1>2, <1>4, <1>5, PollsWatch, DispatchesWatch
<1> QED BY <1>1, <1>2, <1>4, <1>6, WatchesOn

\* The first frame of a callback.
LEMMA PresentsWatch ==
  ASSUME NEW w \in Window, NEW fault
  PROVE  Watches(w, OnFramePresented(w, fault))
<1> DEFINE free == [w EXCEPT !.probe_armed = FALSE, !.callback = "none"]
           judged == Dispatch(free, WatchdogFrame(free.dog), "failed", fault)
           s == SessionFrame(judged.session)
<1>1. OnFramePresented(w, fault) = [judged EXCEPT !.session = s]
  BY DEF OnFramePresented
<1>2. Watches(w, free) /\ free \in Window
  <2>1. "none" \in Slots
    BY DEF Slots
  <2>2. Watches(w, free)
    BY <2>1, SlotWatches, Zenon
  <2> QED BY <2>2 DEF Watches
<1> HIDE DEF free
<1>3. Answers(free.dog, WatchdogFrame(free.dog)) /\ "failed" \in Outcome
  BY <1>2, ReadingsFit DEF Window, Outcome
<1>4. Watches(free, judged) /\ judged \in Window
  BY <1>2, <1>3, DispatchesWatch DEF Watches
<1> HIDE DEF judged
<1>5. s \in SessionState
  BY <1>4, SessionsFit DEF Window
<1> HIDE DEF s
<1> QED BY <1>1, <1>2, <1>4, <1>5, PartsFit, WatchesOn

\* What Dart reports.
LEMMA ReportsWatch ==
  ASSUME NEW w \in Window, NEW args
  PROVE  /\ Watches(w, OnMainStarting(w))
         /\ Watches(w, OnStartupComplete(w, args))
         /\ Watches(w, OnLivenessStamp(w, args))
<1> DEFINE v == [w EXCEPT !.main_seen = TRUE]
<1>1. Watches(w, v) /\ v \in Window
  BY PartsFit DEF Watches
<1>2. OnMainStarting(w) = UpdateWatchdogJudgeable(v)
  BY DEF OnMainStarting
<1> HIDE DEF v
<1>3. Watches(w, OnMainStarting(w))
  BY <1>1, <1>2, JudgedWatches, WatchesOn
<1>4. Watches(w, OnStartupComplete(w, args))
  <2>1. GateStartupComplete(w.gate) \in Gate
    BY GatesFit DEF Window
  <2> QED BY <2>1, PartsFit DEF OnStartupComplete
<1>5. Watches(w, OnLivenessStamp(w, args))
  <2> DEFINE l == OnStamp(w.live, IntArg(args, "epoch", "none") # "other",
                          BoolArg(args, "rasterProbed"),
                          BoolArg(args, "rasterOk"))
  <2>1. OnLivenessStamp(w, args) = [w EXCEPT !.live = l]
    BY DEF OnLivenessStamp
  <2>2. l \in Watch
    BY WatchesFit DEF Window
  <2> HIDE DEF l
  <2> QED BY <2>1, <2>2, PartsFit
<1> QED BY <1>3, <1>4, <1>5

\* Time leaves the watch alone.
LEMMA AgesWatch ==
  ASSUME NEW w \in Window
  PROVE  Watches(w, Age(w))
<1> DEFINE g == AgeGate(w.gate)
           s == AgeSession(w.session)
           l == AgeWatch(w.live)
           d == AgeWatchdog(w.dog)
           later == IF w.due > 0 THEN w.due - 1 ELSE 0
           v1 == [w EXCEPT !.gate = g]
           v2 == [v1 EXCEPT !.session = s]
           v3 == [v2 EXCEPT !.live = l]
           v4 == [v3 EXCEPT !.dog = d]
           v5 == [v4 EXCEPT !.due = later]
<1>1. Age(w) = [w EXCEPT !.gate = g, !.session = s, !.live = l, !.dog = d,
                         !.due = later]
  BY DEF Age
<1>2. /\ g \in Gate /\ s \in SessionState /\ l \in Watch
      /\ Succeeds(w.dog, d)
  BY GatesFit, SessionsFit, WatchesFit, LimitsFit DEF Window
<1>3. later \in Nat
  BY DEF Window
<1> HIDE DEF g, s, l, d, later
<1>4. Age(w) = v5
  BY <1>1 DEF Window
<1>5. v3.dog = w.dog
  BY DEF Window
<1>6. Watches(w, v1) /\ v1 \in Window
  BY <1>2, PartsFit DEF Watches
<1> HIDE DEF v1
<1>7. Watches(v1, v2) /\ v2 \in Window
  BY <1>2, <1>6, PartsFit DEF Watches
<1> HIDE DEF v2
<1>8. Watches(v2, v3) /\ v3 \in Window
  BY <1>2, <1>7, PartsFit DEF Watches
<1> HIDE DEF v3
<1>9. Watches(v3, v4) /\ v4 \in Window
  BY <1>2, <1>5, <1>8, WatchFits DEF Watches
<1> HIDE DEF v4
<1>10. Watches(v4, v5)
  BY <1>3, <1>9, PartsFit
<1> QED BY <1>4, <1>6, <1>7, <1>8, <1>9, <1>10, WatchesOn
-----------------------------------------------------------------------------
(***************************************************************************)
(* The steps.                                                              *)
(***************************************************************************)
\* A window that believes it watches has a timer, and one that stops the timer
\* for good does not believe so.
Alert(w) ==
  /\ (w.phase = "running" /\ w.enabled /\ ~w.dog.disabled) => w.period > 0
  /\ w.phase = "stop_disarm" => w.dog.disabled

WatchInv == window \in Window /\ Alert(window)

\* A step that is a handler's.
LEMMA WatchedStep ==
  ASSUME WatchInv, Watches(window, window'), Handled(window, window')
  PROVE  WatchInv'
<1>1. Alert(window)
  BY DEF WatchInv
<1>2. window' \in Window
  BY DEF Watches
<1>3. window'.phase = "running" => window.phase = "running"
  BY DEF Handled
<1>4. Alert(window')
  BY <1>1, <1>3 DEF Watches, Alert
<1> QED BY <1>2, <1>4 DEF WatchInv

\* The window of OnCreate before its timer starts.
LEMMA StartsWatch ==
  ASSUME NEW w \in Window, w.phase = "starting", NEW storm \in BOOLEAN,
         NEW created \in {"watched", "unavailable"}
  PROVE  LET v == [w EXCEPT !.phase = "running", !.sentinel = created,
                            !.session.storm_detector = storm,
                            !.dog = OnStarted(@).dog]
         IN /\ v \in Window /\ v.phase = "running"
            /\ v.enabled = w.enabled
<1> DEFINE s == [w.session EXCEPT !.storm_detector = storm]
           d == OnStarted(w.dog).dog
           v == [w EXCEPT !.phase = "running", !.sentinel = created,
                          !.session = s, !.dog = d]
<1>1. v = [w EXCEPT !.phase = "running", !.sentinel = created,
                    !.session.storm_detector = storm,
                    !.dog = OnStarted(@).dog]
  OBVIOUS
<1>2. s \in SessionState
  BY SessionsFit DEF Window
<1>3. d \in Watchdog
  BY ReadingsFit DEF Window, Answers, Succeeds
<1> HIDE DEF s, d
<1>4. v \in Window
  BY <1>2, <1>3 DEF Window, Phase
<1>5. v.phase = "running" /\ v.enabled = w.enabled
  BY DEF Window
<1> HIDE DEF v
<1> QED BY <1>1, <1>4, <1>5

\* OnCreate: the window is up, or it is not, or gives up its timer at once.
LEMMA CreationWatches ==
  ASSUME WatchInv, OnCreate
  PROVE  WatchInv' /\ window'.phase # "wedged"
<1>1. PICK created \in Outcome, storm, timer \in BOOLEAN :
        LET built == CreateController(window, created)
            armed == [built EXCEPT !.phase = "running", !.sentinel = created,
                                   !.session.storm_detector = storm,
                                   !.dog = OnStarted(@).dog]
        IN window' =
             CASE created = "failed" -> [built EXCEPT !.phase = "failed_start"]
               [] created # "failed" /\ ~window.enabled ->
                    [built EXCEPT !.phase = "running"]
               [] created # "failed" /\ window.enabled /\ timer ->
                    StartWatchdogTimer(StartProbe(armed), ProbeInterval)
               [] OTHER -> DisableWatchdog(StartProbe(armed))
  BY DEF OnCreate
<1> DEFINE built == CreateController(window, created)
           armed == [built EXCEPT !.phase = "running", !.sentinel = created,
                                  !.session.storm_detector = storm,
                                  !.dog = OnStarted(@).dog]
           probed == StartProbe(armed)
           failed == [built EXCEPT !.phase = "failed_start"]
           blind == [built EXCEPT !.phase = "running"]
<1>2. \/ window' = failed
      \/ window' = blind /\ ~window.enabled
      \/ /\ created # "failed"
         /\ \/ window' = StartWatchdogTimer(probed, ProbeInterval)
            \/ window' = DisableWatchdog(probed)
  <2>1. CASE created = "failed"
    BY <1>1, <2>1
  <2>2. CASE created # "failed" /\ ~window.enabled
    BY <1>1, <2>2
  <2>3. CASE created # "failed" /\ window.enabled /\ timer
    BY <1>1, <2>3
  <2>4. CASE created # "failed" /\ window.enabled /\ ~timer
    BY <1>1, <2>4
  <2> QED BY <2>1, <2>2, <2>3, <2>4
<1>3. window.phase = "starting" /\ window \in Window
  BY DEF OnCreate, WatchInv
<1>4. /\ built \in Window /\ built.phase = "starting"
      /\ built.enabled = window.enabled
  BY <1>3, CreatesWatch DEF Watches
<1> HIDE DEF built
<1>5. CASE window' = failed
  <2>1. failed \in Window
    BY <1>4 DEF Window, Phase
  <2>2. failed.phase = "failed_start"
    BY <1>4 DEF Window
  <2> HIDE DEF failed
  <2> QED BY <1>5, <2>1, <2>2 DEF WatchInv, Alert
<1>6. CASE window' = blind /\ ~window.enabled
  <2>1. blind \in Window
    BY <1>4 DEF Window, Phase
  <2>2. blind.phase = "running" /\ blind.enabled = window.enabled
    BY <1>4 DEF Window
  <2> HIDE DEF blind
  <2> QED BY <1>6, <2>1, <2>2 DEF WatchInv, Alert
<1>7. CASE /\ created # "failed"
           /\ \/ window' = StartWatchdogTimer(probed, ProbeInterval)
              \/ window' = DisableWatchdog(probed)
  <2>1. created \in {"watched", "unavailable"}
    BY <1>7 DEF Outcome
  <2>2. armed \in Window
    BY <1>4, <2>1, StartsWatch
  <2> HIDE DEF armed
  <2>3. probed \in Window
    BY <2>2, ProbesWatch DEF Watches
  <2> HIDE DEF probed
  <2>4. CASE window' = StartWatchdogTimer(probed, ProbeInterval)
    <3>1. /\ Watches(probed, StartWatchdogTimer(probed, ProbeInterval))
          /\ StartWatchdogTimer(probed, ProbeInterval).period > 0
          /\ StartWatchdogTimer(probed, ProbeInterval).phase = probed.phase
      BY <2>3, TimerWatches, WatchdogConstants
    <3>2. armed.phase = "running"
      BY <1>4, <2>1, StartsWatch DEF armed
    <3>3. probed.phase = armed.phase
      BY <2>2 DEF probed, StartProbe, Window
    <3> QED BY <2>4, <3>1, <3>2, <3>3 DEF Watches, WatchInv, Alert
  <2>5. CASE window' = DisableWatchdog(probed)
    <3>1. /\ Watches(probed, DisableWatchdog(probed))
          /\ DisableWatchdog(probed).dog.disabled
          /\ DisableWatchdog(probed).phase = "stop_disarm"
      BY <2>3, DisablesWatch
    <3> QED BY <2>5, <3>1 DEF Watches, WatchInv, Alert
  <2> QED BY <1>7, <2>4, <2>5
<1> QED BY <1>2, <1>5, <1>6, <1>7

\* The steps that apply a handler.
LEMMA HandlersWatch ==
  ASSUME WindowInv, WatchInv,
         \/ FramePresented \/ MainStarting \/ StartupComplete \/ LivenessStamp
         \/ HandlePosted \/ PowerResume \/ DisplayChange \/ SessionChange
         \/ HandleTick \/ Storm \/ DeviceRemoved \/ Hang \/ Recover
         \/ TimerFires \/ Elapse
  PROVE  WatchInv'
<1>0. window \in Window /\ "watched" \in Outcome
  BY DEF WatchInv, Outcome
<1> SUFFICES Watches(window, window')
  BY Handles, WatchedStep
<1>1. CASE FramePresented
  BY <1>0, <1>1, PresentsWatch DEF FramePresented
<1>2. CASE MainStarting
  BY <1>0, <1>2, ReportsWatch DEF MainStarting
<1>3. CASE StartupComplete
  BY <1>0, <1>3, ReportsWatch DEF StartupComplete
<1>4. CASE LivenessStamp
  BY <1>0, <1>4, ReportsWatch DEF LivenessStamp
<1>5. CASE HandlePosted
  BY <1>0, <1>5, PollsWatch, HintsWatch DEF HandlePosted
<1>6. CASE PowerResume
  <2> DEFINE hinted == Hint(window, "none")
  <2>1. Watches(window, hinted) /\ hinted \in Window
    BY <1>0, HintsWatch DEF Watches
  <2>2. window' = RequestEngineRebuild(hinted, "watched")
    BY <1>6 DEF PowerResume
  <2> HIDE DEF hinted
  <2>3. Watches(hinted, RequestEngineRebuild(hinted, "watched"))
    BY <1>0, <2>1, RequestsWatch
  <2> QED BY <2>1, <2>2, <2>3, WatchesOn
<1>7. CASE DisplayChange
  BY <1>0, <1>7, HintsWatch DEF DisplayChange
<1>8. CASE SessionChange
  <2> DEFINE w == Hint(window, "none")
  <2>1. PICK adapter :
          LET c == OnRemoteConnect(w.session, adapter)
          IN \/ window' = HandleSessionDecision([w EXCEPT !.session = c.policy],
                                                c.rebuild, "watched")
             \/ window' = [w EXCEPT !.session = OnRemoteDisconnect(@)]
    BY <1>8 DEF SessionChange
  <2>2. Watches(window, w) /\ w \in Window
    BY <1>0, HintsWatch DEF Watches
  <2> HIDE DEF w
  <2> DEFINE c == OnRemoteConnect(w.session, adapter)
             p == c.policy
             v == [w EXCEPT !.session = p]
             left == OnRemoteDisconnect(w.session)
  <2>3. p \in SessionState /\ left \in SessionState
    BY <2>2, SessionsFit DEF Window
  <2>4. \/ window' = HandleSessionDecision(v, c.rebuild, "watched")
        \/ window' = [w EXCEPT !.session = left]
    BY <2>1
  <2> HIDE DEF p, left
  <2>5. Watches(w, v) /\ v \in Window
    BY <2>2, <2>3, PartsFit DEF Watches
  <2> HIDE DEF v
  <2>6. Watches(v, HandleSessionDecision(v, c.rebuild, "watched"))
    BY <1>0, <2>5, PollsWatch
  <2>7. Watches(w, [w EXCEPT !.session = left])
    BY <2>2, <2>3, PartsFit
  <2>8. Watches(w, window')
    BY <2>4, <2>5, <2>6, <2>7, WatchesOn
  <2> QED BY <2>2, <2>8, WatchesOn
<1>9. CASE HandleTick
  BY <1>0, <1>9, TicksWatch DEF HandleTick
<1>10. CASE Storm \/ Hang \/ Recover
  BY <1>0, <1>10, PartsFit DEF Storm, Hang, Recover
<1>11. CASE DeviceRemoved
  <2>1. "removed" \in Sentinels
    BY DEF Sentinels
  <2>2. Watches(window, [window EXCEPT !.sentinel = "removed"])
    BY <1>0, <2>1, PartsFit, Zenon
  <2> QED BY <1>11, <2>2, Zenon DEF DeviceRemoved
<1>12. CASE TimerFires
  <2>1. window.period \in Nat
    BY <1>0 DEF Window
  <2> QED BY <1>0, <1>12, <2>1, PartsFit DEF TimerFires
<1>13. CASE Elapse
  BY <1>0, <1>13, AgesWatch DEF Elapse
<1> QED BY <1>1, <1>2, <1>3, <1>4, <1>5, <1>6, <1>7, <1>8, <1>9, <1>10, <1>11,
           <1>12, <1>13

\* The steps that end something: the timer that is gone when the window runs
\* on was stopped by a watchdog that had given up.
LEMMA EndsWatch ==
  ASSUME WatchInv,
         EngineDraws \/ Close \/ SendTimesOut \/ TimerStopped \/ LoopEnds
  PROVE  WatchInv'
<1>0. window \in Window /\ Alert(window)
  BY DEF WatchInv
<1>1. CASE EngineDraws
  <2> DEFINE v == [window EXCEPT !.callback = "posted"]
  <2>1. window' = v
    BY <1>1 DEF EngineDraws
  <2>2. v \in Window
    BY <1>0 DEF Window
  <2>3. /\ v.phase = window.phase /\ v.enabled = window.enabled
        /\ v.dog = window.dog /\ v.period = window.period
    BY <1>0 DEF Window
  <2> HIDE DEF v
  <2> QED BY <1>0, <2>1, <2>2, <2>3 DEF WatchInv, Alert
<1>2. CASE Close
  <2> DEFINE v == [window EXCEPT !.withdrawn = TRUE, !.phase = "stop_close"]
  <2>1. window' = v
    BY <1>2 DEF Close
  <2>2. v \in Window
    BY <1>0 DEF Window, Phase, Stopping
  <2>3. v.phase = "stop_close"
    BY <1>0 DEF Window
  <2> HIDE DEF v
  <2> QED BY <2>1, <2>2, <2>3 DEF WatchInv, Alert
<1>3. CASE SendTimesOut
  <2> DEFINE v == [window EXCEPT !.phase = "wedged"]
  <2>1. window' = window \/ window' = v
    BY <1>3 DEF SendTimesOut
  <2>2. v \in Window
    BY <1>0 DEF Window, Phase
  <2>3. v.phase = "wedged"
    BY <1>0 DEF Window
  <2> HIDE DEF v
  <2> QED BY <1>0, <2>1, <2>2, <2>3 DEF WatchInv, Alert
<1>4. CASE TimerStopped
  <2> DEFINE w == [window EXCEPT !.period = 0, !.due = 0]
             runs == [w EXCEPT !.phase = "running"]
             gone == DestroyController(w)
             quit == [gone EXCEPT !.phase = "quit"]
  <2>1. w \in Window
    BY <1>0 DEF Window
  <2>2. w.phase = window.phase /\ w.dog = window.dog
    BY <1>0 DEF Window
  <2>3. \/ window.phase = "stop_disarm" /\ window' = runs
        \/ window' = quit
    BY <1>4, <2>2 DEF TimerStopped
  <2> HIDE DEF w
  <2>4. runs \in Window
    BY <2>1 DEF Window, Phase
  <2>5. runs.phase = "running" /\ runs.dog = w.dog
    BY <2>1 DEF Window
  <2>6. gone \in Window
    BY <2>1, DestroysWatch DEF Watches
  <2> HIDE DEF runs, gone
  <2>7. quit \in Window
    BY <2>6 DEF Window, Phase
  <2>8. quit.phase = "quit"
    BY <2>6 DEF Window
  <2> HIDE DEF quit
  <2> QED BY <1>0, <2>2, <2>3, <2>4, <2>5, <2>7, <2>8 DEF WatchInv, Alert
<1>5. CASE LoopEnds
  <2> DEFINE v == [window EXCEPT !.phase = "ended"]
  <2>1. window' = v
    BY <1>5 DEF LoopEnds
  <2>2. v \in Window
    BY <1>0 DEF Window, Phase
  <2>3. v.phase = "ended"
    BY <1>0 DEF Window
  <2> HIDE DEF v
  <2> QED BY <2>1, <2>2, <2>3 DEF WatchInv, Alert
<1> QED BY <1>1, <1>2, <1>3, <1>4, <1>5

\* The window of the first state.
LEMMA WatchInit == Init => WatchInv
<1> SUFFICES ASSUME NEW enabled \in BOOLEAN, NEW policy \in Policies,
                    window = NewWindow(enabled, policy)
             PROVE  WatchInv
  BY DEF Init
<1>1. policy \in LossPolicy
  BY WindowConstants
<1>2. NewGate \in Gate
  BY GateConstants DEF NewGate, Gate
<1>3. NewSession \in SessionState
  BY SessionConstants DEF NewSession, SessionState
<1>4. EpochStarted \in Watch
  BY LivenessConstants DEF EpochStarted, Watch
<1>5. NewWatchdog(policy) \in Watchdog
  <2>1. /\ 0 \in 0 .. MissedProbes /\ 0 \in 0 .. MaxAttempts
        /\ 0 \in 0 .. MaxLosses + 1 /\ 0 \in 0 .. LossWindow + 1
        /\ 0 \in 0 .. HoldCap
    BY WatchdogConstants
  <2> QED BY <1>1, <2>1 DEF NewWatchdog, Watchdog
<1>6. window \in Window
  BY <1>2, <1>3, <1>4, <1>5 DEF NewWindow, Window, Phase
<1>7. window.phase = "starting"
  BY DEF NewWindow
<1> QED BY <1>6, <1>7 DEF WatchInv, Alert

\* Every step keeps the watch.
LEMMA WatchStep == WindowInv /\ WatchInv /\ [Next]_vars => WatchInv'
<1> SUFFICES ASSUME WindowInv, WatchInv, [Next]_vars
             PROVE  WatchInv'
  OBVIOUS
<1>1. CASE UNCHANGED vars
  BY <1>1 DEF vars, WatchInv
<1>2. CASE Next
  BY <1>2, CreationWatches, HandlersWatch, EndsWatch DEF Next, PlatformStep
<1> QED BY <1>1, <1>2

\* The window is a window of its type, and alert, in every reachable state.
THEOREM WatchInvariant == Spec => []WatchInv
  BY WatchInit, WatchStep, WindowInvariant, PTL DEF Spec

\* A watchdog that has not given up has a timer that ticks: no failed rebuild,
\* no action that threw, no backoff and no stop of the timer leaves the window
\* unwatched without saying so (FlutterWindow::DisableWatchdog).
THEOREM WatchdogTicks == Spec => []WatchingTicks
<1>1. WatchInv => WatchingTicks
  BY DEF WatchInv, Alert, WatchingTicks
<1> QED BY <1>1, WatchInvariant, PTL

-----------------------------------------------------------------------------
(***************************************************************************)
(* The queues: the timer thread sends no more ticks than it has left       *)
(* unanswered, and one of those ends the process.                          *)
(***************************************************************************)
QueueTypes ==
  /\ posted \in Seq(Message) /\ Len(posted) <= MaxPosted
  /\ thread \in {"idle", "sending"}
  /\ ticks \in Nat /\ unanswered \in 0 .. WedgeAfter - 1
  /\ hung \in BOOLEAN /\ events \in 0 .. MaxEvents

\* The tick that is being sent.
Sending == IF thread = "sending" THEN 1 ELSE 0

TicksCounted ==
  /\ ticks <= WedgeAfter
  /\ window.phase # "wedged" => ticks <= unanswered + Sending
  /\ window.phase = "wedged" => thread = "idle"

QueueInv == QueueTypes /\ TicksCounted

\* A step that leaves the ticks alone.
LEMMA SameTicks ==
  ASSUME QueueInv, UNCHANGED <<thread, ticks, unanswered>>,
         window'.phase = "wedged" <=> window.phase = "wedged"
  PROVE  TicksCounted' /\ thread' \in {"idle", "sending"}
         /\ ticks' \in Nat /\ unanswered' \in 0 .. WedgeAfter - 1
  BY DEF QueueInv, QueueTypes, TicksCounted, Sending

\* Events are only used up.
LEMMA EventsUsed ==
  ASSUME QueueInv, NEW created, NEW fault,
         Happens \/ Inputs(created, fault) \/ UNCHANGED events
  PROVE  events' \in 0 .. MaxEvents
<1>1. events \in 0 .. MaxEvents /\ MaxEvents \in Nat
  BY WindowConstants DEF QueueInv, QueueTypes
<1>2. CASE Happens
  BY <1>1, <1>2 DEF Happens
<1>3. CASE Inputs(created, fault)
  BY <1>1, <1>3 DEF Inputs
<1>4. CASE UNCHANGED events
  BY <1>1, <1>4
<1> QED BY <1>2, <1>3, <1>4

\* A message is posted where there is room for it.
LEMMA RoomLeft ==
  ASSUME QueueInv, Room, NEW condition, NEW message \in Message,
         PostIf(condition, message)
  PROVE  posted' \in Seq(Message) /\ Len(posted') <= MaxPosted
<1>1. posted \in Seq(Message) /\ Len(posted) < MaxPosted /\ MaxPosted \in Nat
  BY WindowConstants DEF QueueInv, QueueTypes, Room
<1>2. posted' = posted \/ posted' = Append(posted, message)
  BY DEF PostIf
<1> QED BY <1>1, <1>2

\* No handler makes the window wedged.
LEMMA NotWedged ==
  ASSUME NEW w, NEW v, Handled(w, v)
  PROVE  v.phase = "wedged" => w.phase = "wedged"
  BY DEF Handled

\* The platform thread's handlers, but the tick, and what happens outside.
LEMMA PlatformCounts ==
  ASSUME WindowInv, QueueInv,
         \/ FramePresented \/ MainStarting \/ StartupComplete \/ LivenessStamp
         \/ HandlePosted \/ PowerResume \/ DisplayChange \/ SessionChange
         \/ Storm \/ DeviceRemoved \/ Hang \/ Recover \/ Elapse
  PROVE  QueueInv'
<1>1. Handled(window, window')
  BY Handles
<1>2. UNCHANGED <<thread, ticks, unanswered>>
  BY DEF FramePresented, MainStarting, StartupComplete, LivenessStamp,
         HandlePosted, PowerResume, DisplayChange, SessionChange, Storm,
         DeviceRemoved, Hang, Recover, Elapse, PlatformOnly, TimerUnchanged
<1>3. window.phase # "wedged"
  BY DEF FramePresented, MainStarting, StartupComplete, LivenessStamp,
         HandlePosted, PowerResume, DisplayChange, SessionChange, Storm,
         DeviceRemoved, Hang, Recover, Elapse, InEngineCall, Pumping
<1>4. /\ TicksCounted' /\ thread' \in {"idle", "sending"}
      /\ ticks' \in Nat /\ unanswered' \in 0 .. WedgeAfter - 1
  BY <1>1, <1>2, <1>3, NotWedged, SameTicks
<1>5. hung' \in BOOLEAN
  <2>1. hung \in BOOLEAN
    BY DEF QueueInv, QueueTypes
  <2>2. hung' = hung \/ hung' = TRUE \/ hung' = FALSE
    BY DEF FramePresented, MainStarting, StartupComplete, LivenessStamp,
           HandlePosted, PowerResume, DisplayChange, SessionChange, Storm,
           DeviceRemoved, Hang, Recover, Elapse, PlatformOnly, TimerUnchanged
  <2> QED BY <2>1, <2>2
<1>6. events' \in 0 .. MaxEvents
  <2>1. \/ Happens \/ UNCHANGED events
        \/ \E created, fault : Inputs(created, fault)
    BY DEF FramePresented, MainStarting, StartupComplete, LivenessStamp,
           HandlePosted, PowerResume, DisplayChange, SessionChange, Storm,
           DeviceRemoved, Hang, Recover, Elapse
  <2> QED BY <2>1, EventsUsed
<1>7. posted' \in Seq(Message) /\ Len(posted') <= MaxPosted
  <2>1. posted \in Seq(Message) /\ Len(posted) <= MaxPosted
    BY DEF QueueInv, QueueTypes
  <2>2. CASE UNCHANGED posted
    BY <2>1, <2>2
  <2>3. CASE HandlePosted
    <3>1. posted # <<>> /\ posted' = Tail(posted)
      BY <2>3 DEF HandlePosted
    <3> QED BY <2>1, <3>1, WindowConstants
  <2>4. CASE StartupComplete \/ LivenessStamp \/ Storm
    <3>1. Room /\ \E condition : \E message \in Message :
                    PostIf(condition, message)
      BY <2>4 DEF StartupComplete, LivenessStamp, Storm, Message
    <3> QED BY <3>1, RoomLeft
  <2> QED BY <2>2, <2>3, <2>4
          DEF FramePresented, MainStarting, PowerResume, DisplayChange,
              SessionChange, DeviceRemoved, Hang, Recover, Elapse,
              PlatformOnly
<1> QED BY <1>4, <1>5, <1>6, <1>7 DEF QueueInv, QueueTypes

\* The steps the timer thread has a part in, or the end of the window.
LEMMA ThreadCounts ==
  ASSUME WindowInv, QueueInv, HandleTick \/ TimerFires \/ SendTimesOut
  PROVE  QueueInv'
<1>0. WedgeAfter \in Nat \ {0}
  BY WindowConstants
<1>1. UNCHANGED <<posted, hung>>
  BY DEF HandleTick, TimerFires, SendTimesOut
<1>2. events' \in 0 .. MaxEvents
  <2>1. UNCHANGED events \/ \E created, fault : Inputs(created, fault)
    BY DEF HandleTick, TimerFires, SendTimesOut
  <2> QED BY <2>1, EventsUsed
<1>3. CASE HandleTick
  <2>1. Handled(window, window') /\ window.phase # "wedged"
    BY <1>3, Handles DEF HandleTick, Pumping
  <2>2. window'.phase # "wedged"
    BY <2>1, NotWedged
  <2>3. /\ ticks > 0 /\ ticks' = ticks - 1
        /\ \/ ticks = 1 /\ thread' = "idle" /\ unanswered' = 0
           \/ UNCHANGED <<thread, unanswered>>
    BY <1>3 DEF HandleTick
  <2> QED BY <1>0, <1>1, <1>2, <2>1, <2>2, <2>3
          DEF QueueInv, QueueTypes, TicksCounted, Sending
<1>4. CASE TimerFires
  <2>1. Handled(window, window') /\ window.phase # "wedged"
    BY <1>4, Handles DEF TimerFires
  <2>2. window'.phase # "wedged"
    BY <2>1, NotWedged
  <2>3. /\ thread = "idle" /\ thread' = "sending" /\ ticks' = ticks + 1
        /\ unanswered' = unanswered
    BY <1>4 DEF TimerFires
  <2> QED BY <1>0, <1>1, <1>2, <2>1, <2>2, <2>3
          DEF QueueInv, QueueTypes, TicksCounted, Sending
<1>5. CASE SendTimesOut
  <2>1. thread = "sending" /\ thread' = "idle" /\ ticks' = ticks
    BY <1>5 DEF SendTimesOut
  <2>2. window.phase # "wedged"
    BY <2>1 DEF QueueInv, TicksCounted
  <2>3. ticks \in Nat /\ ticks <= unanswered + 1
    BY <2>1, <2>2 DEF QueueInv, QueueTypes, TicksCounted, Sending
  <2>4. CASE unanswered + 1 >= WedgeAfter
    <3>1. /\ unanswered' = 0
          /\ window' = [window EXCEPT !.phase = "wedged"]
      BY <1>5, <2>4 DEF SendTimesOut, IsWedged
    <3>2. window'.phase = "wedged"
      BY <3>1 DEF WindowInv, Sound, Shaped
    <3> QED BY <1>0, <1>1, <1>2, <2>1, <2>3, <3>1, <3>2
            DEF QueueInv, QueueTypes, TicksCounted, Sending
  <2>5. CASE ~(unanswered + 1 >= WedgeAfter)
    <3>1. unanswered' = unanswered + 1 /\ window' = window
      BY <1>5, <2>5 DEF SendTimesOut, IsWedged
    <3> QED BY <1>0, <1>1, <1>2, <2>1, <2>2, <2>3, <2>5, <3>1
            DEF QueueInv, QueueTypes, TicksCounted, Sending
  <2> QED BY <2>4, <2>5
<1> QED BY <1>3, <1>4, <1>5

\* The steps that begin or end something.
LEMMA EndsCount ==
  ASSUME WatchInv, WatchInv', QueueInv,
         OnCreate \/ EngineDraws \/ Close \/ TimerStopped \/ LoopEnds
  PROVE  QueueInv'
<1>0. window \in Window
  BY DEF WatchInv
<1>1. UNCHANGED <<posted, thread, unanswered, hung>>
  BY DEF OnCreate, EngineDraws, Close, TimerStopped, LoopEnds, PlatformOnly,
         TimerUnchanged
<1>2. ticks' = ticks \/ ticks' = 0
  BY DEF OnCreate, EngineDraws, Close, TimerStopped, LoopEnds, PlatformOnly,
         TimerUnchanged
<1>3. events' \in 0 .. MaxEvents
  <2>1. Happens \/ UNCHANGED events
    BY DEF OnCreate, EngineDraws, Close, TimerStopped, LoopEnds
  <2> QED BY <2>1, EventsUsed
<1>4. window.phase # "wedged"
  BY DEF OnCreate, EngineDraws, Close, TimerStopped, LoopEnds, Pumping,
         Stopping
<1>5. window'.phase # "wedged"
  <2>1. CASE OnCreate
    BY <2>1, CreationWatches
  <2>2. CASE EngineDraws
    BY <1>0, <1>4, <2>2 DEF EngineDraws, Window
  <2>3. CASE Close
    BY <1>0, <2>3 DEF Close, Window
  <2>4. CASE TimerStopped
    <3> DEFINE w == [window EXCEPT !.period = 0, !.due = 0]
               gone == DestroyController(w)
    <3>1. w \in Window
      BY <1>0 DEF Window
    <3>2. \/ window' = [w EXCEPT !.phase = "running"]
          \/ window' = [gone EXCEPT !.phase = "quit"]
      BY <2>4 DEF TimerStopped
    <3> HIDE DEF w
    <3>3. gone \in Window
      BY <3>1, DestroysWatch DEF Watches
    <3> HIDE DEF gone
    <3> QED BY <3>1, <3>2, <3>3 DEF Window
  <2>5. CASE LoopEnds
    BY <1>0, <2>5 DEF LoopEnds, Window
  <2> QED BY <2>1, <2>2, <2>3, <2>4, <2>5
<1> QED BY <1>1, <1>2, <1>3, <1>4, <1>5, WindowConstants
        DEF QueueInv, QueueTypes, TicksCounted, Sending

\* Nothing is queued in the first state.
LEMMA QueueInit == Init => QueueInv
<1> SUFFICES ASSUME Init PROVE QueueInv
  OBVIOUS
<1>1. window.phase = "starting"
  BY DEF Init, NewWindow
<1>2. /\ posted = <<>> /\ thread = "idle" /\ ticks = 0 /\ unanswered = 0
      /\ hung = FALSE /\ events = MaxEvents
  BY DEF Init
<1>3. posted \in Seq(Message) /\ Len(posted) <= MaxPosted
  BY <1>2, WindowConstants
<1>4. QueueTypes
  <2>1. WedgeAfter \in Nat \ {0} /\ MaxEvents \in Nat
    BY WindowConstants
  <2>2. 0 \in 0 .. WedgeAfter - 1 /\ MaxEvents \in 0 .. MaxEvents
    BY <2>1
  <2>3. hung \in BOOLEAN
    BY <1>2
  <2> QED BY <1>2, <1>3, <2>2, <2>3 DEF QueueTypes
<1>5. TicksCounted
  BY <1>1, <1>2, WindowConstants DEF TicksCounted, Sending
<1> QED BY <1>4, <1>5 DEF QueueInv

\* Every step keeps the count.
LEMMA QueueStep ==
  WindowInv /\ WatchInv /\ WatchInv' /\ QueueInv /\ [Next]_vars => QueueInv'
<1> SUFFICES ASSUME WindowInv, WatchInv, WatchInv', QueueInv, [Next]_vars
             PROVE  QueueInv'
  OBVIOUS
<1>1. CASE UNCHANGED vars
  BY <1>1 DEF vars, QueueInv, QueueTypes, TicksCounted, Sending
<1>2. CASE Next
  BY <1>2, PlatformCounts, ThreadCounts, EndsCount DEF Next, PlatformStep
<1> QED BY <1>1, <1>2

\* No more ticks wait than were left unanswered and the one being sent, and
\* the count of those never reaches the limit in a process that goes on.
THEOREM QueueInvariant == Spec => []QueueInv
  BY QueueInit, QueueStep, WindowInvariant, WatchInvariant, PTL DEF Spec

\* The window, its queues and its counters keep their types and their bounds,
\* the restarts and episodes of the watchdog and the queue of ticks among them.
THEOREM WindowTypeCorrect == Spec => []TypeOK
<1>1. WatchInv /\ QueueInv => TypeOK
  BY WindowConstants
     DEF WatchInv, QueueInv, QueueTypes, TicksCounted, TypeOK
<1> QED BY <1>1, WatchInvariant, QueueInvariant, PTL
=============================================================================
