# CentroidX: a formal model of the shared configuration, the Windows runner and the native plug-ins

CentroidX is an HMI. Every station of a plant (a Windows or Linux panel running the Flutter app) drives PLCs over OPC UA,
Modbus, UMAS and M2400, and all stations share one configuration: pages, their assets, key mappings, preferences. A panel
runs unattended for months, so three parts of the program carry the risk, and this directory models those:

- the **shared configuration**, because several processes write the same data and a lost, duplicated or reordered step does
  lasting damage;
- the **Windows runner**, the native process around the Flutter engine, because it is what must notice that the screen is dead,
  bring it back without making things worse, and leave a record when it cannot;
- the **native plug-ins** (an embedded Chromium, video by libmpv), because foreign threads meet the platform thread in them and a
  mistake ends the process.

`PROJECT.json` lists the components, the runs, the mutants that show each property can fail, the code lines every definition
stands for, the hazards and the theorems.

## Inventory

| Part | State it keeps | Operations and interactions | What is hard | What makes it correct |
|---|---|---|---|---|
| **Configuration store** `packages/tfc_dart/lib/core/config/config_store.dart` | snapshot in memory, mirror in SQLite, rows noted as dirty, watermark, the remote | `open`, `itemsOf`, `writeItems`, `serialiseWrite`, `attachRemote`, `detachRemote`; publishes `keyMappingChanges` | a save is one Postgres transaction of compare-and-swap statements, awaits between all of them, and the sync swaps the snapshot in between | no lost update; memory, disk and listeners agree; a refused save changed nothing |
| **Sync engine** `config_sync.dart` | chain of tasks, LISTEN subscription, sweep timer | `onNotification`, `pull`, `reconcile`, `start`, `stop` | lost notifications, change rows that commit out of id order, reads that race commits, engines that are stopped in flight | the watermark claims only what was applied; an attached station converges; an empty remote empties nobody |
| **Cut-over of the blob** `blob_migration.dart`, `preference_migration.dart`, `key_mapping_migration.dart` | marker rows, the old preference | run once per kind by whichever station attaches first, under an advisory lock | two stations at once, a crash half way, leftovers of an earlier version | exactly once, history included |
| **Diff, merge, undo, sort keys, audit** `config_diff.dart`, `config_merge.dart`, `config_undo.dart`, `sort_keys.dart`, `config_consistency.dart` | none (algorithms over rows and change rows) | called by editors and the history page; undo writes through `writeItems` | boundary cases of lists of keys; an undo that races a later edit | the merge loses neither side; a key lies strictly between its neighbours; an undo restores exactly what the action changed |
| **Guarded writes** `core/access/*`, `packages/tfc_access` | session, policy, audit rows | wrap the store and the state manager | audit row and write are two steps; a session that expires between check and write | no write without the group it needs; expiry cannot be extended by coming and going |
| **State manager, collectors, alarms** `state_man.dart`, `collector.dart`, `alarm.dart` | subscriptions, connections, alarm states | read and write PLC values, re-point subscriptions when a mapping changes | reconnects, native callbacks | every mapped key has one live subscription; an alarm is acknowledged once |
| **Modbus TCP** `packages/modbus_client_tcp` | socket, pending requests by transaction id, input buffer | `connect`, `send`, `disconnect`, frames from the socket | a late answer, an id that wraps, a socket replaced under a request | a response reaches the request it answers; every request ends |
| **M2400** `packages/jbtm` | socket, backoff | `connect`, `dispose`, reconnect loop | a loop that is revived by a second `connect` | one loop; disposed means closed |
| **MCP server** `packages/tfc_mcp_server` | ring of decisions, parked callers, cache | `publish`, `since`, `waitFor`, `close` | cursor against eviction, restart of the server, wake-up against timeout | a cursor never skips a decision silently |
| **Version manager** `tools/centroidx-manager` | downloaded package, install record | fetch, verify, wait for exit, install, launch | a crash between the steps | nothing unverified is installed |
| **Rebuild gate, session policy, watchdog, Dart liveness** `centroid-hmi/windows/runner/engine_rebuild_gate.cpp`, `session_rebuild_policy.cpp`, `gpu_watchdog.cpp`, `dart_liveness.cpp` | a small value each: what is queued, what is outstanding, what is left until a limit | asked by every handler of the window; their answers are what it does | a request during a start-up, a duplicate, a limit that is reached by the same loss twice | no engine is torn down while it starts; every request is answered; losses, not reports, are counted |
| **The window and its timer thread** `flutter_window.cpp`, `win32_window.cpp` | engine, probe, timer, the four values above | messages, ticks sent by the timer thread, calls from the engine | the two threads wait for each other; messages arrive after the quit; any step of a rebuild fails | a frame callback is armed once; a living watchdog ticks; nothing is built after the quit |
| **The process** `main.cpp`, `utils.cpp`, `crash_handler.cpp`, `stderr_interposer.cpp`, `runner_log.cpp`, `log_rotation.cpp`, `egl_storm_detector.cpp`, `drag_drop_lifetime.cpp`, `shutdown_policy.cpp` | log files over several starts, pipes, threads, crash state | rotate, redirect, forward, detect, record, restart | a kill between two renames, two crashes at once, a full pipe, a console somebody selects in | the logs of the last runs survive; one record; nobody waits for ever; what was closed stays closed |
| **Embedded web view** `packages/webview_cef/common/webview_plugin.cc`, `webview_handler.cc`, `webview_js_handler.cc`, `webview_app.cc`, `webview_cookieVisitor.cc` | browsers, pending answers, script callbacks | method calls from Dart, tasks on CEF's UI thread, messages of render processes | answers that come late, from a page that is gone, or twice; disposal while a browser is being made | one answer a call; a reply reaches the page that asked; a disposed view has no browser |
| **Values of the method channel** `webview_value.cc` | reference-counted heap | construct, share, append, look up, release | reference counts by hand | every value lives as long as somebody holds it, and no longer |
| **Preparation of the browser cache** `cef_cache_paths.cc`, `cef_cache_paths_host.cc` | lock files, links and socket directories on disk | before CEF starts: choose a path, sweep what dead instances left | another instance starts or dies between look and unlink | nothing an instance needs is removed |
| **Video output** `packages/media_kit_video_elinux` | outputs with their references, textures, render contexts | create, dispose, copy on the raster thread, callback of libmpv | three threads, two locks, who is last frees | no use after free; everything is freed |
| **elinux and Linux runners, key tables, device probe, diagnosis, placement, throttled log** | none that outlives a call | | | not modelled |
| **User interface, installer images, CI** | presentation only | | | not modelled |

### How the core parts interact

A caller reads the snapshot (`itemsOf`), builds the items it wants and calls `writeItems` with both. The store puts the save on
the chain of its sync engine, so a save and the pulls and sweeps of the same engine never interleave. The save diffs, opens a
transaction on the remote, runs one guarded statement per changed row and one `config_change` row per logged change, and
commits. A trigger on `config_change` sends a NOTIFY to every station that listens. Rows exempt from history (page images, the
server envelope) leave no change row; for them the saver sends a nudge after the commit. A notified station queues a pull (all
change rows above its watermark) or reads the named rows. Every apply goes the same way: swap the snapshot, write the mirror
(or note the rows as dirty), tell the listeners, and, for a pull or a full sweep, advance the watermark in memory and on disk.
A timer sweeps every revision each five minutes, which finds what no notification and no watermark can.

In the runner everything is decided on the **platform thread**. A **timer thread** sends it a tick (`SendMessageTimeout`) and waits
for the answer, for a limited time; stopping the timer makes the platform thread wait for the timer thread in turn
(`DeleteTimerQueueTimer`). The **raster thread** calls a next-frame callback that posts a message. A **reader** takes stderr off a pipe, forwards
it and feeds the storm detector, which posts a message when it has seen a storm; where stderr goes to a second pipe, a **pump**
carries it on. A tick, a posted message, a session change, a power event and a failed frame all end in one place, the gate; what
it lets through rebuilds the engine, and what it queues is released by the start-up that completes or by a later tick.

The plug-ins have a queue each: method calls run on the platform thread, which posts to CEF's UI thread; render processes send
messages to that thread; it answers through result objects that belong to the platform thread. libmpv calls back under a lock
of its own and marks a texture, the raster thread copies it, and the plug-in's destructor waits for both.

## Modules

| Module | What it is |
|---|---|
| `ConfigStore` | store, sync engine, notification channel, attachment, restarts and the cut-over of a kind; parameterised by stations, entities, kinds and bounds. Ends with the refinement mapping to `ReplicatedConfig` |
| `ReplicatedConfig` | the abstract promise: versions that only move forward, and a write only by who has seen the newest of what it moves |
| `MCConfigStore` | the instances of `ConfigStore` that TLC checks |
| `RebuildGate`, `SessionPolicy`, `DartLiveness`, `GpuWatchdog` | the four deciding classes of the runner, as values and operators from value to value |
| `FlutterWindow` | the window that composes them, with its timer thread, the engine and the message queue |
| `LogRotation`, `EglStorm`, `DragDrop` | the plan of a rotation, the storm detector, the reference counts of a drop target, as values and operators |
| `RunnerProcess` | one station over several starts, composed of these three with the streams, threads and crashes of a process |
| `JsBridge`, `WebView` | the script bridge of a render process; the web view that composes several of them |
| `CefCache`, `VideoOutput`, `WValue` | cache preparation, video, the values of the method channel |
| `Embedded` | the four plug-in modules side by side, for one run |
| `ConfigStoreProofs`, `ConfigStoreSafety`, `ConfigStoreMirror` | the proofs about `ConfigStore`: types, history and cut-over; updates, revisions and the promise; mirror, listeners and watermark |
| `FlutterWindowProofs` | the proofs about `FlutterWindow` and the values it is composed of |
| `RunnerProcessProofs` | the proofs about `RunnerProcess` with `LogRotation`, `EglStorm` and `DragDrop` |
| `WebViewProofs`, `WValueProofs` | the proofs about `WebView` with `JsBridge`, and about `WValue` |
| `EmbeddedProofs` | the proofs about `CefCache` and `VideoOutput`, and those about `Embedded` with all its parts |

### ConfigStore and the code

A step is the code between two awaits. Everything another station, another statement, the server or a crash can do at an await
may happen between two steps.

| Model | Code |
|---|---|
| `rows`, `log`, `nextId`, `migrated` | tables `config_item` and `config_change` with its SERIAL id, and the marker rows, in Postgres |
| `snapshot`, `dirty`, `watermark` | `_snapshot`, `_mirrorDirty`, `_watermark` |
| `mirror`, `persisted` | the shared rows and the watermark row of `config.sqlite` |
| `attached`, `current`, `chan`, `pending` | `_remote` and `_sync`; the state of the LISTEN subscription; what is on the wire or queued on the chain |
| `task[s][g]` | what engine `g` of station `s` is in the middle of, with its local variables |
| `localQ` | the local database serialises its transactions: mirror writes land in the order they were issued |
| `draft`, `view` | an operator's edit with the rows it was derived from; what the listeners of the change stream last read |
| `PullLog`, `PullKinds`, `ReadMarkers`, `ReadItems`, `Apply`, `WriteMirror`, `Advance` | `_pull` and `_apply` from await to await |
| `RepairMirror`, `SweepMax`, `SweepRevs`, ... | `_reconcileKinds` from await to await |
| `StartSave`, `ExecStatement`, `Conflict`, `Deadlock`, `Commit`, `Acknowledge`, `WriteMirror`, `Nudge` | `_writeItems` |
| `Abandon`, `LoseLink`, `Fault("mirror")`, `ChannelDrop`, `Restart`, `Detach`, `Attach` on an attached station | what may fail or stop, one fault of the bound each |

A station has two engines: the one it is attached with, and the last one it let go of, because `stop` does not wait for a task
in flight. Two of these may run at the same time, and that is what the re-attach runs are about.

`ver` in a row (the number of writes of its entity) and `late` in a change row are ghosts: no guard reads `late`, and the only guards
that read `ver` are the two named bounds below (`MayCreate`, `Migrate`).

What the data is reduced to: an entity is one shared (kind, id); content, position and sort key together are one member of
`Value`; who changed it, when and why is left out; the statements of a save run in the order of the code (inserts, updates,
deletes, each by kind and id, which `Rank` orders). An insert first asks whether the row is there; when it appears
between the question and the insert, the server reports a unique violation and the caller a failure instead of a conflict, hence
the choice in `Conflict`.

### FlutterWindow and the code

A class that decides is a value: its fields are the fields of a record, a method is an operator that returns the new record and what
the method returned. Points in time compared with the clock are kept as what is left until they are reached, counted in
intervals of the probe. A handler of the window is an operator from window to window, and an action applies one of them.

| Model | Code |
|---|---|
| `window` | the members of `FlutterWindow`: engine, probe flag, timer period, phase of the process, with `gate`, `policy`, `live`, `dog` |
| `posted` | messages posted to the window and not yet handled |
| `thread`, `ticks`, `unanswered` | whether the timer thread is sending, the ticks sent and not yet handled, how many sends went unanswered |
| `hung` | the platform thread does not pump messages |
| `Tick`, `LossMessage`, `OnFramePresented`, `RequestEngineRebuild`, `PerformEngineRebuild`, `StartProbe`, ... | the handlers and methods of those names, whole, with every call they make; whether an engine can be created, an action throws, or the timer queue refuses a period are arguments |
| `TimerFires`, `HandleTick`, `SendTimesOut`, `TimerStopped` | the timer callback with its `SendMessageTimeout`, and `StopWatchdogTimer` as a wait |
| `HandlePosted`, `LoopEnds` | the message loop of `main.cpp`, after WM_QUIT as well |

What a graphics device, the desktop, the operator and Dart do is an event: a device is lost or comes back, a session disconnects and
reconnects, the machine sleeps, the display changes, the window is closed, the engine draws or does not.

### RunnerProcess and the code

| Model | Code |
|---|---|
| `disk`, `boot` | the log files by generation, each the number of the start that wrote it; the number of this start |
| `proc`, `station` | steps of `wWinMain` and what it has set up, with what Windows has of the request to be restarted; what outlives the process (who started it, was it closed, is a file held open) |
| `threads` | where each thread is: writing a line, waiting for the log mutex or for room in a pipe, faulting, reporting |
| `pipe`, `chunk`, `pump`, `paused` | text in the stderr pipe, the piece its reader holds, the pipe behind it, a console in selection mode |
| `storm`, `drop` | the detector beside a detector that is given whole lines; the drop targets |

A process can be killed between any two steps, crashes on two threads at once, and is started again by Windows (when its request was granted, is not
withdrawn, and it lived long enough) or by the operator. Windows may refuse the request, and its withdrawal.

### The plug-ins and the code

| Model | Code |
|---|---|
| `view`, `answers`, `inbox` | a Dart controller with its browser, how often each call was answered, the requests of pages the application was told of (`webview_plugin.cc`) |
| `ui`, `page`, `wire`, `bridge`, `js` | tasks posted to CEF's UI thread, what a browser shows, messages to and from render processes, their bridges, the callbacks the handler keeps (`webview_handler.cc`, `webview_js_handler.cc`) |
| `ran`, `web` | a ghost: the callbacks run, by which answer, on a page that lives or not; whether the process runs, stopped or crashed, and the counters of the bounds |
| `file`, `dir`, `inst`, `sweep` | lock, cookie and socket link; socket directories; other instances; where the sweep is, and whose probe failed (`cef_cache_paths_host.cc`) |
| `out`, `outputs`, `mpv`, `shutting`, `raster`, `marking` | every output made, the map of the plug-in, whether libmpv was found, a shutdown under way, what the raster thread and libmpv's callbacks are in the middle of |
| `heap`, `held` | values with count and members, and how many references their callers hold, some of them for good (`webview_value.cc`) |

The builds of this repository paint in software: nothing defines `WEBVIEW_CEF_GPU_TEXTURE`, and the accelerated path is left out.
Where the platform thread and CEF's UI thread meet in one unlocked map (`Collide` in `WebView`), the step may do anything up to
ending the process.

## Bounds

### The configuration

`MaxEdits` edits begin, `MaxFaults` things go wrong, of the kinds `Faults` allows. `Editor` and `Sweeper` say at which stations somebody
edits and the timer fires. `Author` and `Reuse` say that an id generated by a station is created by that station and not again
after a deletion; the run `reused_id` lifts this. `Attach` waits until the engine before the last one has ended its task. `Migrate`
happens only while no row of its kind was written. Two stations are enough for every race of a save with another
save, since a third only repeats the part of the second; two entities for the order of two statements, a lock cycle, and change
rows that commit out of order; two contents for a value that changes under a revision.

### The runner and the plug-ins

Limits that are settings of the code are CONSTANTs. `runner` takes small ones, so that each is reached, alone and with the
others: `Debounce`, `StartupTimeout`, `Probation`, `ProbeInterval`, `LossWindow` and `MaxLosses` 1, `RasterFailures`, `MaxProbeInterval`,
`MissedProbes`, `MaxAttempts`, `HoldCap` and `WedgeAfter` 2. `MaxEvents` (2) counts what comes from outside, `MaxPosted` (1) the
posted messages waiting at a time; two events are enough for one thing that goes wrong while another is being dealt with, and ticks, answers
and posted messages are not counted. `queued_exit` takes the limits the code ships with (a start-up may take 36 intervals, 5 attempts,
a hold of 48, 12 unanswered sends) and one event.

`process`: four starts and two archives, so that a log lives through its whole time and falls off; two threads that log and
crash; a request to be restarted is refused only in starts in which nothing crashes (`ChattyBoots`); two lines in the start that writes much; a pipe of four symbols read two at a time, so that every cut of a message
occurs; a storm of two matches; two drop targets.

`embedded`: two views over two render processes, two pages, two requests and two replies, of which a call that measures, evaluates or visits
takes one (the two touch different maps); a page reports an evaluation early only while nothing else waits for the UI thread or for its
renderer and no page has asked; one other instance and one stranger at the cache, any of whose probes may fail; two players and three outputs, so that an output is made while the last one is released; four values in lists of one
item and maps of two. `CefCache` assumes `StartTime + ProbeTime < FreshGrace`: an instance that starts is seen before the grace the code
gives to fresh files is over. That is what the comment on the grace in `cef_cache_paths.h` (148-154) relies on, too.

## Runs

| Run | Question | Size |
|---|---|---|
| `races` | two editors, two entities, notifications, nothing fails | 0.44 million states |
| `faults` | one entity, two editors, sweeps, one fault of any kind but a detach | 1.35 million |
| `cutover` | a kind in rows and one still a blob, a station never attached before, a detach or re-attach at any moment | 2.5 million |
| `converges` | fair scheduler, a logged and an exempt kind, a lost read or connection | 0.05 million, liveness |
| `lock_cycles` | two stations save the same two rows in opposite orders | 0.015 million, liveness |
| `runner` | the window, its timer thread and its parts, two events in every order with ticks and messages | 0.75 million, with liveness |
| `process` | a station over up to four starts: rotation, pipes, crashes, closes, restarts | 1.07 million, with liveness |
| `embedded` | each plug-in against its foreign engine | 0.93 million, with liveness |
| `reused_id` | **violated**: a revision names one content | |
| `stopped_sweep` | **violated**: the watermark claims only what was applied | |
| `lost_commit` | **violated**: a refused save committed nothing | |
| `queued_exit` | **violated**: a queue that drains does not use up the recovery attempts | |

What the properties say of the configuration:

- `NoLostUpdate`: what a transaction has replaced so far is the version its author read. The revision guard gives it at the
  statement, the row lock keeps it until the end.
- `RevTellsRowsApart`: equal revisions mean equal content. The sweep compares nothing else.
- `WatermarkClaimsApplied`, `PersistedClaimsMirrored`: every change row behind the watermark is in the snapshot, every change row
  behind the watermark on disk is in the mirror or noted for repair; change rows committed behind a higher id that was
  already visible are excepted, since the code leaves them to the sweep, and `Converges` shows that the sweep finds them.
- `MirrorOrDirty`, `EveryChangeAnnounced`: memory and disk, memory and listeners differ only while the write or the event is on its way.
- `HistoryComplete`: one change row for every write of a logged row, and no other. The guarded statement and the INSERT of its change row
  (`_appendChange`) are one step, since they are in one transaction; a split between the two is not what it is about.
- `UnmigratedKept`: before a kind is migrated, "the remote has none" deletes nothing anywhere.
- `KeepsThePromise`: the whole is a refinement of `ReplicatedConfig`, with the entity versions as the mapping.
- `Converges`, `SavesEnd`: an attached station ends up with what the remote holds, in memory, on disk and at its listeners; a
  save is answered.

Of the runner (`runner`):

- `FrameCallbackArmedOnce`: flag and slot agree through rebuilds, failed rebuilds and exits. The engine calls an empty function
  when a callback is set twice, and a flag that stays set for a callback that is gone ends the probing.
- `WatchingTicks`: a watchdog that has not said it is off has a timer, whatever failed or threw. A change of period that the timer queue refuses
  keeps the old period, and the watchdog is not told.
- `NoEngineAfterQuit`: messages handled between WM_QUIT and the end of the loop make no engine; a closed window has been told to
  withdraw its restart.
- `StartupNotInterrupted`: nobody tears down an engine that starts within its time.
- `RendererWatched`, `QueuedRebuildRuns`: a probe that is out is answered or acted on until the process ends; a queued rebuild is made.
- `StopReturns`: two threads that wait for each other both return.

Of the process (`process`):

- `KeptForItsStarts`: a log lives as many starts as archives are kept, through kills between two renames. It excepts starts that found a file
  held open; see the observations below.
- `DetectorSeesLines`: cut into chunks anywhere, the text leaves the detector where whole lines would.
- `OneCrashRecord`: two faults and a fault in the report leave one record at most. The thread that lost the latch ends the process at once, perhaps before the
  record is written (`crash_handler.cpp` 304); the model has that, and no property forbids it.
- `DropTargetsBalanced`: over rebuilds, no target is released after its end and none is left registered.
- `ClosedStaysClosed`: a crash during the teardown of a closed window makes Windows start it again only if the withdrawal of the restart had
  itself failed, which the code logs (`flutter_window.cpp` 1224) and cannot help.
- `NobodyWaits`: full pipes, the log mutex and a crash with the mutex held all end, unless the operator stops the console for good.

Of the plug-ins (`embedded`):

- `AnsweredOnce`: the second answer would go through a deleted result. A cookie visitor that is called for each cookie, an evaluation whose page goes away or reports twice, and a disposal may each try.
- `ReplyToItsRequest`: an answer runs the callback of its own request, once, on the page that asked, although numbers start again with each process.
- `DisposedViewCloses`: also when the browser is still being made.
- `OwnerSeenIsKept`: what the sweep has seen alive keeps its lock, its link and its directory. It excepts an instance whose files are older than the
  grace and whose own probe failed in the prober: the code takes them; see the observations below.
- `RenderedWhileAlive`, `OutputFreed`: context and pixels outlive whoever uses them, and are freed in the end. The texture of a creation that failed has
  no output from then on (`stray`); that no frame asks for it is an assumption about Dart, which was not told its number.
- `EveryReferenceCounted`: the count of a value is the number of those who hold it, over every constructor, container and look-up.

`CHECK_DEADLOCK FALSE` stands where the system may come to rest: a plant with every edit of the bound made, every station attached, and
no sweep timer that can still fire; a window that has ended; a station after its last start; plug-ins with
every bounded call made.

### Four places where the code does not do what it says

1. **A revision that starts over** (`reused_id`). An insert stores `rev` 1 and a delete takes the row and its revision away. A mapping key
   that is deleted and created again is at revision 1 with other content; a station that held the first one sees no difference in a
   sweep. `blob_migration.dart` (432-435) knows this danger and deletes markers differently because of it.
2. **A stopped sweep that claims the log** (`stopped_sweep`). `_pull` returns before it advances the watermark when the engine
   was stopped; `_reconcileKinds` does not ask. The next attach begins with a full sweep and repairs the station, but a station that
   restarts offline serves old rows behind a watermark that says they were applied.
3. **A refusal that was a commit** (`lost_commit`). When the connection dies between COMMIT and its answer, the save is reported as
   refused because the station is offline. The row is there, and the pull brings it back as somebody's change.
4. **A queue that uses up the attempts** (`queued_exit`). `RequestEngineRebuild` holds the watchdog while a rebuild waits for the start-up of
   the engine, and the comment there (`flutter_window.cpp`, 1003-1007) says that otherwise the watchdog would declare a fresh loss every
   couple of ticks and exit. The hold is asked by `OnTick` only. A removed device is reported through `OnRendererLost`
   (1295-1296, `gpu_watchdog.cpp` 118-134), which counts an attempt each tick, and with the limits the code ships with the process exits
   while the first recovery is still in the queue.

In addition, `serialiseWrite` says that an apply never lands in the middle of a caller's check-then-write. Across a re-attach
it can: the task of the old engine ends beside the first tasks of the new one. The safety runs with `detach` allow this
order of events and show that the compare-and-swap keeps the data right all the same.

### Observations no run is about

Met while reading, stated here for whoever maintains the code; the models take the code as it is.

- Runner: the count in the message of a storm is always 0, since it is read after the detector has reset it (`stderr_interposer.cpp` 81,
  `flutter_window.cpp` 44). A handled crash ends in `TerminateProcess`, so the registered restart does not relaunch it
  (`crash_handler.cpp` 304, `utils.cpp` 310). `ExitProcess(109)` (`flutter_window.cpp` 665) and `return EXIT_FAILURE` (`main.cpp` 150) run the
  module teardown that `shutdown_policy.h` says never runs. A log held open makes the rename fail, and the open that follows
  truncates the newest log (`utils.cpp` 382). A period that `ChangeTimerQueueTimer` refuses is logged (`flutter_window.cpp` 718), and the back-off that
  the watchdog believes in does not happen. Raster and storm messages do not say which engine they are about (`flutter_window.cpp` 1313).
- Web view: evaluations on a browser that is gone or of a script that throws, and unknown methods, are never answered
  (`webview_plugin.cc` 307, 499, 557), nor is a visit to an empty cookie store (`webview_cookieVisitor.cc` 27). `uninitCallback` leaves two handlers and a
  pending task with a pointer to the plug-in (`webview_plugin.cc` 254). `sendKeyEvent` ignores the browser it is given (463). The
  look-up in `GetScreenInfo` puts back an entry with no browser (`webview_handler.cc` 752). A texture buffer is handed out after its lock
  was released (`elinux/webview_cef_texture.h` 30). The fresh values that `create` and `toWValue` pass to `webview_value_append` are never released
  (`webview_plugin.cc` 291-292, 533-539). A page may call `external.StartRequest` with a number of its own choice (`webview_js_handler.cc` 83-111); the
  bridge takes it, and the answers that page then hears may be to another of its requests; the model's pages use the numbers they are given. Two maps
  compare a key of one with a value of the other (`webview_value.cc`, `webview_value_equals`).
- Cache: the comment in `UnixSocketAnswers` (`cef_cache_paths_host.cc` 221-222) has every inconclusive outcome read as an answer, but the function
  returns false when `socket()` fails (213-216), when `poll` fails (238-246) and after any error of `connect` it does not name. A live owner
  whose files are older than the grace then loses them.
- Video: a `create` whose render context is refused, as it is while the player's first context lives, unregisters its texture with no callback to
  keep the output (`video_output.cc` 57) and drops the output (`media_kit_video_elinux_plugin.cc` 138-143), which the texture's closure points to. Only
  that nobody was told the number keeps the raster thread from asking it.
- Parts that are not modelled, hazards known: a Modbus `send` uses its socket after an await (`modbus_client_tcp.dart` 123), the `onDone` of a replaced
  socket disconnects the new one (187), late answers meet reused ids (160), `autoConnectAndDisconnect` closes under other requests (163); a
  disposed M2400 socket can be revived beside its old loop (`msocket.dart` 89); the feedback bus counts from 1 again after a restart
  (`proposal_feedback_bus.dart` 120); the nudge limit counts UTF-16 units (`config_history_policy.dart` 174); a station may die between rows
  and marker of a cut-over (`blob_migration.dart` 267).

## Fairness

`FairSpec` assumes: a step of a task that runs is taken (an await ends, in an answer or in an error that a fault models); a pull, a sweep and a
save that waits for its turn on the chain gets it (strong fairness, since the chain is busy now and then; it is a queue, so nothing overtakes it for
ever); the re-listen timer fires. Nobody has to edit, attach, or migrate, and nothing has to fail. `Converges` is about
stations that stay attached.

`FlutterWindow`: time passes, the timer thread fires and its sends time out, the platform thread takes ticks and posted messages unless
it hangs, creation and the end of the loop go on. Nothing obliges the engine to draw, Dart to report, a hung thread to
recover or an operator to close the window; `RendererWatched` and `QueuedRebuildRuns` hold without that.

`RunnerProcess`: a thread, the reader and the pump that can go on do. Nobody has to end the selection in a console.

`WebView`: CEF's UI thread runs what it is given, and an application that was told of a browser it gave up closes it.
`VideoOutput`: the raster thread ends a copy and runs the unregistrations it was left, a callback of libmpv returns, and a disposal
that has begun goes on (strongly, since it waits for a lock that is free now and then). `CefCache` and `WValue` have safety properties only.

## Proofs

All theorems hold for every value of the constants that their `ASSUME`s allow; the bounds on edits, events and players are constants too.

### The configuration

`ConfigStoreProofs` proves, with no assumption beyond `ConstantsOK` (ids may be used again, engines may be detached), for any number of stations, entities, kinds, contents, edits and faults:

- `TypeCorrect`: `Spec => []TypeOK`.
- `TypesInvariant`: `Spec => []TypeInv`, the inductive invariant it follows from. `TypeOK` alone is not inductive: the watermark takes
  the greatest id of the change rows a pull finds, and `Max` of a set is a number only if the set has a greatest member.
  So `TypeInv` adds `IdsBelowNext`: each id in the log, or in a transaction that has not ended, is below the next value of the sequence. A nonempty
  set of numbers below a bound has a greatest member (`MaxIsMember`, from the well-foundedness of the natural numbers), and
  the rest is one lemma per group of actions.
- `HistoryIsComplete`: `Spec => []HistoryComplete`. The invariant adds `Accounted` (an open transaction carries one change row for each logged
  row it has written, with the version it is going to have) and `Exclusive` (two transactions hold no row in common), so that a commit
  moves row and history on together.
- `UnmigratedStaysKept`: `Spec => []UnmigratedKept`. A kind is bare (`Bare`) as long as it has no marker and none of its rows was ever
  written. The property speaks of memory and disk alone, but what empties them is read several steps earlier, so `BlobInv` follows the reads: while a
  kind is bare, an established station holds what its blob gave it (`CopiesSpared`); the sweep that finds the remote
  without rows makes the kind a suspect, and without the marker it is refused, so no task takes a row of a bare kind past that
  point (`Spares`); and a pull or a nudge cannot bring one, since what they name was written (`RowsExist`). A kind stops being
  bare once and for all, also in the middle of a task: what a task spared before, it spares after (`StaysSpared`).

`ConfigStoreSafety` proves two safety invariants, from `ConstantsOK` and the one further assumption `~Reuse` (an id is not used
again after its row was deleted):

- `NoUpdateIsLost`: `Spec => []NoLostUpdate`.
- `RevisionsTellRowsApart`: `Spec => []RevTellsRowsApart`. The assumption is needed here: `reused_id` shows what happens without it.
- `SafeInvariant`: `Spec => []SafeInv`, the inductive invariant both follow from. Neither is inductive alone. A statement compares
  revisions, and `NoLostUpdate` speaks of versions, so the two have to be known to agree: in the row (`RowsCount`), and in
  every copy of it in a snapshot, a mirror, an edit, or what a task has read and not applied yet (`CopiesEverywhere`: a copy is not newer than
  the row, and has its content when it is as new). The agreement survives a commit because a transaction writes base + 1 over a row that is
  still at base, which is `NoLostUpdate` at the moment of the commit; that holds from the statement to the commit because a row has one
  writer at a time (`LocksExclude`) and a station one save (`OneSave`). An insert stores 1, which counts the writes only when the
  entity never had any (`CreatedOnce`). `SafeInv` is preserved by one lemma per group of actions; `OutsideTransaction` does the part
  the steps share that neither lock nor commit, the stops, re-attaches and failures among them.

It also proves the refinement, from `~Reuse` and `NoDetach` (the faults do not include `detach`, under which a station that runs is detached or attached elsewhere):

- `PromiseIsKept`: `Spec => KeepsThePromise`. Initial states map to initial states, and every step is a write of versions its station has
  seen the newest of, a station that sees or keeps something newer, a restart, or a stutter. The invariant is `SafeInv` with
  `SoleTask` (only the attached engine of a station is in the middle of a task), `Forward` (disk, memory and remote have each seen at most what the
  next has, and an edit was derived from what memory has seen) and `InHand` (what a task has read and not applied is not older than what it replaces).
- `NoDetach` is needed. A save of the engine before a re-attach may be committed and its answer still on the way (`_writeItems`, 880-905) while the new
  engine sweeps and applies what another station wrote since; the answer then puts the older row back in memory, until the next
  sweep. TLC finds it with the constants of `faults` but `Faults = {"detach"}`; the row on the remote is not harmed, for the next edit of the older
  row is refused by its revision.

`ConfigStoreMirror` proves:

- `ChangesAreAnnounced`: `Spec => []EveryChangeAnnounced`, for every fault. An announcement reads the memory when it is made, so two engines of a
  station may announce in either order; the invariant `AnnounceInv` adds only that a committed save announces all it has written.
- `MirrorIsKept`: `Spec => []MirrorOrDirty`, from `NoDetach` or from `NoFailedWrite` (no write of the local database fails), with an invariant for each.
  Under `NoDetach` it is `MirrorInv`, that is `SoleTask` and `Carrying`: a task that is at a mirror write or a repair carries what the memory has, and
  a repair carries just the rows that are noted. Under `NoFailedWrite` two engines may be at a mirror write at the same time and the older
  one carries rows the memory has no more. There it is `LandInv`: the local database takes the writes in the order they were issued, and the last one
  on its way to a row carries what the memory has of it.
- One of the two is needed. `_repairMirror` (`config_store.dart`, 1028-1045) takes the noted rows, awaits the write and then clears every note, although its
  comment says that a failure leaves its keys noted. The engine before a re-attach may still be at a mirror write of its own; if that one
  fails during the repair, its note goes with the others, the row is not in the mirror, and no sweep will write it, because a sweep
  compares the remote with the memory. TLC shows it with one station, two entities with rows, two edits, `Faults = {"detach", "mirror"}` and three
  faults. No run is about it: it came up in looking for a proof under re-attaches.

It also proves, from `~Reuse`, `NoDetach` and `DiskOrCrash` (mirror writes fail or stations crash, not both):

- `WatermarkIsHonest`: `Spec => []WatermarkClaimsApplied`, and `DiskIsHonest`: `Spec => []PersistedClaimsMirrored`. Neither is inductive: a
  pull reads the log, the markers and the rows in three statements while others commit, and claims at the end what it saw at the
  beginning. The invariant `WatermarkInv` says why that is sound. What a task may claim is settled when it reads it (`Bounded`: a change row that
  is not committed yet and has a number that low will be late, since somebody's higher number is visible); what it reads after that is
  not older (`Newer`), what it passes over the memory has (`Covered`), and a row it read as deleted stays deleted (`Gone`, for
  which ids must not be used again). It rests on the four invariants above.
- `DiskOrCrash` is needed. `_applyRemoteState` (`config_store.dart`, 995-1003) notes a failed mirror write in `_mirrorDirty`, in memory only, and `_advanceWatermark`
  (1062) stores the watermark nevertheless. A crash before the repair takes the note along; the next boot without the remote serves
  the old row behind a watermark that claims the new one, until the sweep after the next attach. TLC shows it with
  `Faults = {"mirror", "crash"}` and two faults; the project's runs allow one fault, and no line of the repository says otherwise.

### The window

`FlutterWindowProofs`, for every setting of the limits and any number of events:

- `CallbackArmedOnce`: `Spec => []FrameCallbackArmedOnce`, and `NoEngineOutlivesTheQuit`: `Spec => []NoEngineAfterQuit`, both from `WindowInvariant`. A handler is a
  composition of operators, so the proof follows the code: one lemma per operator says what of a sound window it keeps, and the
  lemma of a handler cites those of what it calls.
- `StartupIsNotInterrupted`: `Spec => StartupNotInterrupted`, an action property. The gate of an engine that still starts lets no request through, and
  no handler before the request moves the gate out of that state; both are lemmas about the operators, composed as above.
- `WatchdogTicks`: `Spec => []WatchingTicks`, from `WatchInvariant`. The timer is changed by the handlers alone, so what is shown of each (`Watches`)
  is that it hands on `Alert`: a running window whose watchdog is enabled and not disabled has a period, and a window that
  stops the timer for good has disabled the watchdog. The hard cases are failed or throwing re-arms, where the period goes to zero and
  the watchdog is told so in the same handler.
- `WindowTypeCorrect`: `Spec => []TypeOK`, from `QueueInvariant`. That the unanswered sends stay within their range is not a matter of types: `TicksCounted`
  ties the ticks in the queue to the sends that timed out and to the one under way.
- `BackoffInRange`: the delay asked for after any number of restarts lies between the probe interval and its maximum. `BackoffMs` is a loop, in the
  model a recursive function, and the proof takes the least number of doublings for which the claim fails. The model's numbers do not
  overflow, which is true of the code's as long as the maximum is below 2^31 ms.

### The runner process

`RunnerProcessProofs`, for any number of starts, archives, threads and lines, and any sizes of pipe and read; `NeedlesFit` is the one assumption that
is not about ranges: the carry of the storm detector has room for both needles, which the comment at `kMaxCarryBytes` claims. Each
property has an invariant of its own, over the common types.

- `ProcessTypes`, `ProcessTypesChecked`: `Spec => []TypeInv` and `Spec => []TypeOK`.
- `LogsKeptForTheirStarts`: `Spec => []KeptForItsStarts`. In the middle of a rotation some files have moved and others have not, and a kill leaves it so; the next
  start begins again from the top. `RotationInv` says that the steps left are those of the plan from some generation downwards
  (`Remaining`), and that each log still owed lies no further than the starts since have moved it, with a place to
  spare if this rotation is still to move it (`Placed`).
- `StormSeesLines`: `Spec => []DetectorSeesLines`. `StormInv` has two parts: what was read of a line, what the reader holds and what is in the pipe
  are one text of whole lines (`WholeLines`), wherever it is cut; and the detector with its carry is where one that is given whole lines
  is (`Agrees`). That feeding a chunk is feeding its symbols is a lemma about the fold, by the least prefix for which it fails.
- `CrashReportedOnce`: `Spec => []OneCrashRecord`. `CrashInv`: at most one thread is in the report, the latch is its, and every record so far is of this thread.
- `TargetsBalanced`: `Spec => []DropTargetsBalanced`. `DropInv`: a running process holds one target, twice (its own reference and the registration); any other holds none.
- `ProcessStaysClosed`: `Spec => ClosedStaysClosed`, an action property, from `CloseInv`: a closed window, and a station whose last window was closed, has no
  request that nobody tried to withdraw.

### The embedded browser

`WebViewProofs`, for any finite number of views and calls (told apart: `Views \cap Questions = {}`), any processes, pages and requests.

- `CallsAnsweredOnce`: `WebSpec => []AnsweredOnce`. `Unanswered`: a call that a task on the UI thread or a callback of a cookie visitor is going to answer has not been
  answered, and nothing else will answer it.
- `RepliesReachTheirRequests`: `WebSpec => []ReplyToItsRequest`. Request numbers start again with each process, and a page may be gone when
  its answer comes. `Numbered`: in one process a number stands for one request wherever it is met, on the UI thread, at the application, on the wire or
  with the callback. `Waiting`: a request waits in one place, on a page that lives, until its callback has run.
- `WebTypesInvariant`: `WebSpec => []WebTypes`, and `WebTypeCorrect`: `WebSpec => []WebTypeOK`, which says more, that no page or callback names a
  page beyond the bound. That is no matter of types: a page is loaded for a task that asked for one, so `LoadInv` counts the tasks on the UI
  thread that are still to load one together with the pages that are, and follows the numbers of the pages over the wire and into the callbacks.

### The values of the method channel

`WValueProofs`, for any values, any lengths of lists and maps, any depth and any number of references a caller may hold (at least one):

- `ReferencesAreCounted`: `ValueSpec => []EveryReferenceCounted`, from the invariant `Counted(heap, held, {})`, in which lists and maps have also the
  shape of their kind (`WellShaped`). That is what holds between two calls. In the middle of one it does not: a reference
  was taken and not stored yet, or a stored one was given up and its place is still to be overwritten. So what the lemmas are about is
  `Counted(hp, owed, X)`: the count of a value is what is owed of it plus the places that hold it, those in `X` excepted. Every operation is
  a lemma that says how it changes `owed`, and a call of the program is a chain of such lemmas that begins and ends without `X`.
- The hard one is `webview_value_unref`, which goes down into lists and maps and may meet a value many times. `GivesUp(u, n)` says of a depth what it
  does: it takes one from what is owed, counts everything right, and leaves alone the values that stand (`Standing`: each is owed still, or is held by
  another that stands). The step from one depth to the next goes over what the freed value held, one item after the other: once it is gone, each
  of its places is a reference that somebody owes (`Due`). A depth that is no less than the number of values that live is enough, for a call frees one
  before it goes down.
- `webview_value_set_take` gives up the key and the value it replaces while the map that holds them stays: what must not be freed under it
  is the map and what leads to it, which `Rooted` has among the values that stand. For this a value may not be put into itself (`Takes`); the
  code has no guard, its callers do not do it.
- `decode_to_wvalue` and the events are loops, `Through` in the model. `Loaded` and `Telling` say what of them is true after each item.
- `ValueTypeCorrect`: `ValueSpec => []ValueTypeOK`.
- `Unref`, `Equals` and `Through` are recursive functions, over depths and over items. Induction as a scheme for formulas is nothing the provers
  can instantiate, but it can be stated of sets: a set of numbers with zero and all successors has all of them (`AllNumbers`), and the depths for
  which a claim holds are a set. That the functions are what their definitions say is shown from their finite beginnings (`Walk`, `Endless`).

### The browser's cache, video, and all of them

`EmbeddedProofs`. Of the cache, for any instances, any ages and graces with `StartTime + ProbeTime < FreshGrace <= DirGrace <= MaxAge`, and owners that
are not the three reserved names of the model:

- `CacheTypeCorrect`, and `OwnerSeenKeepsItsFiles`: `CacheSpec => []OwnerSeenIsKept`, with the exception the property states. The sweep looks at the link, connects, reads ages, lists and deletes, in
  steps, and instances start, bind and die between them. `CacheInv` says for each step what is known of an instance met: its files are there and
  no older than its start (`KeepsItsFiles`); it answered, or it bound after the look and its lock is young (`Seen`, which is
  where the first inequality is used); the directory judged is the one the link led to (`Target`); the plan has nothing of it (`Planned`). An instance whose probe fails is protected
  by the age of its files alone, and is no longer counted as met where that is not enough.

Of video, for any players and outputs:

- `VideoTypeCorrect`, and `OutputsRenderedWhileAlive`: `VideoSpec => []RenderedWhileAlive`. The invariant `VideoInv` counts who holds a reference (`RefsCounted`), ties
  textures (`Registered`) and the map (`Mapped`) to it, says how far a shutdown has come (`ShutDown`), and which output the raster
  thread and libmpv's callback are at (`Drawing`, `Marking`). A stray texture is in none of these, since no copy begins on it.

Of `Embedded`, the specification the run checks:

- `EmbeddedTypeCorrect`: `Spec => []TypeOK`, and `PluginsSafe`: `Spec =>` the five safety invariants. A behaviour of the plug-ins side by side is one of
  each (`PartsRun`), so the theorems of the parts are cited, and nothing is shown twice.

### Model-checked only

- Liveness (`Converges`, `SavesEnd`, `RendererWatched`, `QueuedRebuildRuns`, `StopReturns`, `NobodyWaits`, `DisposedViewCloses`, `OutputFreed`): no prover at hand reasons about
  fairness or ENABLED.
- `MirrorOrDirty`, `KeepsThePromise` and the two properties of the watermark when stations are detached while they run: there are no such
  theorems without a further assumption. For the watermark `stopped_sweep` shows it, for the mirror (where no failed write is enough) the
  forgotten note, for the promise the late answer of the engine before.

## Plan

What is left, in this order:

1. Proofs: the watermark under detaches that stop no sweep.
2. `BlobMigration`: the cut-over with its advisory lock, its failures and leftovers, two stations and a crash, implementing the one step `Migrate`
   of `ConfigStore`.
3. Pure algorithms: fractional sort keys, the three-way merge, the plan of an undo, the encoding of a nudge, as
   recursive functions against their definitions over bounded inputs.
4. `ModbusTcp`: connections, concurrent requests by transaction id, timeouts, late answers, disconnects.
5. `FeedbackBus` (ring, cursors, parked callers), `MSocket` (reconnect loop), `Session` (expiry and inactivity), the alarm state machine, the
   version manager's update sequence.

Not modelled, and why: drawing, widgets and chat hold nothing that is shared between processes; OPC UA is a native library that is not in
this repository; the elinux and Linux runners are templates of the Flutter tool around the plug-ins above; key tables, diagnosis and placement compute
a value from a value; OS images, CI and installer scripts are build steps; SQL generation and schema upgrades are data definitions.
