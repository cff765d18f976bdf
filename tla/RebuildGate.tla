---------------------------- MODULE RebuildGate ----------------------------
(***************************************************************************)
(* engine_rebuild_gate.cpp of the Windows runner: whether a request to     *)
(* rebuild the Flutter engine is a duplicate, waits for the startup of the *)
(* current engine, or is answered now.                                     *)
(*                                                                         *)
(* A gate is a value; the operators are the methods of the class.  The     *)
(* code keeps points in time and compares them with GetTickCount64(), a    *)
(* gate here keeps what is left until each of them is reached, in the      *)
(* units of GpuWatchdog: now - then < limit is left > 0.  The reason of a  *)
(* request and the number of requests folded into one are only logged.     *)
(***************************************************************************)
EXTENDS Naturals

CONSTANTS
  Debounce,         \* config_.debounce_ms
  StartupTimeout    \* config_.startup_timeout_ms

ASSUME GateConstants == Debounce \in Nat /\ StartupTimeout \in Nat

Gate == [startup_in_flight : BOOLEAN,
         startup_left : 0 .. StartupTimeout,  \* the startup may still block
         debounce_left : 0 .. Debounce,       \* ever_rebuilt_, last_rebuild_ms_
         queued : BOOLEAN]

NewGate == [startup_in_flight |-> FALSE, startup_left |-> 0,
            debounce_left |-> 0, queued |-> FALSE]

\* One unit of time off what is left.
Less(left) == IF left > 0 THEN left - 1 ELSE 0

AgeGate(g) == [g EXCEPT !.startup_left = Less(@), !.debounce_left = Less(@)]

GateEngineCreated(g) ==
  [g EXCEPT !.startup_in_flight = TRUE, !.startup_left = StartupTimeout]

\* startup_started_ms_ means nothing once the startup is over.
GateStartupComplete(g) ==
  [g EXCEPT !.startup_in_flight = FALSE, !.startup_left = 0]

\* A startup that never reports complete blocks for ever.
StartupBlockingForEver(g) == g.startup_in_flight

StartupBlocking(g) == g.startup_in_flight /\ g.startup_left > 0

Release(g) == [g EXCEPT !.queued = FALSE, !.debounce_left = Debounce]

\* The gate that only debounces.
GateRequestDebounced(g) ==
  IF g.debounce_left > 0 THEN [gate |-> g, verdict |-> "debounced"]
  ELSE [gate |-> Release(g), verdict |-> "rebuild"]

\* The debounce comes first: a duplicate never reaches the queue.
GateRequest(g) ==
  CASE g.debounce_left > 0 -> [gate |-> g, verdict |-> "debounced"]
    [] g.debounce_left = 0 /\ StartupBlocking(g) ->
         [gate |-> [g EXCEPT !.queued = TRUE],
          verdict |-> IF g.queued THEN "coalesced" ELSE "queued"]
    [] OTHER -> [gate |-> Release(g), verdict |-> "rebuild"]

PollReleases(g) == g.queued /\ ~StartupBlocking(g)

GatePoll(g) ==
  IF PollReleases(g) THEN [gate |-> Release(g), verdict |-> "rebuild"]
  ELSE [gate |-> g, verdict |-> "idle"]
=============================================================================
