---------------------------- MODULE DartLiveness ----------------------------
(***************************************************************************)
(* dart_liveness.cpp of the Windows runner: what the stamps of the UI      *)
(* isolate say of the renderer.  A watch is a value, its operators are the *)
(* methods of the class.  The other verdict of the class, that the isolate *)
(* has gone silent, is only written to the log and left out.               *)
(***************************************************************************)
EXTENDS Naturals

CONSTANT RasterFailures    \* config_.raster_failures_before_loss

ASSUME LivenessConstants == RasterFailures \in Nat \ {0}

\* stamped: this unit of time had its stamp (config_.expected_interval_ms is
\* two units).
Watch == [raster_failures : 0 .. RasterFailures, raster_lost : BOOLEAN,
          stamped : BOOLEAN]

\* A new generation of the engine starts without a record.
EpochStarted ==
  [raster_failures |-> 0, raster_lost |-> FALSE, stamped |-> FALSE]

AgeWatch(l) == [l EXCEPT !.stamped = FALSE]

\* A stamp of another generation proves nothing about this one, and a stamp
\* that did not probe neither adds to a run of failures nor ends it.  The
\* count, which the code lets grow, stops mattering at RasterFailures.
OnStamp(l, ours, probed, ok) ==
  LET n == IF l.raster_failures < RasterFailures
           THEN l.raster_failures + 1 ELSE RasterFailures
      heard == [l EXCEPT !.stamped = TRUE]
  IN CASE ~ours \/ ~probed -> heard
       [] ours /\ probed /\ ok ->
            [heard EXCEPT !.raster_failures = 0, !.raster_lost = FALSE]
       [] OTHER ->
            [heard EXCEPT !.raster_failures = n,
                          !.raster_lost = @ \/ n >= RasterFailures]

\* The verdict "lost" is given once, by the stamp that reaches the limit.
RasterLost(l, m) == ~l.raster_lost /\ m.raster_lost
=============================================================================
