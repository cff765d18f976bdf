--------------------------- MODULE SessionPolicy ---------------------------
(***************************************************************************)
(* session_rebuild_policy.cpp of the Windows runner: what a remote         *)
(* disconnect or connect means for the renderer.  A disconnect defers, a   *)
(* connect gives the renderer a probation in which one frame keeps it, and *)
(* rebuilds at once on evidence or where nothing else would see the loss.  *)
(* A policy is a value, its operators are the methods of the class; its    *)
(* suspicion of the renderer (suspect_) only words the log and is left out.*)
(***************************************************************************)
EXTENDS Naturals

CONSTANT Probation    \* config_.reconnect_probation_ms

ASSUME SessionConstants == Probation \in Nat

SessionState == [probation : BOOLEAN,
                 probation_left : 0 .. Probation,
                 storm_detector : BOOLEAN]

NewSession == [probation |-> FALSE, probation_left |-> 0,
               storm_detector |-> FALSE]

AgeSession(p) ==
  [p EXCEPT !.probation_left = IF @ > 0 THEN @ - 1 ELSE 0]

\* What is known of an adapter: NoAdapter when it was not reported.
ClassifyAdapterCheck(NoAdapter, engine, current) ==
  IF engine = NoAdapter \/ current = NoAdapter THEN "unknown"
  ELSE IF engine = current THEN "same" ELSE "changed"

Answered(p) == [p EXCEPT !.probation = FALSE, !.probation_left = 0]

SessionEngineCreated(p) == Answered(p)

\* Ends a probation nobody is looking at any more.
OnRemoteDisconnect(p) == Answered(p)

OnRemoteConnect(p, adapter) ==
  CASE adapter = "changed" \/ ~p.storm_detector ->
         [policy |-> Answered(p), rebuild |-> TRUE]
    [] adapter # "changed" /\ p.storm_detector /\ p.probation ->
         [policy |-> p, rebuild |-> FALSE]
    [] OTHER ->
         [policy |-> [p EXCEPT !.probation = TRUE,
                               !.probation_left = Probation],
          rebuild |-> FALSE]

SessionFrame(p) == IF p.probation THEN Answered(p) ELSE p

ProbationOver(p) == p.probation /\ p.probation_left = 0

SessionTick(p) == IF ProbationOver(p) THEN Answered(p) ELSE p
=============================================================================
