----------------------------- MODULE GpuWatchdog -----------------------------
(***************************************************************************)
(* gpu_watchdog.cpp of the Windows runner: when the absence of frames, or  *)
(* a positive report, means the renderer is lost, and what is done about   *)
(* it.  A watchdog is a value; a method that returns an Action is an       *)
(* operator that returns the new watchdog and the action.                  *)
(*                                                                         *)
(* Time is counted in units of ProbeInterval; a watchdog keeps what is     *)
(* left until a limit is reached (see RebuildGate).                        *)
(***************************************************************************)
EXTENDS Naturals

CONSTANTS
  ProbeInterval,       \* config_.probe_interval_ms
  MaxProbeInterval,    \* config_.max_probe_interval_ms
  MissedProbes,        \* config_.missed_probes_before_recovery
  MaxAttempts,         \* config_.max_recovery_attempts
  LossWindow,          \* config_.loss_window_ms
  MaxLosses,           \* config_.max_losses_in_window
  HoldCap              \* config_.max_judgement_hold_ms

ASSUME WatchdogConstants ==
  /\ ProbeInterval \in Nat \ {0} /\ MaxProbeInterval \in Nat
  /\ ProbeInterval <= MaxProbeInterval
  /\ MissedProbes \in Nat \ {0} /\ MaxAttempts \in Nat \ {0}
  /\ LossWindow \in Nat /\ MaxLosses \in Nat \ {0} /\ HoldCap \in Nat \ {0}

LossPolicy == {"restart", "exit", "log"}    \* LossAction

Watchdog == [on_loss : LossPolicy,
             disabled : BOOLEAN,
             probe_outstanding : BOOLEAN,
             missed : 0 .. MissedProbes,
             reported : BOOLEAN,                 \* reported_loss_
             attempts : 0 .. MaxAttempts,        \* recovery_attempts_
             losses : 0 .. MaxLosses + 1,        \* losses_in_window_
             window_left : 0 .. LossWindow + 1,  \* window_open_ and its start
             holding : BOOLEAN,
             hold_left : 0 .. HoldCap,
             hold_expired : BOOLEAN]

NewWatchdog(policy) ==
  [on_loss |-> policy, disabled |-> FALSE, probe_outstanding |-> FALSE,
   missed |-> 0, reported |-> FALSE, attempts |-> 0, losses |-> 0,
   window_left |-> 0, holding |-> FALSE, hold_left |-> 0,
   hold_expired |-> FALSE]

AgeWatchdog(d) ==
  [d EXCEPT !.window_left = IF @ > 0 THEN @ - 1 ELSE 0,
            !.hold_left = IF @ > 0 THEN @ - 1 ELSE 0]

\* What the host is asked to do; period 0 leaves the timer alone.
Action == [exit : BOOLEAN, restart : BOOLEAN, probe : BOOLEAN, period : Nat]

Nothing == [exit |-> FALSE, restart |-> FALSE, probe |-> FALSE, period |-> 0]
Probe == [Nothing EXCEPT !.probe = TRUE]

OnStarted(d) ==
  [dog |-> [d EXCEPT !.probe_outstanding = TRUE],
   action |-> [Probe EXCEPT !.period = ProbeInterval]]

NoHold(d) ==
  [d EXCEPT !.holding = FALSE, !.hold_left = 0, !.hold_expired = FALSE]

\* To hold again what is held does not start the clock again.
SetJudgeable(d, judgeable) ==
  IF judgeable THEN NoHold(d)
  ELSE IF d.holding THEN d
  ELSE [d EXCEPT !.holding = TRUE, !.hold_left = HoldCap,
                 !.hold_expired = FALSE]

\* A hold without a cap.
JudgementHeldUncapped(d) == d.holding

JudgementHeld(d) == d.holding /\ d.hold_left > 0

ConsumeJudgementHoldExpired(d) == IF d.hold_expired THEN NoHold(d) ELSE d

\* The loop of BackoffMs: doubled until the maximum is reached or passed.
Longer(backoff) == IF backoff >= MaxProbeInterval THEN backoff ELSE backoff * 2

Doublings[n \in Nat] ==
  IF n = 0 THEN ProbeInterval ELSE Longer(Doublings[n - 1])

\* What comes after the given number of restarts, no more than the maximum.
BackoffMs(attempts) ==
  LET backoff == Doublings[attempts - 1]
  IN IF backoff > MaxProbeInterval THEN MaxProbeInterval ELSE backoff

\* A loss not yet reported opens an episode, and counts it in its window.
CountEpisode(d) ==
  IF d.reported THEN d
  ELSE LET counted == IF d.window_left = 0
                      THEN [d EXCEPT !.window_left = LossWindow + 1,
                                     !.losses = 1]
                      ELSE [d EXCEPT !.losses = IF @ > MaxLosses THEN @
                                                ELSE @ + 1]
       IN [counted EXCEPT !.reported = TRUE]

\* Too many episodes, or too many restarts in this one.
Escalates(d) == d.losses > MaxLosses \/ d.attempts >= MaxAttempts

DeclareLoss(d) ==
  LET e == CountEpisode(d)
  IN CASE e.on_loss = "exit" \/ (e.on_loss = "restart" /\ Escalates(e)) ->
            [dog |-> [e EXCEPT !.disabled = TRUE],
             action |-> [Nothing EXCEPT !.exit = TRUE]]
       [] e.on_loss = "log" ->
            [dog |-> [e EXCEPT !.probe_outstanding = TRUE], action |-> Probe]
       [] OTHER ->
            [dog |-> [e EXCEPT !.attempts = @ + 1, !.missed = 0,
                               !.probe_outstanding = TRUE],
             action |-> [Nothing EXCEPT !.restart = TRUE,
                                        !.period = BackoffMs(e.attempts + 1)]]

\* missed_probes_ stays where it is under "log", its value is only reported.
OnTick(d) ==
  LET asked == [d EXCEPT !.hold_expired = @ \/ d.holding]
      missed == IF d.missed < MissedProbes THEN d.missed + 1 ELSE d.missed
  IN CASE JudgementHeld(d) ->
            [dog |-> [d EXCEPT !.probe_outstanding = TRUE], action |-> Probe]
       [] ~JudgementHeld(d) /\ d.probe_outstanding /\ missed >= MissedProbes ->
            DeclareLoss([asked EXCEPT !.missed = missed])
       [] OTHER ->
            [dog |-> [asked EXCEPT !.missed = IF d.probe_outstanding
                                              THEN missed ELSE @,
                                   !.probe_outstanding = TRUE],
             action |-> Probe]

\* A positive report needs no probes to agree with it.
OnRendererLost(d) == DeclareLoss(d)

WatchdogFrame(d) ==
  [dog |-> [NoHold(d) EXCEPT !.probe_outstanding = FALSE, !.missed = 0,
                             !.reported = FALSE, !.attempts = 0],
   action |-> IF d.attempts > 0
              THEN [Nothing EXCEPT !.period = ProbeInterval] ELSE Nothing]

\* A hint brings the probe forward; it neither judges nor moves the tick.
OnDeviceLossHint(d) ==
  [dog |-> [d EXCEPT !.probe_outstanding = TRUE], action |-> Probe]

Disable(d) == [d EXCEPT !.disabled = TRUE, !.probe_outstanding = FALSE]
=============================================================================
