------------------------------ MODULE VideoOutput ------------------------------
(***************************************************************************)
(* media_kit_video_elinux: video that libmpv draws into a pixel buffer and *)
(* the embedder shows as a texture.  Three threads meet in a VideoOutput:  *)
(*                                                                         *)
(*   platform  creates outputs and disposes of them (method channel)       *)
(*   raster    takes the pixels of the textures on screen, and runs what   *)
(*             the unregistration of a texture left it to run              *)
(*   mpv       tells, under a lock of libmpv's, that there is a new frame  *)
(*                                                                         *)
(* An output is freed by whoever drops the last reference to it: the map   *)
(* of the plugin, the call that disposes of it, or the embedder, which     *)
(* holds one until the raster thread is done with the texture.             *)
(*                                                                         *)
(* Sizes are left out: an output without one gives no pixels, which is the *)
(* raster thread not taking any.                                           *)
(*                                                                         *)
(* External: libmpv (one render context per player at a time) and the      *)
(* texture registrar of the embedder.                                      *)
(***************************************************************************)
EXTENDS Naturals, Sequences

CONSTANTS
  Players,       \* the players: handles of libmpv
  MaxOutputs     \* bound: outputs made

ASSUME VideoConstants == MaxOutputs \in Nat \ {0}

VARIABLES
  out,       \* the outputs made
  outputs,   \* outputs_: player -> its output, 0 without one
  mpv,       \* what the process knows of libmpv
  shutting,  \* what the platform thread is in the middle of
  raster,    \* what the raster thread is in the middle of
  marking    \* the outputs whose update callback is running

videoVars == <<out, outputs, mpv, shutting, raster, marking>>

Output == 1 .. MaxOutputs

\* context: "freed" also where none could be made.  texture: "leaving" until
\* the raster thread has carried out the unregistration; "stray" until then if
\* the creation failed, which frees the output at once.  texture_id: the output
\* still knows it.
OutputRecord ==
  [player : Players, context : {"live", "freed"},
   texture : {"registered", "leaving", "stray", "gone"},
   texture_id : BOOLEAN, callback : BOOLEAN, shut_down : BOOLEAN,
   refs : SUBSET {"map", "caller", "embedder"}]

Idle == [step |-> "idle", output |-> 0, left |-> {}, ending |-> FALSE]

\* ending: in the plugin's destructor; left: what that has yet to shut down.
Shutting ==
  [step : {"idle", "lock", "callback", "unregister", "return", "leaving", "down"},
   output : 0 .. MaxOutputs, left : SUBSET Output, ending : BOOLEAN]

Raster == [step : {"idle", "copy", "upload"}, output : 0 .. MaxOutputs]

InitVideo ==
  /\ out = <<>> /\ outputs = [h \in Players |-> 0]
  /\ mpv = "unknown" /\ shutting = Idle
  /\ raster = [step |-> "idle", output |-> 0] /\ marking = {}

Made == DOMAIN out

\* The destructor of the output stops libmpv's callback and frees the context.
Dropped(o, who) ==
  IF out[o].refs \subseteq {who}
  THEN [out[o] EXCEPT !.refs = {}, !.context = "freed", !.callback = FALSE]
  ELSE [out[o] EXCEPT !.refs = @ \ {who}]
-----------------------------------------------------------------------------
(***************************************************************************)
(* The platform thread.                                                    *)
(***************************************************************************)
Doing(step) == shutting.step = step

Continue(step) == shutting' = [shutting EXCEPT !.step = step]

\* libmpv is looked for once, and that it was missing is remembered too.
MpvApiForProcess(found) ==
  IF mpv = "unknown" THEN (IF found THEN "loaded" ELSE "missing") ELSE mpv

\* A second context for a player is refused while the first one lives.
Refused(h) == \E o \in Made : out[o].player = h /\ out[o].context = "live"

\* The texture is registered before the context is made, and libmpv gets its
\* callback last.  If there is no context the texture is unregistered and the
\* embedder gets nothing to keep: it is left to the raster thread while nobody
\* refers to the output any more.
Initialize(h, made) ==
  IF made
    THEN [player |-> h, context |-> "live", texture |-> "registered",
          texture_id |-> TRUE, callback |-> TRUE, shut_down |-> FALSE,
          refs |-> {"map"}]
    ELSE [player |-> h, context |-> "freed", texture |-> "stray",
          texture_id |-> FALSE, callback |-> FALSE, shut_down |-> FALSE,
          refs |-> {}]

\* A player that has an output keeps it; without libmpv or a texture the call
\* fails and leaves nothing behind.  Only a call that succeeds enters the output
\* in the map and tells Dart the number of its texture.
CreateOutput(h) ==
  /\ Doing("idle") /\ outputs[h] = 0
  /\ \E found \in BOOLEAN : mpv' = MpvApiForProcess(found)
  /\ \/ UNCHANGED <<out, outputs>>
     \/ /\ mpv' = "loaded" /\ Len(out) < MaxOutputs
        /\ \E made \in BOOLEAN :
             /\ made => ~Refused(h)
             /\ out' = Append(out, Initialize(h, made))
             /\ outputs' = IF made THEN [outputs EXCEPT ![h] = Len(out) + 1]
                           ELSE outputs
  /\ UNCHANGED <<shutting, raster, marking>>

\* The map keeps its reference.
DisposeOutputUnerased(h) ==
  /\ Doing("idle") /\ outputs[h] # 0
  /\ UNCHANGED outputs
  /\ out' = [out EXCEPT ![outputs[h]].refs = @ \cup {"caller"}]
  /\ shutting' = [Idle EXCEPT !.step = "lock", !.output = outputs[h]]
  /\ UNCHANGED <<mpv, raster, marking>>

DisposeOutput(h) ==
  /\ Doing("idle") /\ outputs[h] # 0
  /\ outputs' = [outputs EXCEPT ![h] = 0]
  /\ out' = [out EXCEPT ![outputs[h]].refs = (@ \ {"map"}) \cup {"caller"}]
  /\ shutting' = [Idle EXCEPT !.step = "lock", !.output = outputs[h]]
  /\ UNCHANGED <<mpv, raster, marking>>

\* The end of the plugin: every output is shut down, then the map is cleared.
LeavePlugin ==
  /\ Doing("idle")
  /\ shutting' = [Idle EXCEPT !.step = "leaving", !.ending = TRUE,
                              !.left = {outputs[h] : h \in Players} \ {0}]
  /\ UNCHANGED <<out, outputs, mpv, raster, marking>>

ShutNext ==
  /\ Doing("leaving")
  /\ \E o \in shutting.left :
       /\ out' = [out EXCEPT ![o].refs = @ \cup {"caller"}]
       /\ shutting' = [shutting EXCEPT !.step = "lock", !.output = o,
                                       !.left = @ \ {o}]
  /\ UNCHANGED <<outputs, mpv, raster, marking>>

ClearOutputs ==
  /\ Doing("leaving") /\ shutting.left = {}
  /\ out' = [o \in Made |-> IF "map" \in out[o].refs THEN Dropped(o, "map")
                              ELSE out[o]]
  /\ outputs' = [h \in Players |-> 0]
  /\ Continue("down")
  /\ UNCHANGED <<mpv, raster, marking>>

\* CopyPixelBuffer holds the lock while libmpv draws.
ShutLock ==
  /\ Doing("lock")
  /\ ~(raster.step = "copy" /\ raster.output = shutting.output)
  /\ out' = [out EXCEPT ![shutting.output].shut_down = TRUE]
  /\ Continue("callback")
  /\ UNCHANGED <<outputs, mpv, raster, marking>>

\* libmpv is told without regard to a callback that is running.
StopCallbackUnwaited ==
  /\ Doing("callback")
  /\ out' = [out EXCEPT ![shutting.output].callback = FALSE]
  /\ Continue("unregister")
  /\ UNCHANGED <<outputs, mpv, raster, marking>>

\* libmpv gives its callback up when none is running.
StopCallback ==
  /\ Doing("callback") /\ shutting.output \notin marking
  /\ out' = [out EXCEPT ![shutting.output].callback = FALSE]
  /\ Continue("unregister")
  /\ UNCHANGED <<outputs, mpv, raster, marking>>

\* The embedder gets no reference to the output.
UnregisterTextureUnkept ==
  /\ Doing("unregister")
  /\ out' = [out EXCEPT ![shutting.output] =
              [out[shutting.output] EXCEPT
                 !.texture_id = FALSE, !.texture = "leaving"]]
  /\ Continue("return")
  /\ UNCHANGED <<outputs, mpv, raster, marking>>

\* keep_alive goes to the embedder with the unregistration.
UnregisterTexture ==
  /\ Doing("unregister")
  /\ out' = [out EXCEPT ![shutting.output] =
              [out[shutting.output] EXCEPT
                 !.texture_id = FALSE, !.texture = "leaving",
                 !.refs = @ \cup {"embedder"}]]
  /\ Continue("return")
  /\ UNCHANGED <<outputs, mpv, raster, marking>>

ShutReturn ==
  /\ Doing("return")
  /\ out' = [out EXCEPT ![shutting.output] = Dropped(shutting.output, "caller")]
  /\ shutting' = [shutting EXCEPT
                   !.step = IF shutting.ending THEN "leaving" ELSE "idle",
                   !.output = 0]
  /\ UNCHANGED <<outputs, mpv, raster, marking>>

Shutdown == ShutLock \/ StopCallback \/ UnregisterTexture \/ ShutReturn
-----------------------------------------------------------------------------
(***************************************************************************)
(* The raster thread and libmpv.                                           *)
(***************************************************************************)
\* A stray texture is on no screen: a frame asks for the numbers Dart was told.
OnScreen(o) == out[o].texture \in {"registered", "leaving"}

CopyPixelBuffer(o) ==
  /\ raster.step = "idle" /\ OnScreen(o) /\ ~out[o].shut_down
  /\ raster' = [step |-> "copy", output |-> o]
  /\ UNCHANGED <<out, outputs, mpv, shutting, marking>>

\* The pixels are the output's own, and are uploaded without the lock.
Copied ==
  /\ raster.step = "copy"
  /\ raster' \in {[raster EXCEPT !.step = "upload"],
                  [step |-> "idle", output |-> 0]}
  /\ UNCHANGED <<out, outputs, mpv, shutting, marking>>

Uploaded ==
  /\ raster.step = "upload"
  /\ raster' = [step |-> "idle", output |-> 0]
  /\ UNCHANGED <<out, outputs, mpv, shutting, marking>>

\* The embedder drops what it kept for the texture.
Unregistered(o) ==
  /\ raster.step = "idle" /\ out[o].texture \in {"leaving", "stray"}
  /\ out' = [out EXCEPT ![o] = [Dropped(o, "embedder") EXCEPT !.texture = "gone"]]
  /\ UNCHANGED <<outputs, mpv, shutting, raster, marking>>

\* The texture is looked up, then marked.
OnMpvRenderUpdate(o) ==
  /\ out[o].callback /\ out[o].texture_id /\ o \notin marking
  /\ marking' = marking \cup {o}
  /\ UNCHANGED <<out, outputs, mpv, shutting, raster>>

Marked(o) ==
  /\ o \in marking
  /\ marking' = marking \ {o}
  /\ UNCHANGED <<out, outputs, mpv, shutting, raster>>
-----------------------------------------------------------------------------
NextVideo ==
  \/ \E h \in Players : CreateOutput(h) \/ DisposeOutput(h)
  \/ LeavePlugin \/ ShutNext \/ ClearOutputs \/ Shutdown
  \/ \E o \in Made : \/ CopyPixelBuffer(o) \/ Unregistered(o)
                     \/ OnMpvRenderUpdate(o) \/ Marked(o)
  \/ Copied \/ Uploaded

VideoSpec == InitVideo /\ [][NextVideo]_videoVars

\* A thread goes on with what it is in the middle of.  A lock is granted in the
\* end to a thread that waits for it (frames come at intervals), and the tasks
\* of the raster thread run in their order.
VideoFairness ==
  /\ SF_videoVars(ShutNext \/ ClearOutputs \/ Shutdown)
  /\ WF_videoVars(Copied \/ Uploaded)
  /\ SF_videoVars(\E o \in Made : Unregistered(o))
  /\ \A o \in Output : WF_videoVars(Marked(o))
-----------------------------------------------------------------------------
(***************************************************************************)
(* Properties.                                                             *)
(***************************************************************************)
VideoTypeOK ==
  /\ out \in Seq(OutputRecord) /\ Len(out) <= MaxOutputs
  /\ outputs \in [Players -> 0 .. MaxOutputs]
  /\ mpv \in {"unknown", "loaded", "missing"}
  /\ shutting \in Shutting /\ raster \in Raster /\ marking \subseteq Output

\* The raster thread draws with a context that lives and uploads pixels that
\* are still there, a texture it may ask has its output, and libmpv marks no
\* texture that was given up.  The texture of a creation that failed has no
\* output from then on; that nobody was told its number is all that keeps the
\* raster thread from asking it.
RenderedWhileAlive ==
  /\ raster.step = "copy" => out[raster.output].context = "live"
  /\ raster.step = "upload" => out[raster.output].refs # {}
  /\ \A o \in Made :
       /\ OnScreen(o) => out[o].refs # {} /\ out[o].context = "live"
       /\ out[o].callback => out[o].context = "live"
  /\ \A o \in marking : out[o].texture = "registered"

\* An output that was shut down is freed, whoever drops its last reference:
\* until then libmpv refuses another for the player.  (What is freed stays so:
\* again and again, all that was shut down is.)
OutputFreed ==
  []<>(\A o \in Made : out[o].shut_down => out[o].context = "freed")
=============================================================================
