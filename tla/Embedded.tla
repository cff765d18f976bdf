-------------------------------- MODULE Embedded --------------------------------
(***************************************************************************)
(* The plugins that run foreign engines inside the application's process:  *)
(* the embedded browser (WebView, JsBridge), the preparation of its cache  *)
(* directory, which is over before it starts (CefCache), video             *)
(* (VideoOutput), and the values the browser's plugin passes to and from   *)
(* the method channel (WValue).  They share no state; one run checks them  *)
(* side by side, a behaviour being one of them at work.                    *)
(***************************************************************************)
EXTENDS WebView, CefCache, VideoOutput, WValue

VARIABLE part    \* the plugin at work

embeddedVars == <<webVars, cacheVars, videoVars, valueVars, part>>

Init ==
  /\ part \in {"web", "cache", "video", "value"}
  /\ InitWeb /\ InitCache /\ InitVideo /\ InitValue
  /\ part # "cache" => NothingLeft

Next ==
  /\ UNCHANGED part
  /\ \/ part = "web" /\ NextWeb
        /\ UNCHANGED <<cacheVars, videoVars, valueVars>>
     \/ part = "cache" /\ NextCache
        /\ UNCHANGED <<webVars, videoVars, valueVars>>
     \/ part = "video" /\ NextVideo
        /\ UNCHANGED <<webVars, cacheVars, valueVars>>
     \/ part = "value" /\ NextValue
        /\ UNCHANGED <<webVars, cacheVars, videoVars>>

Spec ==
  /\ Init /\ [][Next]_embeddedVars
  /\ WebFairness /\ VideoFairness

TypeOK == WebTypeOK /\ CacheTypeOK /\ VideoTypeOK /\ ValueTypeOK
=============================================================================
