------------------------------- MODULE WebView -------------------------------
(***************************************************************************)
(* The embedded browser: webview_plugin.cc and webview_handler.cc with the *)
(* application's side of the method channel before them and the renderer   *)
(* processes behind them, in the builds this repository makes (Linux and   *)
(* eLinux: software painting, CEF's message loop in a thread of its own).  *)
(*                                                                         *)
(* The platform thread runs the method calls.  The CEF UI thread runs what *)
(* was posted to it and what the renderer processes send, in order; it     *)
(* creates browsers, tells the application of events and gives the answers *)
(* that have to wait.  Both threads read and write the handler's maps, and *)
(* nothing but the order of the calls keeps them apart: where they meet,   *)
(* anything up to a crash may happen.                                      *)
(*                                                                         *)
(* External: CEF (browsers, processes, cookies) and the pages.             *)
(***************************************************************************)
EXTENDS JsBridge, Sequences, FiniteSets

CONSTANTS
  Views,         \* the application's controllers, and the browser of each
  Questions,     \* bound: calls whose answer has to wait
  MaxProcesses,  \* bound: renderer processes
  MaxCalls,      \* bound: calls that measure, evaluate or visit
  MaxReplies     \* bound: answers the application gives to pages

ASSUME WebConstants ==
  /\ IsFiniteSet(Views) /\ IsFiniteSet(Questions) /\ Views \cap Questions = {}
  /\ {MaxProcesses, MaxPages, MaxRequests} \subseteq Nat \ {0}
  /\ {MaxCalls, MaxReplies} \subseteq Nat

VARIABLES
  view,      \* each controller with its browser, map entry and texture
  ui,        \* what waits for the CEF UI thread
  page,      \* the pages that live in a renderer process
  wire,      \* renderer process -> messages on their way to it
  bridge,    \* renderer process -> its bridge
  js,        \* js_callbacks_: evaluations that wait for their value
  answers,   \* how often each call was answered
  inbox,     \* requests of pages the application was told of
  ran,       \* ghost: the callbacks run, by which answers, on live pages
  web        \* the phase of the process and the counters of the bounds

webVars ==
  <<view, ui, page, wire, bridge, js, answers, inbox, ran, web>>

Process == 1 .. MaxProcesses
Page == [view : Views, process : Process, context : Context]

\* entry: what browser_map_ holds for the view; "null" is an entry that the
\* subscript operator put there.  texture: what m_renderers holds.
View ==
  [dart : {"absent", "creating", "ready", "disposed"}, leaving : BOOLEAN,
   entry : {"absent", "browser", "null"},
   cef : {"none", "open", "closing", "gone"},
   texture : {"absent", "live", "reset"},
   process : Process]

NewView ==
  [dart |-> "absent", leaving |-> FALSE, entry |-> "absent", cef |-> "none",
   texture |-> "absent", process |-> 1]

NewWeb ==
  [phase |-> "running", calls |-> 0, replies |-> 0, pages |-> 0, loaded |-> 0,
   requests |-> 0, processes |-> 0]

InitWeb ==
  /\ view = [v \in Views |-> NewView] /\ ui = <<>> /\ page = {}
  /\ wire = [p \in Process |-> <<>>]
  /\ bridge = [p \in Process |-> NewBridge]
  /\ js = {} /\ answers = [c \in Views \cup Questions |-> 0]
  /\ inbox = {} /\ ran = <<>> /\ web = NewWeb

Running == web.phase = "running"

\* Of the bound on requests, every view takes one.
Room ==
  web.requests + Cardinality({v \in Views : view[v].dart # "absent"})
    <= MaxRequests

Post(task) == ui' = Append(ui, task)
Send(p, message) == wire' = [wire EXCEPT ![p] = Append(@, message)]
Answer(c) == answers' = [answers EXCEPT ![c] = @ + 1]

\* Nothing of the process is left.
End(phase) ==
  /\ web' = [NewWeb EXCEPT !.phase = phase]
  /\ view' = [v \in Views |-> NewView] /\ ui' = <<>> /\ page' = {}
  /\ wire' = [p \in Process |-> <<>>]
  /\ bridge' = [p \in Process |-> NewBridge]
  /\ js' = {} /\ answers' = [c \in Views \cup Questions |-> 0]
  /\ inbox' = {} /\ ran' = <<>>
-----------------------------------------------------------------------------
(***************************************************************************)
(* The application and the platform thread.                                *)
(***************************************************************************)
\* A controller makes calls from its creation's answer until it is disposed.
Usable(v) == Running /\ view[v].dart = "ready"

OneCall == web.calls < MaxCalls /\ web' = [web EXCEPT !.calls = @ + 1]

\* WebViewController.initialize: the browser is made by the UI thread.
Create(v) ==
  /\ Running /\ view[v].dart = "absent"
  /\ web.pages < MaxPages /\ Room
  /\ view' = [view EXCEPT ![v].dart = "creating"]
  /\ Post([op |-> "create", view |-> v])
  /\ web' = [web EXCEPT !.pages = @ + 1]
  /\ UNCHANGED <<page, wire, bridge, js, answers, inbox, ran>>

Created(v) ==
  /\ Running /\ view[v].dart = "creating" /\ answers[v] > 0
  /\ view' = [view EXCEPT ![v].dart = "ready"]
  /\ UNCHANGED <<ui, page, wire, bridge, js, answers, inbox, ran, web>>

\* WebViewController.dispose waits for the creation.
Dispose(v) ==
  /\ Running /\ view[v].dart \in {"creating", "ready"} /\ ~view[v].leaving
  /\ view' = [view EXCEPT ![v].leaving = TRUE]
  /\ UNCHANGED <<ui, page, wire, bridge, js, answers, inbox, ran, web>>

\* The handler forgets the browser without telling CEF.
closeBrowserForgotten(v) ==
  /\ view' = [view EXCEPT ![v].dart = "disposed", ![v].entry = "absent",
                          ![v].texture = "reset"]
  /\ UNCHANGED ui

\* CloseBrowser(true) is carried out by the UI thread; the map forgets the
\* browser at once and the texture's last reference is dropped.
closeBrowser(v) ==
  IF view[v].entry = "browser"
  THEN /\ view' = [view EXCEPT ![v].dart = "disposed", ![v].entry = "absent",
                               ![v].cef = "closing", ![v].texture = "reset"]
       /\ Post([op |-> "destroy", view |-> v])
  ELSE /\ view' = [view EXCEPT ![v].dart = "disposed", ![v].texture = "reset"]
       /\ UNCHANGED ui

Close(v) ==
  /\ Usable(v) /\ view[v].leaving
  /\ closeBrowser(v)
  /\ UNCHANGED <<page, wire, bridge, js, answers, inbox, ran, web>>

\* loadUrl, reload, goBack and goForward, and what a page would have opened
\* in a window of its own.
Navigate(v) ==
  /\ Usable(v) /\ web.pages < MaxPages
  /\ Post([op |-> "navigate", view |-> v])
  /\ web' = [web EXCEPT !.pages = @ + 1]
  /\ UNCHANGED <<view, page, wire, bridge, js, answers, inbox, ran>>

\* changeSize: WasResized makes the UI thread ask for the new measures.
SetSize(v) ==
  /\ Usable(v) /\ OneCall
  /\ Post([op |-> "resize", view |-> v])
  /\ UNCHANGED <<view, page, wire, bridge, js, answers, inbox, ran>>

\* Ctrl+F12 looks at every texture that was ever made, to find the focused
\* view; that of a closed view is a null reference.  Any other key goes to the
\* browser that was focused last, which may have been closed meanwhile and
\* then ignores it.
SendKeyEvent(v) ==
  /\ Usable(v)
  /\ \E w \in Views : view[w].texture = "reset"
  /\ End("crashed")

\* An empty cookie store answers nothing, and without a store nobody asks.
VisitCookies(q) ==
  /\ Running /\ answers[q] = 0 /\ q \notin js
  /\ \A i \in 1 .. Len(ui) : ui[i].op = "visit" => ui[i].question # q
  /\ \E total \in 1 .. 2 :
       Post([op |-> "visit", question |-> q, total |-> total])
  /\ OneCall
  /\ UNCHANGED <<view, page, wire, bridge, js, answers, inbox, ran>>

\* executeJavaScript with a callback: the script reports its value under the
\* number the callback is kept by.
Evaluate(v, q) ==
  /\ Usable(v) /\ OneCall
  /\ answers[q] = 0 /\ q \notin js
  /\ \A i \in 1 .. Len(ui) : ui[i].op = "visit" => ui[i].question # q
  /\ view[v].entry = "browser"
  /\ js' = js \cup {q}
  /\ Send(view[v].process, [op |-> "script", view |-> v, question |-> q])
  /\ UNCHANGED <<view, ui, page, bridge, answers, inbox, ran>>

\* The answer goes to the view's main frame, wherever that has moved to.
AddresseeAnywhere(m) == view[m.view].entry = "browser"

\* The view still shows a page of the process the request came from: both
\* identifiers are read up to the process number they start with.
Addressee(m) ==
  view[m.view].entry = "browser" /\ view[m.view].process = m.process

\* Of the bound on replies, every other call takes one.
sendJavaScriptChannelCallBack(m) ==
  /\ Usable(m.view) /\ web.replies + web.calls < MaxReplies
  /\ IF Addressee(m)
     THEN Send(view[m.view].process,
               [op |-> "reply", id |-> m.id, request |-> m.request])
     ELSE UNCHANGED wire
  /\ web' = [web EXCEPT !.replies = @ + 1]
  /\ UNCHANGED <<view, ui, page, bridge, js, answers, inbox, ran>>

\* quit, or the end of the plugin with the engine: open browsers are closed.
\* An entry without a browser is dereferenced, and what the UI thread still
\* has to do for a browser meets a plugin that is gone.
Stop ==
  /\ Running
  /\ \E end \in {"stopped"} \cup
       IF \/ \E v \in Views : view[v].entry = "null" \/ view[v].cef = "open"
          \/ ui # <<>>
       THEN {"crashed"} ELSE {} :
       End(end)

\* A call on the platform thread and a task on the UI thread that change the
\* same map at the same time.
Collide ==
  /\ Running /\ ui # <<>> /\ Head(ui).op \in {"create", "resize", "value"}
  /\ \E v \in Views : view[v].dart = "ready"
  /\ End("crashed")
-----------------------------------------------------------------------------
(***************************************************************************)
(* The CEF UI thread.                                                      *)
(***************************************************************************)
Task(op) == Running /\ ui # <<>> /\ Head(ui).op = op

Done == ui' = Tail(ui)

\* A page gets a process of its own, or one that exists.
Loads(p) ==
  /\ p <= web.processes + 1
  /\ web' = [web EXCEPT !.loaded = @ + 1,
                        !.processes = IF p > @ THEN p ELSE @]

Load(v) == [op |-> "load", view |-> v, context |-> web.loaded + 1]
Leave(v) == [op |-> "leave", view |-> v]

\* CreateBrowserSync calls OnAfterCreated, which fills the entry, and the
\* callback makes the texture and answers the call.
createBrowser(p) ==
  /\ Task("create") /\ Done /\ Loads(p)
  /\ LET v == Head(ui).view
     IN /\ view' = [view EXCEPT ![v].entry = "browser", ![v].cef = "open",
                                ![v].texture = "live", ![v].process = p]
        /\ Send(p, Load(v))
        /\ Answer(v)
  /\ UNCHANGED <<page, bridge, js, inbox, ran>>

Navigated(p) ==
  /\ Task("navigate") /\ Done
  /\ LET v == Head(ui).view
         old == view[v].process
     IN IF view[v].cef # "open" THEN UNCHANGED <<view, wire, web>>
        ELSE /\ Loads(p)
             /\ view' = [view EXCEPT ![v].process = p]
             /\ wire' = [q \in Process |->
                          CASE q = p -> Append(wire[q], Load(v))
                            [] q = old /\ q # p -> Append(wire[q], Leave(v))
                            [] OTHER -> wire[q]]
  /\ UNCHANGED <<page, bridge, js, answers, inbox, ran>>

\* GetViewRect looks the browser up, GetScreenInfo uses the subscript, which
\* puts an entry back for a browser that is being closed.
Resized ==
  /\ Task("resize") /\ Done
  /\ LET v == Head(ui).view
     IN view' = [view EXCEPT ![v].entry = IF @ = "absent" /\ view[v].cef = "closing"
                                          THEN "null" ELSE @]
  /\ UNCHANGED <<page, wire, bridge, js, answers, inbox, ran, web>>

Destroyed ==
  /\ Task("destroy") /\ Done
  /\ LET v == Head(ui).view
     IN /\ view' = [view EXCEPT ![v].cef = "gone"]
        /\ Send(view[v].process, Leave(v))
  /\ UNCHANGED <<page, bridge, js, answers, inbox, ran, web>>

\* The events of the browser go to the application, which looks its view up
\* and drops what is for a view that it has disposed.
OnJavaScriptChannelMessage ==
  /\ Task("request") /\ Done
  /\ inbox' = IF view[Head(ui).view].dart \in {"creating", "ready"}
              THEN inbox \cup {Head(ui)} ELSE inbox
  /\ UNCHANGED <<view, page, wire, bridge, js, answers, ran, web>>

\* The callback stays in the map.
OnEvaluateCallbackUnerased ==
  /\ Task("value") /\ Done
  /\ IF Head(ui).question \in js
     THEN Answer(Head(ui).question) /\ UNCHANGED js
     ELSE UNCHANGED <<answers, js>>
  /\ UNCHANGED <<view, page, wire, bridge, inbox, ran, web>>

\* The callback is run and forgotten; a value nobody waits for is dropped.
OnEvaluateCallback ==
  /\ Task("value") /\ Done
  /\ IF Head(ui).question \in js
     THEN Answer(Head(ui).question) /\ js' = js \ {Head(ui).question}
     ELSE UNCHANGED <<answers, js>>
  /\ UNCHANGED <<view, page, wire, bridge, inbox, ran, web>>

\* The visitor is told a count and the total with every cookie.
Completes(count, total) == count = total - 1

Visited ==
  /\ Task("visit") /\ Done
  /\ answers' = [answers EXCEPT ![Head(ui).question] =
       @ + Cardinality({count \in 0 .. Head(ui).total - 1 :
                          Completes(count, Head(ui).total)})]
  /\ UNCHANGED <<view, page, wire, bridge, js, inbox, ran, web>>
-----------------------------------------------------------------------------
(***************************************************************************)
(* The renderer processes.                                                 *)
(***************************************************************************)
\* A page asks with clientSdk.jsCmd or external.JavaScriptChannel.  Left out: a
\* page that calls external.StartRequest with a number of its own choice, which
\* the bridge keeps as it is; what that page then hears is its own doing.
Asks(c, kind) ==
  LET p == c.process
      r == web.requests + 1
      asked == CASE kind = "jsCmd" -> CallCppFunction(bridge[p], c.context, r)
                 [] OTHER -> JavaScriptChannel(bridge[p], c.context, r,
                                               kind = "answered")
      id == CASE kind = "jsCmd" -> bridge[p].next
              [] OTHER -> Negated(asked.reqID)
  IN /\ Running /\ Room /\ web.requests < MaxRequests
     /\ bridge' = [bridge EXCEPT ![p] = asked]
     /\ Post([op |-> "request", view |-> c.view, process |-> p, id |-> id,
              request |-> r])
     /\ web' = [web EXCEPT !.requests = r]
     /\ UNCHANGED <<view, page, wire, js, answers, inbox, ran>>

Message(p, op) == Running /\ wire[p] # <<>> /\ Head(wire[p]).op = op

Received(p) == wire' = [wire EXCEPT ![p] = Tail(@)]

\* The pages of the view in this process, whose contexts are released.
Old(p) == {c \in page : c.process = p /\ c.view = Head(wire[p]).view}

Forgotten(b, pages) ==
  [b EXCEPT !.pending = {c \in @ : \A old \in pages :
     c \in RemoveCallbackFuncWithFrame(b, old.context).pending}]

OnContextReleased(p, new) ==
  /\ page' = (page \ Old(p)) \cup new
  /\ bridge' = [bridge EXCEPT ![p] = Forgotten(@, Old(p))]

OnLoad(p) ==
  /\ Message(p, "load") /\ Received(p)
  /\ OnContextReleased(p, {[view |-> Head(wire[p]).view, process |-> p,
                            context |-> Head(wire[p]).context]})
  /\ UNCHANGED <<view, ui, js, answers, inbox, ran, web>>

OnLeave(p) ==
  /\ Message(p, "leave") /\ Received(p)
  /\ OnContextReleased(p, {})
  /\ UNCHANGED <<view, ui, js, answers, inbox, ran, web>>

\* The value of the evaluation whose script runs.
ScriptValue(p) == [op |-> "value", question |-> Head(wire[p]).question]

\* A script that fails, or that meets no page, reports nothing.  A page can put
\* a function of its own before external.EvaluateCallback, which reports the
\* value and lets the script go on, to report again.  Bounds: it does that once
\* in an evaluation, when nothing waits for the UI thread or for the renderer and
\* no page has asked.
OnScript(p) ==
  /\ Message(p, "script")
  /\ \/ Received(p) /\ UNCHANGED ui
     \/ Received(p) /\ Old(p) # {} /\ Post(ScriptValue(p))
     \/ /\ UNCHANGED wire /\ Old(p) # {} /\ Post(ScriptValue(p))
        /\ ui = <<>> /\ web.requests = 0
        /\ Head(wire[p]).question \in js /\ Len(wire[p]) = 1
  /\ UNCHANGED <<view, page, bridge, js, answers, inbox, ran, web>>

OnReply(p) ==
  /\ Message(p, "reply") /\ Received(p)
  /\ LET m == Head(wire[p])
         alive == {c.context : c \in page}
     IN /\ bridge' = [bridge EXCEPT ![p] = ExecuteJSCallbackFunc(@, m.id)]
        /\ \/ Runs(bridge[p], m.id) = {} /\ UNCHANGED ran
           \/ \E c \in Runs(bridge[p], m.id) :
                ran' = Append(ran, <<c.request, m.request,
                                     c.context \in alive>>)
  /\ UNCHANGED <<view, ui, page, js, answers, inbox, web>>
-----------------------------------------------------------------------------
NextWeb ==
  \/ \E v \in Views :
       \/ Create(v) \/ Created(v) \/ Dispose(v) \/ Close(v)
       \/ Navigate(v) \/ SetSize(v) \/ SendKeyEvent(v)
       \/ \E q \in Questions : Evaluate(v, q)
  \/ \E q \in Questions : VisitCookies(q)
  \/ \E m \in inbox : sendJavaScriptChannelCallBack(m)
  \/ Stop \/ Collide
  \/ \E p \in Process : createBrowser(p) \/ Navigated(p)
  \/ Resized \/ Destroyed \/ OnJavaScriptChannelMessage
  \/ OnEvaluateCallback \/ Visited
  \/ \E c \in page, kind \in {"jsCmd", "answered", "unanswered"} : Asks(c, kind)
  \/ \E p \in Process : OnLoad(p) \/ OnLeave(p) \/ OnScript(p) \/ OnReply(p)

WebSpec == InitWeb /\ [][NextWeb]_webVars

\* The UI thread runs what it is given; the application goes on when a call
\* is answered, and its dispose when the creation is.
WebFairness ==
  /\ WF_ui(ui # <<>> /\ Running /\ ui' = Tail(ui))
  /\ \A v \in Views :
       /\ WF_view(view[v].dart = "creating" /\ answers[v] > 0 /\ Running
                  /\ view' = [view EXCEPT ![v].dart = "ready"])
       /\ WF_view(Usable(v) /\ view[v].leaving /\ closeBrowser(v))
-----------------------------------------------------------------------------
(***************************************************************************)
(* Properties.                                                             *)
(***************************************************************************)
WebTypeOK ==
  /\ view \in [Views -> View] /\ page \subseteq Page /\ js \subseteq Questions
  /\ \A p \in Process : bridge[p].pending \subseteq Callback
  /\ web.phase \in {"running", "stopped", "crashed"}

\* No call is answered twice, whatever of its browser, the page and the calls
\* after it comes in between: the second answer would be given through a
\* result object that the first one deleted.
AnsweredOnce == \A c \in Views \cup Questions : answers[c] <= 1

\* An answer runs the callback of the request it is for, on the page that
\* asked, and once; also when the view has moved to another page or process
\* meanwhile and when the application answers again.
ReplyToItsRequest ==
  /\ \A i \in 1 .. Len(ran) : ran[i][1] = ran[i][2] /\ ran[i][3]
  /\ \A i, j \in 1 .. Len(ran) : ran[i][1] = ran[j][1] => i = j

\* A view whose controller is disposed has its browser closed, also when
\* dispose comes while the browser is still being made.  (What is left stays
\* left and what is closed stays closed: again and again, all of it is.)
DisposedViewCloses ==
  []<>(\A v \in Views : view[v].leaving => view[v].cef = "gone")
=============================================================================
