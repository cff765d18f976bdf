------------------------------- MODULE JsBridge -------------------------------
(***************************************************************************)
(* webview_js_handler.cc: the bridge of one renderer process of the        *)
(* embedded browser.  A page asks the application through it and leaves a  *)
(* callback behind; the answer comes back as a message that names the      *)
(* callback by a number.  Every page in the process shares the bridge, and *)
(* a new process starts its numbers again.                                 *)
(***************************************************************************)
EXTENDS Integers

CONSTANTS
  MaxRequests,   \* bound: requests of pages
  MaxPages       \* bound: pages loaded

Context == 1 .. MaxPages
Request == 1 .. MaxRequests

\* The numbers of jsCmd start at zero, those of the channel are kept below;
\* named is FALSE for a request that asked for no answer.
Callback ==
  [id : Nat, context : Context, request : Request, named : {TRUE}]
    \cup [id : {i \in Int : i < 0}, context : Context, request : Request,
          named : BOOLEAN]

Bridge == [next : Nat, reqID : Nat, pending : SUBSET Callback]

NewBridge == [next |-> 0, reqID |-> 1001, pending |-> {}]

Found(b, id) == {c \in b.pending : c.id = id}

\* clientSdk.jsCmd: the number goes into the message with the request.
CallCppFunction(b, context, r) ==
  IF Found(b, b.next) # {} THEN b
  ELSE [b EXCEPT
         !.pending = @ \cup {[id |-> b.next, context |-> context,
                              request |-> r, named |-> TRUE]},
         !.next = @ + 1]

GetNextReqID(b) == [b EXCEPT !.reqID = @ + 1]

\* The number as the page gave it.
NegatedNot(id) == id

\* A number that is below zero already stays.
Negated(id) == IF id > 0 THEN -id ELSE id

StartRequest(b, id, context, r, named) ==
  IF Found(b, Negated(id)) # {} THEN b
  ELSE [b EXCEPT
         !.pending = @ \cup {[id |-> Negated(id), context |-> context,
                              request |-> r, named |-> named]}]

\* external.JavaScriptChannel takes a number and starts the request.
JavaScriptChannel(b, context, r, named) ==
  LET numbered == GetNextReqID(b)
  IN StartRequest(numbered, numbered.reqID, context, r, named)

RemoveCallbackFuncWithFrame(b, context) ==
  [b EXCEPT !.pending = {c \in @ : c.context # context}]

\* The callbacks an answer with this number runs: an entry without a callback
\* stays, one that ran is gone.
Runs(b, id) == {c \in Found(b, id) : c.named}

ExecuteJSCallbackFunc(b, id) == [b EXCEPT !.pending = @ \ Runs(b, id)]
=============================================================================
