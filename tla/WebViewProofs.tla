----------------------------- MODULE WebViewProofs -----------------------------
(***************************************************************************)
(* Proofs about the embedded browser, for any number of views, processes,  *)
(* pages, calls and requests: no call is answered twice, an answer runs    *)
(* the callback of the request it is for, once, on a page that lives, and  *)
(* what names a page names one that was loaded.                            *)
(***************************************************************************)
EXTENDS WebView, FiniteSetTheorems, TLAPS

InSeq(s) == {s[i] : i \in 1 .. Len(s)}

-----------------------------------------------------------------------------
(***************************************************************************)
(* The inductive invariant.                                                *)
(***************************************************************************)
\* What waits for the UI thread, and what is on its way to a process.
Asked ==
  [op : {"request"}, view : Views, process : Process, id : Int,
   request : Request]

UiTask ==
  [op : {"create", "navigate", "resize", "destroy"}, view : Views]
    \cup [op : {"visit"}, question : Questions, total : 1 .. 2]
    \cup [op : {"value"}, question : Questions]
    \cup Asked

WireMessage ==
  [op : {"load"}, view : Views, context : Nat]
    \cup [op : {"leave"}, view : Views]
    \cup [op : {"script"}, view : Views, question : Questions]
    \cup [op : {"reply"}, id : Int, request : Request]

Left == [id : Int, context : Nat, request : Request, named : BOOLEAN]
Counter == [next : Nat, reqID : Nat, pending : SUBSET Left]
Shown == [view : Views, process : Process, context : Nat]
Phases ==
  [phase : {"running", "stopped", "crashed"}, calls : Nat, replies : Nat,
   pages : Nat, loaded : Nat, requests : 0 .. MaxRequests, processes : Nat]

WebTypes ==
  /\ view \in [Views -> View]
  /\ ui \in Seq(UiTask)
  /\ page \subseteq Shown
  /\ wire \in [Process -> Seq(WireMessage)]
  /\ bridge \in [Process -> Counter]
  /\ js \subseteq Questions
  /\ answers \in [Views \cup Questions -> Nat]
  /\ inbox \subseteq Asked
  /\ ran \in Seq(Request \X Request \X BOOLEAN)
  /\ web \in Phases

\* A task of these answers a call.
Answering(t) == t.op \in {"create", "visit"}
Caller(t) == IF t.op = "create" THEN t.view ELSE t.question

\* A call that a task or a callback will answer was not answered, and nothing
\* else will answer it.
Unanswered ==
  /\ \A i, j \in 1 .. Len(ui) :
       /\ Answering(ui[i]) /\ Answering(ui[j])
       /\ Caller(ui[i]) = Caller(ui[j])
       => i = j
  /\ \A t \in InSeq(ui) : Answering(t) =>
       /\ answers[Caller(t)] = 0 /\ Caller(t) \notin js
       /\ t.op = "create" => view[t.view].dart # "absent"
  /\ \A q \in js : answers[q] = 0
  /\ \A v \in Views : view[v].dart = "absent" => answers[v] = 0

\* In process p the number id stands for request r.
Stands(p, id, r) ==
  \/ \E t \in InSeq(ui) :
       t.op = "request" /\ t.process = p /\ t.id = id /\ t.request = r
  \/ \E m \in inbox : m.process = p /\ m.id = id /\ m.request = r
  \/ \E m \in InSeq(wire[p]) : m.op = "reply" /\ m.id = id /\ m.request = r
  \/ \E c \in bridge[p].pending : c.id = id /\ c.request = r

\* A number was given out, and for one request.
Given(p, id) ==
  /\ id >= 0 => id < bridge[p].next
  /\ id < 0 => -id <= bridge[p].reqID

Numbered ==
  \A p \in Process, id \in Int, r \in Request :
    Stands(p, id, r) =>
      /\ Given(p, id)
      /\ \A s \in Request : Stands(p, id, s) => r = s

\* A request waits in one place, with a callback whose page lives, until its
\* callback has run.
Waiting ==
  /\ \A p \in Process : \A c \in bridge[p].pending :
       /\ c.request <= web.requests
       /\ \E g \in page : g.process = p /\ g.context = c.context
       /\ \A i \in 1 .. Len(ran) : ran[i][1] # c.request
       /\ \A q \in Process : \A d \in bridge[q].pending :
            c.request = d.request => p = q /\ c = d
  /\ \A i \in 1 .. Len(ran) : ran[i][1] <= web.requests

WebInv ==
  /\ WebTypes /\ Unanswered /\ Numbered /\ Waiting
  /\ AnsweredOnce /\ ReplyToItsRequest

-----------------------------------------------------------------------------
(***************************************************************************)
(* Queues.                                                                 *)
(***************************************************************************)
\* What a queue holds after one more.
LEMMA Appended ==
  ASSUME NEW S, NEW s \in Seq(S), NEW t \in S
  PROVE  /\ Append(s, t) \in Seq(S) /\ Len(Append(s, t)) = Len(s) + 1
         /\ \A i \in 1 .. Len(s) : Append(s, t)[i] = s[i]
         /\ Append(s, t)[Len(s) + 1] = t
         /\ InSeq(Append(s, t)) = InSeq(s) \cup {t}
<1> DEFINE a == Append(s, t)
<1>1. /\ a \in Seq(S) /\ Len(a) = Len(s) + 1
      /\ \A i \in 1 .. Len(s) : a[i] = s[i]
      /\ a[Len(s) + 1] = t
  OBVIOUS
<1>2. InSeq(a) = InSeq(s) \cup {t}
  <2>1. Len(s) \in Nat
    OBVIOUS
  <2>2. \A i \in 1 .. Len(a) : i \in 1 .. Len(s) \/ i = Len(s) + 1
    BY <1>1, <2>1
  <2>3. Len(s) + 1 \in 1 .. Len(a) /\ \A i \in 1 .. Len(s) : i \in 1 .. Len(a)
    BY <1>1, <2>1
  <2> HIDE DEF a
  <2> QED BY <1>1, <2>2, <2>3, Zenon DEF InSeq
<1> QED BY <1>1, <1>2

\* What it holds after the first is taken out.
LEMMA Shortened ==
  ASSUME NEW S, NEW s \in Seq(S), s # <<>>
  PROVE  /\ Tail(s) \in Seq(S) /\ Len(Tail(s)) = Len(s) - 1
         /\ Head(s) = s[1] /\ Head(s) \in S /\ Head(s) \in InSeq(s)
         /\ \A i \in 1 .. Len(Tail(s)) : i + 1 \in 1 .. Len(s)
              /\ Tail(s)[i] = s[i + 1]
         /\ InSeq(Tail(s)) \subseteq InSeq(s)
<1>1. /\ Tail(s) \in Seq(S) /\ Len(Tail(s)) = Len(s) - 1 /\ Len(s) \in Nat
      /\ Head(s) = s[1] /\ 1 \in 1 .. Len(s) /\ s[1] \in S
      /\ \A i \in 1 .. Len(Tail(s)) : i + 1 \in 1 .. Len(s) /\ Tail(s)[i] = s[i + 1]
  OBVIOUS
<1>2. Head(s) \in InSeq(s)
  BY <1>1, Zenon DEF InSeq
<1>3. InSeq(Tail(s)) \subseteq InSeq(s)
  <2> SUFFICES ASSUME NEW i \in 1 .. Len(Tail(s)) PROVE Tail(s)[i] \in InSeq(s)
    BY DEF InSeq
  <2> QED BY <1>1, Zenon DEF InSeq
<1> QED BY <1>1, <1>2, <1>3

\* What a queue holds is of its type.
LEMMA InSeqTyped ==
  ASSUME NEW S, NEW s \in Seq(S)
  PROVE  InSeq(s) \subseteq S
BY DEF InSeq

\* A message more on its way to a process.
LEMMA Sent ==
  ASSUME WebTypes, NEW p \in Process, NEW m \in WireMessage, Send(p, m)
  PROVE  /\ wire' \in [Process -> Seq(WireMessage)]
         /\ \A q \in Process : \A n \in InSeq(wire'[q]) :
              n \in InSeq(wire[q]) \/ (q = p /\ n = m)
<1>1. /\ wire \in [Process -> Seq(WireMessage)]
      /\ wire' = [wire EXCEPT ![p] = Append(wire[p], m)]
  BY DEF WebTypes, Send
<1>2. /\ Append(wire[p], m) \in Seq(WireMessage)
      /\ InSeq(Append(wire[p], m)) = InSeq(wire[p]) \cup {m}
  BY <1>1, Appended
<1> DEFINE a == Append(wire[p], m)
<1> HIDE DEF a
<1>3. a \in Seq(WireMessage) /\ InSeq(a) = InSeq(wire[p]) \cup {m}
      /\ wire' = [wire EXCEPT ![p] = a]
  BY <1>1, <1>2 DEF a
<1> QED BY <1>1, <1>3

\* A message less.
LEMMA Delivered ==
  ASSUME WebTypes, NEW p \in Process, wire[p] # <<>>, Received(p)
  PROVE  /\ wire' \in [Process -> Seq(WireMessage)]
         /\ \A q \in Process : InSeq(wire'[q]) \subseteq InSeq(wire[q])
         /\ Head(wire[p]) \in WireMessage /\ Head(wire[p]) \in InSeq(wire[p])
<1>1. /\ wire \in [Process -> Seq(WireMessage)]
      /\ wire' = [wire EXCEPT ![p] = Tail(wire[p])]
  BY DEF WebTypes, Received
<1>2. /\ Tail(wire[p]) \in Seq(WireMessage)
      /\ InSeq(Tail(wire[p])) \subseteq InSeq(wire[p])
      /\ Head(wire[p]) \in WireMessage /\ Head(wire[p]) \in InSeq(wire[p])
  BY <1>1, Shortened
<1> DEFINE a == Tail(wire[p])
<1> HIDE DEF a
<1>3. a \in Seq(WireMessage) /\ InSeq(a) \subseteq InSeq(wire[p])
      /\ wire' = [wire EXCEPT ![p] = a]
  BY <1>1, <1>2 DEF a
<1> QED BY <1>1, <1>2, <1>3

\* What the constants are.
LEMMA Bounds ==
  /\ MaxProcesses \in Nat /\ MaxProcesses >= 1
  /\ MaxRequests \in Nat /\ MaxRequests >= 1
  /\ Views \cap Questions = {}
  /\ 1 \in Process
<1>1. MaxProcesses \in Nat \ {0} /\ MaxRequests \in Nat \ {0}
      /\ Views \cap Questions = {}
  BY WebConstants, Zenon
<1> QED BY <1>1 DEF Process

-----------------------------------------------------------------------------
(***************************************************************************)
(* Steps that leave the parts of the invariant alone.                      *)
(***************************************************************************)
\* A task goes, or one comes that answers nothing.
Quieter ==
  \/ ui' = ui
  \/ ui # <<>> /\ ui' = Tail(ui)
  \/ \E t \in UiTask : ~Answering(t) /\ ui' = Append(ui, t)

SameStart == \A v \in Views : view'[v].dart = "absent" <=> view[v].dart = "absent"

\* Nobody is answered and nobody asks.
LEMMA UnansweredKept ==
  ASSUME WebTypes, Unanswered, Quieter, SameStart, js' \subseteq js,
         \A c \in Views \cup Questions : answers'[c] = answers[c]
  PROVE  Unanswered'
<1>1. /\ \A t \in InSeq(ui') : Answering(t) => t \in InSeq(ui)
      /\ \A i, j \in 1 .. Len(ui') :
           /\ Answering(ui'[i]) /\ Answering(ui'[j])
           /\ Caller(ui'[i]) = Caller(ui'[j])
           => i = j
  <2>1. CASE ui' = ui
    BY <2>1 DEF Unanswered
  <2>2. CASE ui # <<>> /\ ui' = Tail(ui)
    <3>1. /\ ui' = Tail(ui) /\ Len(ui) \in Nat /\ Len(ui') = Len(ui) - 1
          /\ \A i \in 1 .. Len(ui') : i + 1 \in 1 .. Len(ui) /\ ui'[i] = ui[i + 1]
          /\ InSeq(ui') \subseteq InSeq(ui)
      BY <2>2, Shortened DEF WebTypes
    <3>2. ASSUME NEW i \in 1 .. Len(ui'), NEW j \in 1 .. Len(ui'),
                 Answering(ui'[i]), Answering(ui'[j]),
                 Caller(ui'[i]) = Caller(ui'[j])
          PROVE  i = j
      <4>1. /\ i + 1 \in 1 .. Len(ui) /\ j + 1 \in 1 .. Len(ui)
            /\ Answering(ui[i + 1]) /\ Answering(ui[j + 1])
            /\ Caller(ui[i + 1]) = Caller(ui[j + 1])
        BY <3>1, <3>2, Zenon
      <4>2. i + 1 = j + 1
        BY <4>1, Zenon DEF Unanswered
      <4> QED BY <4>2
    <3> QED BY <3>1, <3>2
  <2>3. CASE \E t \in UiTask : ~Answering(t) /\ ui' = Append(ui, t)
    <3>1. PICK t \in UiTask : ~Answering(t) /\ ui' = Append(ui, t)
      BY <2>3
    <3>2. /\ Len(ui) \in Nat /\ Len(ui') = Len(ui) + 1
          /\ \A i \in 1 .. Len(ui) : ui'[i] = ui[i]
          /\ ui'[Len(ui) + 1] = t
          /\ InSeq(ui') = InSeq(ui) \cup {t}
      BY <3>1, Appended DEF WebTypes
    <3>3. \A i \in 1 .. Len(ui') : i \in 1 .. Len(ui) \/ i = Len(ui) + 1
      BY <3>2
    <3>4. \A i \in 1 .. Len(ui') : Answering(ui'[i]) =>
            i \in 1 .. Len(ui) /\ ui'[i] = ui[i]
      BY <3>1, <3>2, <3>3, Zenon
    <3>5. \A s \in InSeq(ui') : Answering(s) => s \in InSeq(ui)
      BY <3>1, <3>2, Zenon
    <3>6. ASSUME NEW i \in 1 .. Len(ui'), NEW j \in 1 .. Len(ui'),
                 Answering(ui'[i]), Answering(ui'[j]),
                 Caller(ui'[i]) = Caller(ui'[j])
          PROVE  i = j
      BY <3>4, <3>6, Zenon DEF Unanswered
    <3> QED BY <3>5, <3>6
  <2> QED BY <2>1, <2>2, <2>3 DEF Quieter
<1>2. \A t \in InSeq(ui) : Answering(t) =>
        /\ Caller(t) \in Views \cup Questions
        /\ t.op = "create" => t.view \in Views
  <2>1. InSeq(ui) \subseteq UiTask
    BY InSeqTyped DEF WebTypes
  <2> QED BY <2>1 DEF UiTask, Asked, Answering, Caller
<1>3. \A t \in InSeq(ui') : Answering(t) =>
        /\ answers'[Caller(t)] = 0 /\ Caller(t) \notin js'
        /\ t.op = "create" => view'[t.view].dart # "absent"
  BY <1>1, <1>2, Zenon DEF Unanswered, SameStart
<1>4. \A q \in js' : answers'[q] = 0
  BY DEF Unanswered, WebTypes
<1>5. \A v \in Views : view'[v].dart = "absent" => answers'[v] = 0
  BY DEF Unanswered, SameStart
<1> QED BY <1>1, <1>3, <1>4, <1>5, Zenon DEF Unanswered

\* A call asks to be answered.
LEMMA UnansweredMore ==
  ASSUME WebTypes, Unanswered, NEW t \in UiTask, Answering(t), ui' = Append(ui, t),
         answers' = answers, js' = js, answers[Caller(t)] = 0, Caller(t) \notin js,
         \A i \in 1 .. Len(ui) : Answering(ui[i]) => Caller(ui[i]) # Caller(t),
         t.op = "create" => view'[t.view].dart # "absent",
         \A w \in Views : view'[w].dart = "absent" => view[w].dart = "absent",
         \A w \in Views : view[w].dart # "absent" => view'[w].dart # "absent"
  PROVE  Unanswered'
<1>1. /\ ui' \in Seq(UiTask) /\ Len(ui) \in Nat /\ Len(ui') = Len(ui) + 1
      /\ \A i \in 1 .. Len(ui) : ui'[i] = ui[i]
      /\ ui'[Len(ui) + 1] = t
      /\ InSeq(ui') = InSeq(ui) \cup {t}
  BY Appended DEF WebTypes
<1>2. ASSUME NEW i \in 1 .. Len(ui'), NEW j \in 1 .. Len(ui'),
             Answering(ui'[i]), Answering(ui'[j]),
             Caller(ui'[i]) = Caller(ui'[j])
      PROVE  i = j
  <2>1. \A k \in 1 .. Len(ui') : k \in 1 .. Len(ui) \/ k = Len(ui) + 1
    BY <1>1
  <2>2. CASE i \in 1 .. Len(ui) /\ j \in 1 .. Len(ui)
    BY <1>1, <1>2, <2>2, Zenon DEF Unanswered
  <2>3. CASE i = Len(ui) + 1 /\ j \in 1 .. Len(ui)
    BY <1>1, <1>2, <2>3, Zenon
  <2>4. CASE j = Len(ui) + 1 /\ i \in 1 .. Len(ui)
    BY <1>1, <1>2, <2>4, Zenon
  <2> QED BY <2>1, <2>2, <2>3, <2>4
<1>3. ASSUME NEW s \in InSeq(ui'), Answering(s)
      PROVE  /\ answers'[Caller(s)] = 0 /\ Caller(s) \notin js'
             /\ s.op = "create" => view'[s.view].dart # "absent"
  <2>1. CASE s = t
    BY <2>1
  <2>2. CASE s \in InSeq(ui)
    <3>1. s.op = "create" => s.view \in Views
      <4>1. s \in UiTask
        BY <2>2, InSeqTyped DEF WebTypes
      <4> QED BY <4>1 DEF UiTask, Asked
    <3> QED BY <1>3, <2>2, <3>1 DEF Unanswered
  <2> QED BY <1>1, <2>1, <2>2
<1>4. /\ \A q \in js' : answers'[q] = 0
      /\ \A w \in Views : view'[w].dart = "absent" => answers'[w] = 0
  BY DEF Unanswered
<1> QED BY <1>2, <1>3, <1>4, Zenon DEF Unanswered

\* A call is answered.
LEMMA UnansweredLess ==
  ASSUME WebTypes, Unanswered, ui # <<>>, ui' = Tail(ui), Answering(Head(ui)),
         answers' = [answers EXCEPT ![Caller(Head(ui))] = 1], js' = js, SameStart
  PROVE  Unanswered'
<1> DEFINE h == Head(ui)
           c == Caller(h)
<1>1. /\ Len(ui) \in Nat /\ Len(ui') = Len(ui) - 1 /\ h = ui[1] /\ h \in InSeq(ui)
      /\ \A i \in 1 .. Len(ui') : i + 1 \in 1 .. Len(ui) /\ ui'[i] = ui[i + 1]
      /\ InSeq(ui') \subseteq InSeq(ui) /\ InSeq(ui) \subseteq UiTask
           /\ h \in UiTask
      /\ 1 \in 1 .. Len(ui)
  BY Shortened, InSeqTyped DEF WebTypes
<1>2. c \in Views \cup Questions /\ (c \in Views => view[c].dart # "absent")
  BY <1>1, Bounds DEF UiTask, Asked, Answering, Caller, Unanswered
<1> HIDE DEF h, c
<1>3. /\ answers'[c] = 1
      /\ \A d \in Views \cup Questions : d # c => answers'[d] = answers[d]
  BY <1>2 DEF WebTypes, c, h
<1>4. ASSUME NEW i \in 1 .. Len(ui'), NEW j \in 1 .. Len(ui'),
             Answering(ui'[i]), Answering(ui'[j]),
             Caller(ui'[i]) = Caller(ui'[j])
      PROVE  i = j
  <2>1. /\ i + 1 \in 1 .. Len(ui) /\ j + 1 \in 1 .. Len(ui)
        /\ Answering(ui[i + 1]) /\ Answering(ui[j + 1])
        /\ Caller(ui[i + 1]) = Caller(ui[j + 1])
    BY <1>1, <1>4, Zenon
  <2>2. i + 1 = j + 1
    BY <2>1, Zenon DEF Unanswered
  <2> QED BY <2>2
<1>5. ASSUME NEW s \in InSeq(ui'), Answering(s)
      PROVE  /\ answers'[Caller(s)] = 0 /\ Caller(s) \notin js'
             /\ s.op = "create" => view'[s.view].dart # "absent"
  <2>1. PICK i \in 1 .. Len(ui') : s = ui'[i]
    BY <1>5 DEF InSeq
  <2>2. i + 1 \in 1 .. Len(ui) /\ s = ui[i + 1] /\ i + 1 # 1
    BY <1>1, <2>1
  <2>3. Caller(s) # c
    BY <1>1, <1>5, <2>2, Zenon DEF Unanswered, c, h
  <2>4. s \in InSeq(ui) /\ s \in UiTask
    BY <1>1
  <2>5. Caller(s) \in Views \cup Questions /\ (s.op = "create" => s.view \in Views)
    BY <1>5, <2>4 DEF UiTask, Asked, Answering, Caller
  <2> QED BY <1>3, <1>5, <2>3, <2>4, <2>5 DEF Unanswered, SameStart
<1>6. c \notin js
  BY <1>1 DEF Unanswered, c, h
<1>7. \A q \in js' : answers'[q] = 0
  BY <1>3, <1>6 DEF Unanswered, WebTypes
<1>8. \A w \in Views : view'[w].dart = "absent" => answers'[w] = 0
  BY <1>2, <1>3 DEF Unanswered, SameStart
<1> QED BY <1>4, <1>5, <1>7, <1>8, Zenon DEF Unanswered

\* No number stands for what it did not stand for.
LEMMA NumbersKept ==
  ASSUME Numbered,
         \A p \in Process : /\ bridge'[p].next = bridge[p].next
                            /\ bridge'[p].reqID = bridge[p].reqID,
         \A p \in Process, id \in Int, r \in Request :
           Stands(p, id, r)' => Stands(p, id, r)
  PROVE  Numbered'
BY DEF Numbered, Given

\* No request is on its way that was not.
NothingAsked ==
  /\ \A t \in InSeq(ui') : t.op = "request" => t \in InSeq(ui)
  /\ inbox' \subseteq inbox
  /\ \A p \in Process : \A m \in InSeq(wire'[p]) :
       m.op = "reply" => m \in InSeq(wire[p])

\* A step that asks nothing new, and leaves the counters of the bridges where
\* they are, keeps the numbers of the requests apart.
LEMMA SameNumbers ==
  ASSUME Numbered, NothingAsked,
         \A p \in Process : /\ bridge'[p].next = bridge[p].next
                            /\ bridge'[p].reqID = bridge[p].reqID
                            /\ bridge'[p].pending \subseteq bridge[p].pending
  PROVE  Numbered'
<1>1. ASSUME NEW p \in Process, NEW id \in Int, NEW r \in Request, Stands(p, id, r)'
      PROVE  Stands(p, id, r)
  BY <1>1 DEF Stands, NothingAsked
<1> QED BY <1>1, NumbersKept

\* A counter of the process that changes.
LEMMA WebFields ==
  ASSUME web \in Phases
  PROVE  /\ web.calls + 1 \in Nat /\ web.replies + 1 \in Nat
         /\ web.pages + 1 \in Nat /\ web.loaded + 1 \in Nat
         /\ web.processes \in Nat /\ web.requests \in 0 .. MaxRequests
         /\ \A n \in Nat :
              /\ [web EXCEPT !.calls = n] \in Phases
              /\ [web EXCEPT !.calls = n].requests = web.requests
         /\ \A n \in Nat :
              /\ [web EXCEPT !.replies = n] \in Phases
              /\ [web EXCEPT !.replies = n].requests = web.requests
         /\ \A n \in Nat :
              /\ [web EXCEPT !.pages = n] \in Phases
              /\ [web EXCEPT !.pages = n].requests = web.requests
         /\ \A n \in Nat, k \in Nat :
              /\ [web EXCEPT !.loaded = n, !.processes = k] \in Phases
              /\ [web EXCEPT !.loaded = n, !.processes = k].requests = web.requests
         /\ \A r \in 0 .. MaxRequests :
              /\ [web EXCEPT !.requests = r] \in Phases
              /\ [web EXCEPT !.requests = r].requests = r
<1>1. /\ web.calls + 1 \in Nat /\ web.replies + 1 \in Nat
      /\ web.pages + 1 \in Nat /\ web.loaded + 1 \in Nat
      /\ web.processes \in Nat /\ web.requests \in 0 .. MaxRequests
  BY DEF Phases
<1>2. ASSUME NEW n \in Nat
      PROVE  /\ [web EXCEPT !.calls = n] \in Phases
             /\ [web EXCEPT !.calls = n].requests = web.requests
             /\ [web EXCEPT !.replies = n] \in Phases
             /\ [web EXCEPT !.replies = n].requests = web.requests
             /\ [web EXCEPT !.pages = n] \in Phases
             /\ [web EXCEPT !.pages = n].requests = web.requests
  BY DEF Phases
<1>3. ASSUME NEW n \in Nat, NEW k \in Nat
      PROVE  /\ [web EXCEPT !.loaded = n, !.processes = k] \in Phases
             /\ [web EXCEPT !.loaded = n, !.processes = k].requests = web.requests
  BY DEF Phases
<1>4. ASSUME NEW r \in 0 .. MaxRequests
      PROVE  /\ [web EXCEPT !.requests = r] \in Phases
             /\ [web EXCEPT !.requests = r].requests = r
  BY DEF Phases
<1> QED BY <1>1, <1>2, <1>3, <1>4, Zenon

\* A controller that changes.
LEMMA ViewChanged ==
  ASSUME WebTypes, NEW v \in Views, NEW x \in View,
         view' = [view EXCEPT ![v] = x],
         x.dart = "absent" <=> view[v].dart = "absent"
  PROVE  view' \in [Views -> View] /\ SameStart
BY DEF WebTypes, SameStart

\* Nothing happens between the pages and their bridges.
LEMMA QuietBridges ==
  ASSUME WebInv, WebTypes', Unanswered', AnsweredOnce', NothingAsked,
         page' = page, bridge' = bridge, ran' = ran, web'.requests = web.requests
  PROVE  WebInv'
<1>1. Numbered'
  BY SameNumbers DEF WebInv
<1>2. Waiting' /\ ReplyToItsRequest'
  BY DEF WebInv, Waiting, ReplyToItsRequest
<1> QED BY <1>1, <1>2 DEF WebInv

\* Nor does anybody answer.
LEMMA QuietStep ==
  ASSUME WebInv, WebTypes', Quieter, SameStart, js' \subseteq js,
         \A c \in Views \cup Questions : answers'[c] = answers[c],
         NothingAsked, page' = page, bridge' = bridge, ran' = ran,
         web'.requests = web.requests
  PROVE  WebInv'
<1>1. Unanswered'
  BY UnansweredKept DEF WebInv
<1>2. AnsweredOnce'
  BY DEF WebInv, AnsweredOnce
<1> QED BY <1>1, <1>2, QuietBridges

\* Where nothing waits nothing can be wrong.
Clean ==
  /\ view = [v \in Views |-> NewView] /\ ui = <<>> /\ page = {}
  /\ wire = [p \in Process |-> <<>>]
  /\ bridge = [p \in Process |-> NewBridge]
  /\ js = {} /\ answers = [c \in Views \cup Questions |-> 0]
  /\ inbox = {} /\ ran = <<>>
  /\ \E phase \in {"running", "stopped", "crashed"} :
       web = [NewWeb EXCEPT !.phase = phase]

\* Nothing has been asked, posted or made: the invariant holds.
LEMMA CleanInv == Clean => WebInv
<1> SUFFICES ASSUME Clean PROVE WebInv
  OBVIOUS
<1> USE DEF Clean
<1>1. view \in [Views -> View]
  BY Bounds DEF NewView, View
<1>2. bridge \in [Process -> Counter] /\ \A p \in Process : bridge[p].pending = {}
  BY DEF NewBridge, Counter
<1>3. web \in Phases
  BY Bounds DEF NewWeb, Phases
<1>4. WebTypes
  BY <1>1, <1>2, <1>3 DEF WebTypes
<1>5. InSeq(ui) = {} /\ Len(ui) = 0 /\ Len(ran) = 0
      /\ \A p \in Process : InSeq(wire[p]) = {}
  BY DEF InSeq
<1>6. Unanswered /\ AnsweredOnce
  BY <1>5 DEF Unanswered, AnsweredOnce
<1>7. Numbered
  BY <1>2, <1>5 DEF Numbered, Stands
<1>8. Waiting /\ ReplyToItsRequest
  BY <1>2, <1>5 DEF Waiting, ReplyToItsRequest
<1> QED BY <1>4, <1>6, <1>7, <1>8 DEF WebInv

\* The plug-in starts clean.
LEMMA InitWebInv == InitWeb => WebInv
<1>1. NewWeb = [NewWeb EXCEPT !.phase = "running"]
  BY DEF NewWeb
<1> QED BY <1>1, CleanInv DEF InitWeb, Clean

\* The process is gone.
LEMMA EndKeeps ==
  ASSUME NEW phase \in {"running", "stopped", "crashed"}, End(phase)
  PROVE  WebInv'
<1>1. Clean'
  BY DEF End, Clean
<1>2. Clean' => WebInv'
  BY CleanInv, PTL
<1> QED BY <1>1, <1>2

-----------------------------------------------------------------------------
(***************************************************************************)
(* The application and the platform thread.                                *)
(***************************************************************************)
\* A task that answers nothing and asks nothing.
LEMMA Posted ==
  ASSUME WebTypes, NEW t \in UiTask,
         t.op \in {"navigate", "resize", "destroy", "value"},
         Post(t)
  PROVE  /\ ui' \in Seq(UiTask) /\ Quieter
         /\ \A s \in InSeq(ui') : s.op = "request" => s \in InSeq(ui)
<1>1. ui' = Append(ui, t) /\ ui \in Seq(UiTask) /\ ~Answering(t)
      /\ t.op # "request"
  BY DEF Post, WebTypes, Answering
<1>2. InSeq(ui') = InSeq(ui) \cup {t} /\ ui' \in Seq(UiTask)
  BY <1>1, Appended
<1> QED BY <1>1, <1>2, Zenon DEF Quieter

\* A task taken off the queue.
LEMMA Taken ==
  ASSUME WebTypes, ui # <<>>, Done
  PROVE  /\ ui' \in Seq(UiTask) /\ Quieter
         /\ InSeq(ui') \subseteq InSeq(ui)
         /\ Head(ui) \in UiTask /\ Head(ui) \in InSeq(ui)
BY Shortened DEF Done, WebTypes, Quieter

\* The application asks for a browser.
LEMMA CreateKeeps ==
  ASSUME WebInv, NEW v \in Views, Create(v)
  PROVE  WebInv'
<1> DEFINE t == [op |-> "create", view |-> v]
<1>1. /\ WebTypes /\ view[v].dart = "absent" /\ t \in UiTask
      /\ view' = [view EXCEPT ![v].dart = "creating"]
      /\ ui' = Append(ui, t)
      /\ web' = [web EXCEPT !.pages = @ + 1]
      /\ UNCHANGED <<page, wire, bridge, js, answers, inbox, ran>>
  BY DEF Create, WebInv, Post, UiTask
<1>2. t.op = "create" /\ t.view = v /\ Answering(t) /\ Caller(t) = v
  BY DEF Answering, Caller
<1> HIDE DEF t
<1>3. /\ ui' \in Seq(UiTask) /\ Len(ui) \in Nat /\ Len(ui') = Len(ui) + 1
      /\ \A i \in 1 .. Len(ui) : ui'[i] = ui[i]
      /\ ui'[Len(ui) + 1] = t
      /\ InSeq(ui') = InSeq(ui) \cup {t}
  BY <1>1, Appended DEF WebTypes
<1>4. /\ view' \in [Views -> View] /\ view'[v].dart # "absent"
      /\ \A w \in Views : view'[w].dart = "absent" => view[w].dart = "absent"
      /\ \A w \in Views : view[w].dart # "absent" => view'[w].dart # "absent"
  <2> DEFINE x == [view[v] EXCEPT !.dart = "creating"]
  <2>1. x \in View /\ x.dart = "creating"
    <3>1. view[v] \in View
      BY <1>1 DEF WebTypes
    <3> QED BY <3>1 DEF View
  <2>2. view' = [view EXCEPT ![v] = x] /\ view \in [Views -> View]
    BY <1>1 DEF WebTypes
  <2> HIDE DEF x
  <2>3. view' \in [Views -> View]
    BY <2>1, <2>2
  <2>4. /\ view'[v] = x
        /\ \A w \in Views : w # v => view'[w] = view[w]
    BY <2>2
  <2> QED BY <1>1, <2>1, <2>3, <2>4
<1>5. web' \in Phases /\ web'.requests = web.requests
  <2> DEFINE n == web.pages + 1
  <2>1. web \in Phases /\ n \in Nat /\ web' = [web EXCEPT !.pages = n]
    BY <1>1, WebFields DEF WebTypes
  <2> HIDE DEF n
  <2> QED BY <2>1, WebFields
<1>6. WebTypes'
  BY <1>1, <1>3, <1>4, <1>5 DEF WebTypes
<1>7. answers[v] = 0 /\ v \notin js
  BY <1>1, Bounds DEF WebInv, Unanswered, WebTypes
<1>8. \A i \in 1 .. Len(ui) : Answering(ui[i]) => Caller(ui[i]) # v
  <2> SUFFICES ASSUME NEW i \in 1 .. Len(ui), Answering(ui[i]), Caller(ui[i]) = v
               PROVE  FALSE
    OBVIOUS
  <2>1. ui[i] \in UiTask /\ ui[i] \in InSeq(ui)
    BY <1>1 DEF InSeq, WebTypes
  <2>2. ui[i].op = "create" /\ ui[i].view = v
    BY <2>1, Bounds DEF UiTask, Asked, Answering, Caller
  <2>3. view[v].dart # "absent"
    BY <2>1, <2>2 DEF WebInv, Unanswered
  <2> QED BY <1>1, <2>3
<1>9. Unanswered'
  BY <1>1, <1>2, <1>4, <1>7, <1>8, UnansweredMore DEF WebInv
<1>10. NothingAsked
  BY <1>1, <1>2, <1>3 DEF NothingAsked
<1>11. AnsweredOnce'
  BY <1>1 DEF WebInv, AnsweredOnce
<1> QED BY <1>1, <1>5, <1>6, <1>9, <1>10, <1>11, QuietBridges

\* A change of the phase of a controller.
LEMMA CreatedKeeps ==
  ASSUME WebInv, NEW v \in Views, Created(v) \/ Dispose(v)
  PROVE  WebInv'
<1>1. /\ WebTypes /\ view[v].dart # "absent"
      /\ \/ view' = [view EXCEPT ![v].dart = "ready"]
         \/ view' = [view EXCEPT ![v].leaving = TRUE]
      /\ UNCHANGED <<ui, page, wire, bridge, js, answers, inbox, ran, web>>
  BY DEF Created, Dispose, WebInv
<1>2. view' \in [Views -> View] /\ SameStart
  <2> DEFINE x == [view[v] EXCEPT !.dart = "ready"]
             y == [view[v] EXCEPT !.leaving = TRUE]
  <2>1. /\ x \in View /\ x.dart = "ready"
        /\ y \in View /\ y.dart = view[v].dart
    <3>1. view[v] \in View
      BY <1>1 DEF WebTypes
    <3> QED BY <3>1 DEF View
  <2>2. view' = [view EXCEPT ![v] = x] \/ view' = [view EXCEPT ![v] = y]
    BY <1>1
  <2> HIDE DEF x, y
  <2> QED BY <1>1, <2>1, <2>2, ViewChanged
<1>3. WebTypes'
  BY <1>1, <1>2 DEF WebTypes
<1>4. NothingAsked /\ Quieter
  BY <1>1 DEF NothingAsked, Quieter
<1> QED BY <1>1, <1>2, <1>3, <1>4, QuietStep

\* The application gives a browser up.
LEMMA CloseKeeps ==
  ASSUME WebInv, NEW v \in Views, Close(v)
  PROVE  WebInv'
<1>1. /\ WebTypes /\ view[v].dart # "absent" /\ closeBrowser(v)
      /\ UNCHANGED <<page, wire, bridge, js, answers, inbox, ran, web>>
  BY DEF Close, Usable, WebInv
<1>2. view' \in [Views -> View] /\ SameStart
  <2> DEFINE x == [view[v] EXCEPT !.dart = "disposed", !.entry = "absent",
                                  !.cef = "closing", !.texture = "reset"]
             y == [view[v] EXCEPT !.dart = "disposed", !.texture = "reset"]
  <2>1. /\ x \in View /\ x.dart = "disposed"
        /\ y \in View /\ y.dart = "disposed"
    BY <1>1 DEF WebTypes, View
  <2>2. view' = [view EXCEPT ![v] = x] \/ view' = [view EXCEPT ![v] = y]
    BY <1>1 DEF closeBrowser
  <2> HIDE DEF x, y
  <2> QED BY <1>1, <2>1, <2>2, ViewChanged
<1>3. /\ ui' \in Seq(UiTask) /\ Quieter
      /\ \A s \in InSeq(ui') : s.op = "request" => s \in InSeq(ui)
  <2>1. CASE view[v].entry = "browser"
    <3>1. Post([op |-> "destroy", view |-> v])
      BY <1>1, <2>1 DEF closeBrowser
    <3>2. [op |-> "destroy", view |-> v] \in UiTask
      BY DEF UiTask
    <3> QED BY <1>1, <3>1, <3>2, Posted
  <2>2. CASE view[v].entry # "browser"
    BY <1>1, <2>2 DEF closeBrowser, WebTypes, Quieter
  <2> QED BY <2>1, <2>2
<1>4. WebTypes'
  BY <1>1, <1>2, <1>3 DEF WebTypes
<1>5. NothingAsked
  BY <1>1, <1>3 DEF NothingAsked
<1> QED BY <1>1, <1>2, <1>3, <1>4, <1>5, QuietStep

\* A navigation and a resize are posted to CEF's thread.
LEMMA NavigateKeeps ==
  ASSUME WebInv, NEW v \in Views, Navigate(v) \/ SetSize(v)
  PROVE  WebInv'
<1>1. PICK op \in {"navigate", "resize"} : Post([op |-> op, view |-> v])
  BY DEF Navigate, SetSize
<1>2. /\ WebTypes
      /\ \/ web' = [web EXCEPT !.pages = @ + 1]
         \/ web' = [web EXCEPT !.calls = @ + 1]
      /\ UNCHANGED <<view, page, wire, bridge, js, answers, inbox, ran>>
  BY DEF Navigate, SetSize, OneCall, WebInv
<1>3. [op |-> op, view |-> v] \in UiTask
  BY DEF UiTask
<1>4. /\ ui' \in Seq(UiTask) /\ Quieter
      /\ \A s \in InSeq(ui') : s.op = "request" => s \in InSeq(ui)
  BY <1>1, <1>2, <1>3, Posted
<1>5. web' \in Phases /\ web'.requests = web.requests
  <2> DEFINE n == web.pages + 1
             k == web.calls + 1
  <2>1. /\ web \in Phases /\ n \in Nat /\ k \in Nat
        /\ \/ web' = [web EXCEPT !.pages = n]
           \/ web' = [web EXCEPT !.calls = k]
    BY <1>2, WebFields DEF WebTypes
  <2> HIDE DEF n, k
  <2> QED BY <2>1, WebFields
<1>6. WebTypes'
  BY <1>2, <1>4, <1>5 DEF WebTypes
<1>7. NothingAsked /\ SameStart
  BY <1>2, <1>4 DEF NothingAsked, SameStart
<1> QED BY <1>2, <1>4, <1>5, <1>6, <1>7, QuietStep

\* A key that is sent while a texture is gone ends the process.
LEMMA SendKeyEventKeeps ==
  ASSUME WebInv, NEW v \in Views, SendKeyEvent(v)
  PROVE  WebInv'
BY EndKeeps DEF SendKeyEvent

\* So do a shutdown, and two threads in the map at once.
LEMMA StopKeeps ==
  ASSUME WebInv, Stop \/ Collide
  PROVE  WebInv'
BY EndKeeps DEF Stop, Collide

\* A visit of the cookies is asked for, its answer owed once.
LEMMA VisitCookiesKeeps ==
  ASSUME WebInv, NEW q \in Questions, VisitCookies(q)
  PROVE  WebInv'
<1>1. PICK total \in 1 .. 2 :
        Post([op |-> "visit", question |-> q, total |-> total])
  BY DEF VisitCookies
<1> DEFINE t == [op |-> "visit", question |-> q, total |-> total]
           n == web.calls + 1
<1>2. /\ WebTypes /\ t \in UiTask /\ ui' = Append(ui, t)
      /\ answers[q] = 0 /\ q \notin js
      /\ \A i \in 1 .. Len(ui) : ui[i].op = "visit" => ui[i].question # q
      /\ web' = [web EXCEPT !.calls = n] /\ n \in Nat
      /\ UNCHANGED <<view, page, wire, bridge, js, answers, inbox, ran>>
  BY <1>1, WebFields DEF VisitCookies, OneCall, WebInv, Post, UiTask, WebTypes
<1>3. t.op = "visit" /\ t.question = q /\ Answering(t) /\ Caller(t) = q
  BY DEF Answering, Caller
<1> HIDE DEF t, n
<1>4. ui' \in Seq(UiTask) /\ InSeq(ui') = InSeq(ui) \cup {t}
  BY <1>2, Appended DEF WebTypes
<1>5. web' \in Phases /\ web'.requests = web.requests
  BY <1>2, WebFields DEF WebTypes
<1>6. WebTypes'
  BY <1>2, <1>4, <1>5 DEF WebTypes
<1>7. \A i \in 1 .. Len(ui) : Answering(ui[i]) => Caller(ui[i]) # q
  <2> SUFFICES ASSUME NEW i \in 1 .. Len(ui), Answering(ui[i]), Caller(ui[i]) = q
               PROVE  FALSE
    OBVIOUS
  <2>1. ui[i] \in UiTask
    BY <1>2 DEF WebTypes
  <2>2. ui[i].op = "visit" /\ ui[i].question = q
    BY <2>1, Bounds DEF UiTask, Asked, Answering, Caller
  <2> QED BY <1>2, <2>2
<1>8. Unanswered'
  BY <1>2, <1>3, <1>7, UnansweredMore DEF WebInv
<1>9. NothingAsked
  BY <1>2, <1>3, <1>4 DEF NothingAsked
<1>10. AnsweredOnce'
  BY <1>2 DEF WebInv, AnsweredOnce
<1> QED BY <1>2, <1>5, <1>6, <1>8, <1>9, <1>10, QuietBridges

\* The callback of an evaluation waits for a call that nothing else answers.
LEMMA EvaluateKeeps ==
  ASSUME WebInv, NEW v \in Views, NEW q \in Questions, Evaluate(v, q)
  PROVE  WebInv'
<1> DEFINE m == [op |-> "script", view |-> v, question |-> q]
           n == web.calls + 1
           p == view[v].process
<1>1. /\ WebTypes /\ m \in WireMessage /\ m.op = "script" /\ p \in Process
      /\ answers[q] = 0 /\ js' = js \cup {q}
      /\ \A i \in 1 .. Len(ui) : ui[i].op = "visit" => ui[i].question # q
      /\ web' = [web EXCEPT !.calls = n] /\ n \in Nat
      /\ Send(p, m)
      /\ UNCHANGED <<view, ui, page, bridge, answers, inbox, ran>>
  BY WebFields DEF Evaluate, OneCall, WebInv, WireMessage, WebTypes, View
<1> HIDE DEF m, n, p
<1>2. /\ wire' \in [Process -> Seq(WireMessage)]
      /\ \A r \in Process : \A k \in InSeq(wire'[r]) :
           k \in InSeq(wire[r]) \/ (r = p /\ k = m)
  BY <1>1, Sent
<1>3. web' \in Phases /\ web'.requests = web.requests
  BY <1>1, WebFields DEF WebTypes
<1>4. WebTypes'
  BY <1>1, <1>2, <1>3 DEF WebTypes
<1>5. \A t \in InSeq(ui) : Answering(t) => Caller(t) # q
  <2> SUFFICES ASSUME NEW i \in 1 .. Len(ui), Answering(ui[i]), Caller(ui[i]) = q
               PROVE  FALSE
    BY DEF InSeq
  <2>1. ui[i] \in UiTask
    BY <1>1 DEF WebTypes
  <2>2. ui[i].op = "visit" /\ ui[i].question = q
    BY <2>1, Bounds DEF UiTask, Asked, Answering, Caller
  <2> QED BY <1>1, <2>2
<1>6. Unanswered'
  BY <1>1, <1>5 DEF WebInv, Unanswered, Answering, Caller
<1>7. NothingAsked
  BY <1>1, <1>2 DEF NothingAsked
<1>8. AnsweredOnce'
  BY <1>1 DEF WebInv, AnsweredOnce
<1> QED BY <1>1, <1>3, <1>4, <1>6, <1>7, <1>8, QuietBridges

\* An answer takes the number and the request of what it answers.
LEMMA ReplyKeeps ==
  ASSUME WebInv, NEW m \in inbox, sendJavaScriptChannelCallBack(m)
  PROVE  WebInv'
<1> DEFINE t == [op |-> "reply", id |-> m.id, request |-> m.request]
           n == web.replies + 1
<1>1. /\ WebTypes /\ t \in WireMessage
      /\ t.op = "reply" /\ t.id = m.id /\ t.request = m.request
      /\ m.process \in Process /\ m.view \in Views
      /\ web' = [web EXCEPT !.replies = n] /\ n \in Nat
      /\ UNCHANGED <<view, ui, page, bridge, js, answers, inbox, ran>>
  BY WebFields DEF sendJavaScriptChannelCallBack, WebInv, WireMessage, WebTypes,
     Asked
<1>2. UNCHANGED wire \/ Send(m.process, t)
  BY DEF sendJavaScriptChannelCallBack, Addressee
<1> HIDE DEF t, n
<1>3. /\ wire' \in [Process -> Seq(WireMessage)]
      /\ \A r \in Process : \A k \in InSeq(wire'[r]) :
           k \in InSeq(wire[r]) \/ (r = m.process /\ k = t)
  <2>1. CASE UNCHANGED wire
    BY <1>1, <2>1 DEF WebTypes
  <2>2. CASE Send(m.process, t)
    BY <1>1, <2>2, Sent
  <2> QED BY <1>2, <2>1, <2>2
<1>4. web' \in Phases /\ web'.requests = web.requests
  BY <1>1, WebFields DEF WebTypes
<1>5. WebTypes'
  BY <1>1, <1>3, <1>4 DEF WebTypes
<1>6. Quieter /\ SameStart
  BY <1>1 DEF Quieter, SameStart
<1>7. Unanswered'
  BY <1>1, <1>6, UnansweredKept DEF WebInv
<1>8. ASSUME NEW r \in Process, NEW id \in Int, NEW k \in Request, Stands(r, id, k)'
      PROVE  Stands(r, id, k)
  <2>1. CASE \E s \in InSeq(wire'[r]) : s.op = "reply" /\ s.id = id /\ s.request = k
    BY <1>1, <1>3, <2>1 DEF Stands
  <2>2. CASE ~\E s \in InSeq(wire'[r]) : s.op = "reply" /\ s.id = id
        /\ s.request = k
    BY <1>1, <1>8, <2>2 DEF Stands
  <2> QED BY <2>1, <2>2
<1>9. Numbered'
  BY <1>1, <1>8, NumbersKept DEF WebInv
<1>10. Waiting' /\ AnsweredOnce' /\ ReplyToItsRequest'
  BY <1>1, <1>4 DEF WebInv, Waiting, AnsweredOnce, ReplyToItsRequest
<1> QED BY <1>5, <1>7, <1>9, <1>10 DEF WebInv

-----------------------------------------------------------------------------
(***************************************************************************)
(* The CEF UI thread.                                                      *)
(***************************************************************************)
\* The first answer.
LEMMA FirstAnswer ==
  ASSUME NEW c, answers[c] = 0, NEW n, n = 1,
         answers' = [answers EXCEPT ![c] = @ + n]
  PROVE  answers' = [answers EXCEPT ![c] = 1]
<1>1. answers[c] + n = 1
  OBVIOUS
<1> QED BY <1>1, Zenon

\* The process that a page is loaded in.
LEMMA LoadTyped ==
  ASSUME WebTypes, NEW v \in Views, NEW p \in Process, Loads(p)
  PROVE  /\ Load(v) \in WireMessage /\ Load(v).op = "load"
         /\ Leave(v) \in WireMessage /\ Leave(v).op = "leave"
         /\ web' \in Phases /\ web'.requests = web.requests
<1>1. web \in Phases /\ web.loaded + 1 \in Nat
  BY WebFields DEF WebTypes
<1>2. Load(v) \in WireMessage /\ Load(v).op = "load"
      /\ Leave(v) \in WireMessage /\ Leave(v).op = "leave"
  BY <1>1 DEF Load, Leave, WireMessage
<1> DEFINE n == web.loaded + 1
           k == IF p > web.processes THEN p ELSE web.processes
<1>3. n \in Nat /\ k \in Nat
  <2>1. p \in Nat /\ web.processes \in Nat /\ web.loaded + 1 \in Nat
    <3>1. p \in Nat
      BY Bounds DEF Process
    <3>2. web.processes \in Nat /\ web.loaded + 1 \in Nat
      BY <1>1, WebFields, Zenon
    <3> QED BY <3>1, <3>2
  <2> QED BY <2>1
<1>4. web' = [web EXCEPT !.loaded = n, !.processes = k]
  BY DEF Loads
<1> HIDE DEF n, k
<1>5. web' \in Phases /\ web'.requests = web.requests
  BY <1>1, <1>3, <1>4, WebFields
<1> QED BY <1>2, <1>5

\* The creation is answered: nobody else answers it.
LEMMA createBrowserKeeps ==
  ASSUME WebInv, NEW p \in Process, createBrowser(p)
  PROVE  WebInv'
<1> DEFINE h == Head(ui)
           v == h.view
<1>1. /\ WebTypes /\ ui # <<>> /\ h.op = "create" /\ Done /\ Loads(p)
      /\ view' = [view EXCEPT ![v].entry = "browser", ![v].cef = "open",
                              ![v].texture = "live", ![v].process = p]
      /\ Send(p, Load(v)) /\ Answer(v)
      /\ UNCHANGED <<page, bridge, js, inbox, ran>>
  BY DEF createBrowser, Task, WebInv
<1>2. /\ ui' \in Seq(UiTask) /\ InSeq(ui') \subseteq InSeq(ui)
      /\ h \in UiTask /\ h \in InSeq(ui)
  BY <1>1, Taken
<1>3. v \in Views /\ Answering(h) /\ Caller(h) = v
  BY <1>1, <1>2 DEF UiTask, Asked, Answering, Caller
<1>4. answers[v] = 0 /\ answers' = [answers EXCEPT ![Caller(h)] = 1]
  <2>1. answers[v] = 0
    BY <1>1, <1>2, <1>3 DEF WebInv, Unanswered
  <2> HIDE DEF v
  <2>2. answers' = [answers EXCEPT ![v] = 1]
    BY <1>1, <2>1, FirstAnswer DEF Answer
  <2> QED BY <1>3, <2>1, <2>2
<1> HIDE DEF v
<1>5. view' \in [Views -> View] /\ SameStart
  <2> DEFINE x == [view[v] EXCEPT !.entry = "browser", !.cef = "open",
                                  !.texture = "live", !.process = p]
  <2>1. x \in View /\ x.dart = view[v].dart
    <3>1. view[v] \in View
      BY <1>1, <1>3 DEF WebTypes
    <3> QED BY <3>1 DEF View
  <2>2. view' = [view EXCEPT ![v] = x]
    BY <1>1
  <2> HIDE DEF x
  <2> QED BY <1>1, <1>3, <2>1, <2>2, ViewChanged
<1>6. /\ Load(v) \in WireMessage /\ Load(v).op = "load"
      /\ web' \in Phases /\ web'.requests = web.requests
  BY <1>1, <1>3, LoadTyped
<1>7. /\ wire' \in [Process -> Seq(WireMessage)]
      /\ \A r \in Process : \A k \in InSeq(wire'[r]) :
           k \in InSeq(wire[r]) \/ (r = p /\ k = Load(v))
  BY <1>1, <1>6, Sent
<1>8. answers' \in [Views \cup Questions -> Nat]
  BY <1>1, <1>3, <1>4 DEF WebTypes
<1>9. WebTypes'
  BY <1>1, <1>2, <1>5, <1>6, <1>7, <1>8 DEF WebTypes
<1>10. Unanswered'
  BY <1>1, <1>3, <1>4, <1>5, UnansweredLess DEF WebInv, Done
<1>11. AnsweredOnce'
  BY <1>1, <1>3, <1>4 DEF WebInv, WebTypes, AnsweredOnce
<1>12. NothingAsked
  BY <1>1, <1>2, <1>6, <1>7 DEF NothingAsked
<1> QED BY <1>1, <1>6, <1>9, <1>10, <1>11, <1>12, QuietBridges

\* A page is loaded, and the process of the page before is told.
LEMMA NavigatedKeeps ==
  ASSUME WebInv, NEW p \in Process, Navigated(p)
  PROVE  WebInv'
<1> DEFINE h == Head(ui)
           v == h.view
           old == view[v].process
<1>1. /\ WebTypes /\ ui # <<>> /\ h.op = "navigate" /\ Done
      /\ UNCHANGED <<page, bridge, js, answers, inbox, ran>>
  BY DEF Navigated, Task, WebInv
<1>2. /\ ui' \in Seq(UiTask) /\ Quieter /\ InSeq(ui') \subseteq InSeq(ui)
      /\ h \in UiTask
  BY <1>1, Taken
<1>3. v \in Views /\ old \in Process
  BY <1>1, <1>2 DEF UiTask, Asked, WebTypes, View
<1>4. CASE view[v].cef # "open"
  <2>1. UNCHANGED <<view, wire, web>>
    BY <1>4 DEF Navigated
  <2>2. WebTypes' /\ SameStart
    BY <1>1, <1>2, <2>1 DEF WebTypes, SameStart
  <2>3. NothingAsked
    BY <1>1, <1>2, <2>1 DEF NothingAsked
  <2> QED BY <1>1, <1>2, <2>1, <2>2, <2>3, QuietStep
<1>5. CASE view[v].cef = "open"
  <2>1. /\ Loads(p) /\ view' = [view EXCEPT ![v].process = p]
        /\ wire' = [q \in Process |->
                     CASE q = p -> Append(wire[q], Load(v))
                       [] q = old /\ q # p -> Append(wire[q], Leave(v))
                       [] OTHER -> wire[q]]
    BY <1>5 DEF Navigated
  <2> HIDE DEF v, old
  <2>2. view' \in [Views -> View] /\ SameStart
    <3> DEFINE x == [view[v] EXCEPT !.process = p]
    <3>1. x \in View /\ x.dart = view[v].dart
      BY <1>1, <1>3 DEF WebTypes, View
    <3>2. view' = [view EXCEPT ![v] = x]
      BY <2>1
    <3> HIDE DEF x
    <3> QED BY <1>1, <1>3, <3>1, <3>2, ViewChanged
  <2>3. /\ Load(v) \in WireMessage /\ Load(v).op = "load"
        /\ Leave(v) \in WireMessage /\ Leave(v).op = "leave"
        /\ web' \in Phases /\ web'.requests = web.requests
    BY <1>1, <1>3, <2>1, LoadTyped
  <2>4. ASSUME NEW q \in Process
        PROVE  /\ wire'[q] \in Seq(WireMessage)
               /\ \A k \in InSeq(wire'[q]) : k.op = "reply" => k \in InSeq(wire[q])
    <3>1. wire[q] \in Seq(WireMessage)
      BY <1>1 DEF WebTypes
    <3>2. CASE q = p
      <4>1. wire'[q] = Append(wire[q], Load(v))
        BY <2>1, <3>2
      <4> QED BY <2>3, <3>1, <4>1, Appended
    <3>3. CASE q = old /\ q # p
      <4>1. wire'[q] = Append(wire[q], Leave(v))
        BY <2>1, <3>3
      <4> QED BY <2>3, <3>1, <4>1, Appended
    <3>4. CASE q # p /\ q # old
      <4>1. wire'[q] = wire[q]
        BY <2>1, <3>4
      <4> QED BY <3>1, <4>1
    <3> QED BY <3>2, <3>3, <3>4
  <2>5. wire' \in [Process -> Seq(WireMessage)]
    BY <2>1, <2>4
  <2>6. WebTypes'
    BY <1>1, <1>2, <2>2, <2>3, <2>5 DEF WebTypes
  <2>7. NothingAsked
    BY <1>1, <1>2, <2>4 DEF NothingAsked
  <2> QED BY <1>1, <1>2, <2>2, <2>3, <2>6, <2>7, QuietStep
<1> QED BY <1>4, <1>5

\* The measures are asked for, or the browser is closed.
LEMMA ResizedKeeps ==
  ASSUME WebInv, Resized
  PROVE  WebInv'
<1> DEFINE h == Head(ui)
           v == h.view
<1>1. /\ WebTypes /\ ui # <<>> /\ h.op = "resize" /\ Done
      /\ UNCHANGED <<page, wire, bridge, js, answers, inbox, ran, web>>
  BY DEF Resized, Task, WebInv
<1>2. /\ ui' \in Seq(UiTask) /\ Quieter /\ InSeq(ui') \subseteq InSeq(ui)
      /\ h \in UiTask
  BY <1>1, Taken
<1>3. v \in Views
  BY <1>1, <1>2 DEF UiTask, Asked
<1>4. \E e \in {view[v].entry, "null"} : view' = [view EXCEPT ![v].entry = e]
  BY DEF Resized
<1> HIDE DEF v
<1>5. view' \in [Views -> View] /\ SameStart
  <2>1. PICK e \in {view[v].entry, "null"} : view' = [view EXCEPT ![v].entry = e]
    BY <1>4
  <2> DEFINE x == [view[v] EXCEPT !.entry = e]
  <2>2. x \in View /\ x.dart = view[v].dart
    BY <1>1, <1>3, <2>1 DEF WebTypes, View
  <2>3. view' = [view EXCEPT ![v] = x]
    BY <2>1
  <2> HIDE DEF x
  <2> QED BY <1>1, <1>3, <2>2, <2>3, ViewChanged
<1>6. WebTypes'
  BY <1>1, <1>2, <1>5 DEF WebTypes
<1>7. NothingAsked
  BY <1>1, <1>2 DEF NothingAsked
<1> QED BY <1>1, <1>2, <1>5, <1>6, <1>7, QuietStep

\* CEF's thread ends a browser, and its page is told to leave.
LEMMA DestroyedKeeps ==
  ASSUME WebInv, Destroyed
  PROVE  WebInv'
<1> DEFINE h == Head(ui)
           v == h.view
           p == view[v].process
<1>1. /\ WebTypes /\ ui # <<>> /\ h.op = "destroy" /\ Done
      /\ view' = [view EXCEPT ![v].cef = "gone"]
      /\ Send(p, Leave(v))
      /\ UNCHANGED <<page, bridge, js, answers, inbox, ran, web>>
  BY DEF Destroyed, Task, WebInv
<1>2. /\ ui' \in Seq(UiTask) /\ Quieter /\ InSeq(ui') \subseteq InSeq(ui)
      /\ h \in UiTask
  BY <1>1, Taken
<1>3. v \in Views /\ p \in Process
  BY <1>1, <1>2 DEF UiTask, Asked, WebTypes, View
<1> HIDE DEF v, p
<1>4. view' \in [Views -> View] /\ SameStart
  <2> DEFINE x == [view[v] EXCEPT !.cef = "gone"]
  <2>1. x \in View /\ x.dart = view[v].dart
    <3>1. view[v] \in View
      BY <1>1, <1>3 DEF WebTypes
    <3> QED BY <3>1 DEF View
  <2>2. view' = [view EXCEPT ![v] = x]
    BY <1>1
  <2> HIDE DEF x
  <2> QED BY <1>1, <1>3, <2>1, <2>2, ViewChanged
<1>5. Leave(v) \in WireMessage /\ Leave(v).op = "leave"
  BY <1>3 DEF Leave, WireMessage
<1>6. /\ wire' \in [Process -> Seq(WireMessage)]
      /\ \A r \in Process : \A k \in InSeq(wire'[r]) :
           k \in InSeq(wire[r]) \/ (r = p /\ k = Leave(v))
  BY <1>1, <1>3, <1>5, Sent
<1>7. WebTypes'
  BY <1>1, <1>2, <1>4, <1>6 DEF WebTypes
<1>8. NothingAsked
  BY <1>1, <1>2, <1>5, <1>6 DEF NothingAsked
<1> QED BY <1>1, <1>2, <1>4, <1>7, <1>8, QuietStep

\* The application is told of a request under the number it stands for.
LEMMA OnRequestKeeps ==
  ASSUME WebInv, OnJavaScriptChannelMessage
  PROVE  WebInv'
<1> DEFINE h == Head(ui)
<1>1. /\ WebTypes /\ ui # <<>> /\ h.op = "request" /\ Done
      /\ inbox' \subseteq inbox \cup {h}
      /\ UNCHANGED <<view, page, wire, bridge, js, answers, ran, web>>
  BY DEF OnJavaScriptChannelMessage, Task, WebInv
<1>2. /\ ui' \in Seq(UiTask) /\ Quieter /\ InSeq(ui') \subseteq InSeq(ui)
      /\ h \in UiTask /\ h \in InSeq(ui)
  BY <1>1, Taken
<1>3. h \in Asked
  BY <1>1, <1>2 DEF UiTask
<1> HIDE DEF h
<1>4. WebTypes' /\ SameStart
  BY <1>1, <1>2, <1>3 DEF WebTypes, SameStart
<1>5. Unanswered'
  BY <1>1, <1>2, <1>4, UnansweredKept DEF WebInv
<1>6. ASSUME NEW r \in Process, NEW id \in Int, NEW k \in Request, Stands(r, id, k)'
      PROVE  Stands(r, id, k)
  <2>1. CASE \E m \in inbox' : m.process = r /\ m.id = id /\ m.request = k
    <3>1. PICK m \in inbox' : m.process = r /\ m.id = id /\ m.request = k
      BY <2>1
    <3>2. CASE m \in inbox
      BY <3>1, <3>2 DEF Stands
    <3>3. CASE m = h
      BY <1>1, <1>2, <3>1, <3>3 DEF Stands
    <3> QED BY <1>1, <3>2, <3>3
  <2>2. CASE ~\E m \in inbox' : m.process = r /\ m.id = id /\ m.request = k
    BY <1>1, <1>2, <1>6, <2>2 DEF Stands
  <2> QED BY <2>1, <2>2
<1>7. Numbered'
  BY <1>1, <1>6, NumbersKept DEF WebInv
<1>8. Waiting' /\ AnsweredOnce' /\ ReplyToItsRequest'
  BY <1>1 DEF WebInv, Waiting, AnsweredOnce, ReplyToItsRequest
<1> QED BY <1>4, <1>5, <1>7, <1>8 DEF WebInv

\* The callback that is run is forgotten with it.
LEMMA OnEvaluateCallbackKeeps ==
  ASSUME WebInv, OnEvaluateCallback
  PROVE  WebInv'
<1> DEFINE h == Head(ui)
           q == h.question
<1>1. /\ WebTypes /\ ui # <<>> /\ h.op = "value" /\ Done
      /\ \/ q \in js /\ Answer(q) /\ js' = js \ {q}
         \/ UNCHANGED <<answers, js>>
      /\ UNCHANGED <<view, page, wire, bridge, inbox, ran, web>>
  BY DEF OnEvaluateCallback, Task, WebInv
<1>2. /\ ui' \in Seq(UiTask) /\ Quieter /\ InSeq(ui') \subseteq InSeq(ui)
  BY <1>1, Taken
<1> HIDE DEF q
<1>3. SameStart
  BY <1>1 DEF SameStart
<1>4. NothingAsked
  BY <1>1, <1>2 DEF NothingAsked
<1>5. CASE UNCHANGED <<answers, js>>
  <2>1. WebTypes'
    BY <1>1, <1>2, <1>5 DEF WebTypes
  <2> QED BY <1>1, <1>2, <1>3, <1>4, <1>5, <2>1, QuietStep
<1>6. CASE q \in js /\ Answer(q) /\ js' = js \ {q}
  <2>1. /\ q \in Questions /\ q \notin Views /\ answers[q] = 0
        /\ answers' = [answers EXCEPT ![q] = 1]
    <3>1. q \in Questions /\ q \notin Views /\ answers[q] = 0
      BY <1>1, <1>6, Bounds DEF WebInv, WebTypes, Unanswered
    <3> QED BY <1>6, <3>1, FirstAnswer DEF Answer
  <2>2. /\ answers' \in [Views \cup Questions -> Nat] /\ answers'[q] = 1
        /\ \A c \in Views \cup Questions : c # q => answers'[c] = answers[c]
    BY <1>1, <2>1 DEF WebTypes
  <2>3. WebTypes'
    BY <1>1, <1>2, <1>6, <2>2 DEF WebTypes
  <2>4. Unanswered'
    <3>1. \A i, j \in 1 .. Len(ui') :
            /\ Answering(ui'[i]) /\ Answering(ui'[j])
            /\ Caller(ui'[i]) = Caller(ui'[j])
            => i = j
      <4>1. ui' = Tail(ui) /\ Len(ui) \in Nat /\ Len(ui') = Len(ui) - 1
            /\ \A i \in 1 .. Len(ui') : i + 1 \in 1 .. Len(ui) /\ ui'[i] = ui[i + 1]
        BY <1>1, Shortened DEF WebTypes, Done
      <4> SUFFICES ASSUME NEW i \in 1 .. Len(ui'), NEW j \in 1 .. Len(ui'),
                          Answering(ui'[i]), Answering(ui'[j]),
                          Caller(ui'[i]) = Caller(ui'[j])
                   PROVE  i = j
        OBVIOUS
      <4>2. i + 1 = j + 1
        BY <4>1, Zenon DEF WebInv, Unanswered
      <4> QED BY <4>2
    <3>2. ASSUME NEW s \in InSeq(ui'), Answering(s)
          PROVE  /\ answers'[Caller(s)] = 0 /\ Caller(s) \notin js'
                 /\ s.op = "create" => view'[s.view].dart # "absent"
      <4>1. s \in InSeq(ui) /\ s \in UiTask
        BY <1>1, <1>2, InSeqTyped DEF WebTypes
      <4>2. /\ Caller(s) \in Views \cup Questions
            /\ answers[Caller(s)] = 0 /\ Caller(s) \notin js
            /\ s.op = "create" => view[s.view].dart # "absent"
        BY <3>2, <4>1 DEF UiTask, Asked, Answering, Caller, WebInv, Unanswered
      <4> QED BY <1>1, <1>6, <2>2, <4>2
    <3>3. \A d \in js' : answers'[d] = 0
      BY <1>1, <1>6, <2>2 DEF WebInv, Unanswered, WebTypes
    <3>4. \A v \in Views : view'[v].dart = "absent" => answers'[v] = 0
      BY <1>1, <2>1, <2>2 DEF WebInv, Unanswered
    <3> QED BY <3>1, <3>2, <3>3, <3>4, Zenon DEF Unanswered
  <2>5. AnsweredOnce'
    BY <2>2 DEF WebInv, AnsweredOnce
  <2> QED BY <1>1, <1>4, <2>3, <2>4, <2>5, QuietBridges
<1> QED BY <1>1, <1>5, <1>6

\* Of the cookies one is the last.
LEMMA VisitedKeeps ==
  ASSUME WebInv, Visited
  PROVE  WebInv'
<1> DEFINE h == Head(ui)
           q == h.question
           last == {count \in 0 .. h.total - 1 : Completes(count, h.total)}
<1>1. /\ WebTypes /\ ui # <<>> /\ h.op = "visit" /\ Done
      /\ answers' = [answers EXCEPT ![q] = @ + Cardinality(last)]
      /\ UNCHANGED <<view, page, wire, bridge, js, inbox, ran, web>>
  BY DEF Visited, Task, WebInv
<1>2. /\ ui' \in Seq(UiTask) /\ InSeq(ui') \subseteq InSeq(ui)
      /\ h \in UiTask /\ h \in InSeq(ui)
  BY <1>1, Taken
<1>3. q \in Questions /\ h.total \in 1 .. 2 /\ Answering(h) /\ Caller(h) = q
  BY <1>1, <1>2 DEF UiTask, Asked, Answering, Caller
<1>4. Cardinality(last) = 1
  <2>1. last = {h.total - 1}
    BY <1>3 DEF Completes
  <2> QED BY <2>1, FS_Singleton
<1>5. answers[q] = 0 /\ answers' = [answers EXCEPT ![Caller(h)] = 1]
  <2>1. answers[q] = 0
    BY <1>1, <1>2, <1>3 DEF WebInv, Unanswered
  <2> HIDE DEF q, last
  <2>2. answers' = [answers EXCEPT ![q] = 1]
    BY <1>1, <1>4, <2>1, FirstAnswer
  <2> QED BY <1>3, <2>1, <2>2
<1> HIDE DEF q, last
<1>6. answers' \in [Views \cup Questions -> Nat]
  BY <1>1, <1>3, <1>5 DEF WebTypes
<1>7. WebTypes' /\ SameStart
  BY <1>1, <1>2, <1>6 DEF WebTypes, SameStart
<1>8. Unanswered'
  BY <1>1, <1>3, <1>5, <1>7, UnansweredLess DEF WebInv, Done
<1>9. AnsweredOnce'
  BY <1>1, <1>3, <1>5 DEF WebInv, WebTypes, AnsweredOnce
<1>10. NothingAsked
  BY <1>1, <1>2 DEF NothingAsked
<1> QED BY <1>1, <1>7, <1>8, <1>9, <1>10, QuietBridges

-----------------------------------------------------------------------------
(***************************************************************************)
(* The renderer processes.                                                 *)
(***************************************************************************)
\* A number below zero is kept, one above is turned.
LEMMA NegatedIs ==
  ASSUME NEW n \in Nat, n > 0
  PROVE  Negated(n) = -n /\ -n \in Int /\ -n < 0
BY DEF Negated

\* The bridge after a request, and the number of the request.
AskedOf(b, x, r, kind) ==
  CASE kind = "jsCmd" -> CallCppFunction(b, x, r)
    [] OTHER -> JavaScriptChannel(b, x, r, kind = "answered")

NumberOf(b, x, r, kind) ==
  CASE kind = "jsCmd" -> b.next
    [] OTHER -> Negated(AskedOf(b, x, r, kind).reqID)

\* The number is new, and the bridge has the callback under it.
IsNew(p, x, r, kind) ==
  LET asked == AskedOf(bridge[p], x, r, kind)
      id == NumberOf(bridge[p], x, r, kind)
  IN /\ id \in Int /\ ~Given(p, id) /\ asked \in Counter
     /\ bridge[p].next <= asked.next /\ bridge[p].reqID <= asked.reqID
     /\ id >= 0 => id < asked.next
     /\ id < 0 => -id <= asked.reqID
     /\ \E c \in Left : /\ c.id = id /\ c.context = x /\ c.request = r
                        /\ asked.pending = bridge[p].pending \cup {c}

\* A request is kept under a number that was never given out: the bridge finds
\* no callback in its way.
LEMMA NewNumber ==
  ASSUME WebInv, NEW p \in Process, NEW x \in Nat, NEW r \in Request,
         NEW kind \in {"jsCmd", "answered", "unanswered"}
  PROVE  IsNew(p, x, r, kind)
<1> DEFINE asked == AskedOf(bridge[p], x, r, kind)
           id == NumberOf(bridge[p], x, r, kind)
<1> SUFFICES /\ id \in Int /\ ~Given(p, id) /\ asked \in Counter
             /\ bridge[p].next <= asked.next /\ bridge[p].reqID <= asked.reqID
             /\ id >= 0 => id < asked.next
             /\ id < 0 => -id <= asked.reqID
             /\ \E c \in Left : /\ c.id = id /\ c.context = x /\ c.request = r
                                /\ asked.pending = bridge[p].pending \cup {c}
  BY Zenon DEF IsNew
<1>5. /\ kind = "jsCmd" => /\ asked = CallCppFunction(bridge[p], x, r)
                           /\ id = bridge[p].next
      /\ kind # "jsCmd" =>
           /\ asked = JavaScriptChannel(bridge[p], x, r, kind = "answered")
           /\ id = Negated(asked.reqID)
  BY DEF AskedOf, NumberOf
<1> HIDE DEF asked, id
<1> DEFINE b == bridge[p]
<1>1. b \in Counter /\ b.next \in Nat /\ b.reqID \in Nat /\ b.pending \subseteq Left
  BY DEF WebInv, WebTypes, Counter
<1>2. \A c \in b.pending : Given(p, c.id)
  <2> SUFFICES ASSUME NEW c \in b.pending PROVE Given(p, c.id)
    OBVIOUS
  <2>1. c.id \in Int /\ c.request \in Request
    BY <1>1 DEF Left
  <2>2. Stands(p, c.id, c.request)
    BY DEF Stands
  <2> QED BY <2>1, <2>2 DEF WebInv, Numbered
<1>3. CASE kind = "jsCmd"
  <2> DEFINE c == [id |-> b.next, context |-> x, request |-> r, named |-> TRUE]
             n == b.next + 1
             ps == b.pending \cup {c}
  <2>1. id = b.next /\ ~Given(p, id)
    BY <1>1, <1>3, <1>5 DEF Given
  <2>2. Found(b, b.next) = {}
    BY <1>2, <2>1 DEF Found
  <2>3. c \in Left /\ n \in Nat /\ c.id = id /\ c.context = x /\ c.request = r
    BY <1>1, <2>1 DEF Left
  <2>4. asked = [b EXCEPT !.pending = ps, !.next = n]
    BY <1>3, <1>5, <2>2 DEF CallCppFunction
  <2>5. ps \in SUBSET Left
    BY <1>1, <2>3
  <2> HIDE DEF c, ps
  <2>6. asked \in Counter /\ asked.next = n /\ asked.reqID = b.reqID
        /\ asked.pending = ps
    BY <1>1, <2>3, <2>4, <2>5 DEF Counter
  <2>7. \E d \in Left : /\ d.id = id /\ d.context = x /\ d.request = r
                        /\ asked.pending = bridge[p].pending \cup {d}
    BY <2>3, <2>6 DEF ps
  <2> QED BY <1>1, <2>1, <2>6, <2>7
<1>4. CASE kind # "jsCmd"
  <2> DEFINE n == b.reqID + 1
             g == [b EXCEPT !.reqID = n]
             named == kind = "answered"
             c == [id |-> -n, context |-> x, request |-> r, named |-> named]
             ps == b.pending \cup {c}
  <2>1. n \in Nat /\ n > 0 /\ Negated(n) = -n /\ -n \in Int /\ -n < 0
    BY <1>1, NegatedIs
  <2>2. ~Given(p, -n)
    BY <1>1, <2>1 DEF Given
  <2>3. g.reqID = n /\ g.next = b.next /\ g.pending = b.pending /\ g \in Counter
    BY <1>1, <2>1 DEF Counter
  <2>4. Found(g, Negated(n)) = {}
    BY <1>2, <2>1, <2>2, <2>3 DEF Found
  <2>5. named \in BOOLEAN
    BY Zenon
  <2>6. c \in Left /\ c.id = -n /\ c.context = x /\ c.request = r
    <3> HIDE DEF named
    <3> QED BY <1>1, <2>1, <2>5 DEF Left
  <2>7. asked = [g EXCEPT !.pending = ps]
    <3>1. asked = JavaScriptChannel(b, x, r, named)
      BY <1>4, <1>5
    <3>2. JavaScriptChannel(b, x, r, named) = StartRequest(g, n, x, r, named)
      BY <2>3 DEF JavaScriptChannel, GetNextReqID
    <3>3. StartRequest(g, n, x, r, named) = [g EXCEPT !.pending = ps]
      BY <2>1, <2>3, <2>4 DEF StartRequest
    <3> QED BY <3>1, <3>2, <3>3
  <2>8. ps \in SUBSET Left
    BY <1>1, <2>6
  <2> HIDE DEF c, ps, g, n
  <2>9. asked \in Counter /\ asked.next = b.next /\ asked.reqID = n
        /\ asked.pending = ps
    BY <2>3, <2>7, <2>8 DEF Counter
  <2>10. id = -n
    BY <1>4, <1>5, <2>1, <2>9
  <2>11. \E d \in Left : /\ d.id = id /\ d.context = x /\ d.request = r
                         /\ asked.pending = bridge[p].pending \cup {d}
    BY <2>6, <2>9, <2>10 DEF ps
  <2>12. b.reqID <= n
    BY <1>1 DEF n
  <2> QED BY <1>1, <2>1, <2>2, <2>9, <2>10, <2>11, <2>12
<1> QED BY <1>3, <1>4

\* A page asks under a new number, and its callback waits for the answer.
LEMMA AsksKeeps ==
  ASSUME WebInv, NEW g \in page, NEW kind \in {"jsCmd", "answered", "unanswered"},
         Asks(g, kind)
  PROVE  WebInv'
<1> DEFINE p == g.process
           r == web.requests + 1
           asked == AskedOf(bridge[p], g.context, r, kind)
           id == NumberOf(bridge[p], g.context, r, kind)
           t == [op |-> "request", view |-> g.view, process |-> p, id |-> id,
                 request |-> r]
<1>1. /\ WebTypes /\ web.requests < MaxRequests
      /\ bridge' = [bridge EXCEPT ![p] = asked] /\ ui' = Append(ui, t)
      /\ web' = [web EXCEPT !.requests = r]
      /\ UNCHANGED <<view, page, wire, js, answers, inbox, ran>>
  BY DEF Asks, WebInv, Post, AskedOf, NumberOf
<1>2. p \in Process /\ g.context \in Nat /\ g.view \in Views
  BY <1>1 DEF WebTypes, Shown
<1>3. web.requests \in 0 .. MaxRequests /\ web \in Phases
  BY <1>1, WebFields DEF WebTypes
<1>4. r \in Request /\ r \in 0 .. MaxRequests /\ web.requests < r
      /\ web.requests \in Nat
  BY <1>1, <1>3, Bounds DEF Request
<1> HIDE DEF p, r
<1>5. /\ id \in Int /\ ~Given(p, id) /\ asked \in Counter
      /\ bridge[p].next <= asked.next /\ bridge[p].reqID <= asked.reqID
      /\ id >= 0 => id < asked.next
      /\ id < 0 => -id <= asked.reqID
      /\ \E c \in Left : /\ c.id = id /\ c.context = g.context /\ c.request = r
                         /\ asked.pending = bridge[p].pending \cup {c}
  <2>1. IsNew(p, g.context, r, kind)
    BY <1>2, <1>4, NewNumber, Zenon
  <2> QED BY <2>1, Zenon DEF IsNew, asked, id
<1> HIDE DEF asked, id, t
<1>5a. PICK given \in Int : given = id
  BY <1>5
<1>6. t \in Asked /\ t \in UiTask /\ ~Answering(t) /\ t.op = "request"
      /\ t.process = p
      /\ t.id = given /\ t.request = r
  BY <1>2, <1>4, <1>5, <1>5a DEF t, Asked, UiTask, Answering
<1>7. ui' \in Seq(UiTask) /\ InSeq(ui') = InSeq(ui) \cup {t}
  BY <1>1, <1>6, Appended DEF WebTypes
<1>8. web' \in Phases /\ web'.requests = r
  BY <1>1, <1>3, <1>4, WebFields
<1>9. PICK c \in Left : /\ c.id = given /\ c.context = g.context /\ c.request = r
                        /\ asked.pending = bridge[p].pending \cup {c}
  BY <1>5, <1>5a
<1>10. /\ bridge' \in [Process -> Counter] /\ bridge'[p] = asked
       /\ \A q \in Process : q # p => bridge'[q] = bridge[q]
  BY <1>1, <1>2, <1>5 DEF WebTypes
<1>11. WebTypes'
  BY <1>1, <1>7, <1>8, <1>10 DEF WebTypes
<1>12. Quieter /\ SameStart
  BY <1>1, <1>6 DEF Quieter, SameStart
<1>13. Unanswered' /\ AnsweredOnce'
  BY <1>1, <1>12, UnansweredKept DEF WebInv, AnsweredOnce
<1>14. ASSUME NEW q \in Process, NEW i \in Int, NEW s \in Request, Stands(q, i, s)'
       PROVE  Stands(q, i, s) \/ (q = p /\ i = given /\ s = r)
  <2>1. CASE \E u \in InSeq(ui') :
               u.op = "request" /\ u.process = q /\ u.id = i /\ u.request = s
    BY <1>6, <1>7, <2>1 DEF Stands
  <2>2. CASE \E m \in inbox' : m.process = q /\ m.id = i /\ m.request = s
    BY <1>1, <2>2 DEF Stands
  <2>3. CASE \E m \in InSeq(wire'[q]) : m.op = "reply" /\ m.id = i /\ m.request = s
    BY <1>1, <2>3 DEF Stands
  <2>4. CASE \E d \in bridge'[q].pending : d.id = i /\ d.request = s
    <3>1. PICK d \in bridge'[q].pending : d.id = i /\ d.request = s
      BY <2>4
    <3>2. CASE d \in bridge[q].pending
      BY <3>1, <3>2 DEF Stands
    <3>3. CASE d \notin bridge[q].pending
      <4>1. q = p /\ d = c
        BY <1>9, <1>10, <3>3
      <4> QED BY <1>9, <3>1, <4>1
    <3> QED BY <3>2, <3>3
  <2> QED BY <1>14, <2>1, <2>2, <2>3, <2>4 DEF Stands
<1>15. \A q \in Process : \A i \in Int : Given(q, i) => Given(q, i)'
  <2> SUFFICES ASSUME NEW q \in Process, NEW i \in Int, Given(q, i)
               PROVE  Given(q, i)'
    OBVIOUS
  <2>1. /\ bridge[q].next \in Nat /\ bridge[q].reqID \in Nat
        /\ bridge'[q].next \in Nat /\ bridge'[q].reqID \in Nat
    BY <1>1, <1>10 DEF WebTypes, Counter
  <2>2. bridge[q].next <= bridge'[q].next /\ bridge[q].reqID <= bridge'[q].reqID
    <3>1. CASE q = p
      BY <1>5, <1>10, <3>1
    <3>2. CASE q # p
      BY <1>10, <2>1, <3>2
    <3> QED BY <3>1, <3>2
  <2> QED BY <2>1, <2>2 DEF Given
<1>16. Given(p, given)'
  BY <1>2, <1>5, <1>10, <1>5a DEF Given
<1>17. Numbered'
  <2> SUFFICES ASSUME NEW q \in Process, NEW i \in Int, NEW s \in Request,
                      Stands(q, i, s)'
               PROVE  /\ Given(q, i)'
                      /\ \A k \in Request : Stands(q, i, k)' => s = k
    BY DEF Numbered
  <2>1. Stands(q, i, s) \/ (q = p /\ i = given /\ s = r)
    BY <1>14
  <2>2. Stands(q, i, s) => Given(q, i)
    BY DEF WebInv, Numbered
  <2>3. Given(q, i)'
    BY <1>15, <1>16, <2>1, <2>2
  <2>4. ASSUME NEW k \in Request, Stands(q, i, k)'
        PROVE  s = k
    <3>1. Stands(q, i, k) \/ (q = p /\ i = given /\ k = r)
      BY <1>14, <2>4
    <3>2. Stands(q, i, k) => Given(q, i)
      BY DEF WebInv, Numbered
    <3>3. CASE q = p /\ i = given
      BY <1>5, <1>5a, <2>1, <2>2, <3>1, <3>2, <3>3
    <3>4. CASE ~(q = p /\ i = given)
      BY <2>1, <3>1, <3>4 DEF WebInv, Numbered
    <3> QED BY <3>3, <3>4
  <2> QED BY <2>3, <2>4
<1>18. \A q \in Process : \A d \in bridge[q].pending :
         d \in Left /\ d.request \in Nat /\ d.request <= web.requests
           /\ d.request # r
  <2> SUFFICES ASSUME NEW q \in Process, NEW d \in bridge[q].pending
               PROVE  d \in Left /\ d.request \in Nat /\ d.request <= web.requests
                      /\ d.request # r
    OBVIOUS
  <2>1. d \in Left
    BY <1>1 DEF WebTypes, Counter
  <2>2. d.request \in Nat
    BY <2>1, Bounds DEF Left, Request
  <2>3. d.request <= web.requests
    BY DEF WebInv, Waiting
  <2> QED BY <1>4, <2>1, <2>2, <2>3 DEF Request
<1>19. \A i \in 1 .. Len(ran) :
         ran[i][1] \in Nat /\ ran[i][1] <= web.requests /\ ran[i][1] # r
  <2> SUFFICES ASSUME NEW i \in 1 .. Len(ran)
               PROVE  ran[i][1] \in Nat /\ ran[i][1] <= web.requests
                        /\ ran[i][1] # r
    OBVIOUS
  <2>1. ran[i] \in Request \X Request \X BOOLEAN
    BY <1>1 DEF WebTypes
  <2>2. ran[i][1] \in Nat
    BY <2>1, Bounds DEF Request
  <2>3. ran[i][1] <= web.requests
    BY DEF WebInv, Waiting
  <2> QED BY <1>4, <2>2, <2>3 DEF Request
<1>20. Waiting'
  <2>1. ASSUME NEW q \in Process, NEW d \in bridge'[q].pending
        PROVE  d \in bridge[q].pending \/ (q = p /\ d = c)
    BY <1>9, <1>10, <2>1
  <2>2. ASSUME NEW q \in Process, NEW d \in bridge'[q].pending
        PROVE  /\ d.request <= web'.requests
               /\ \E h \in page' : h.process = q /\ h.context = d.context
               /\ \A i \in 1 .. Len(ran') : ran'[i][1] # d.request
               /\ \A o \in Process : \A e \in bridge'[o].pending :
                    d.request = e.request => q = o /\ d = e
    <3>1. CASE d \in bridge[q].pending
      <4>1. d.request <= web'.requests
        BY <1>4, <1>8, <1>18, <3>1 DEF Request
      <4>2. /\ \E h \in page' : h.process = q /\ h.context = d.context
            /\ \A i \in 1 .. Len(ran') : ran'[i][1] # d.request
        BY <1>1, <3>1 DEF WebInv, Waiting
      <4>3. ASSUME NEW o \in Process, NEW e \in bridge'[o].pending,
                   d.request = e.request
            PROVE  q = o /\ d = e
        <5>1. e \in bridge[o].pending
          BY <1>9, <1>18, <2>1, <3>1, <4>3
        <5> QED BY <3>1, <4>3, <5>1 DEF WebInv, Waiting
      <4> QED BY <4>1, <4>2, <4>3
    <3>2. CASE d \notin bridge[q].pending
      <4>1. q = p /\ d = c /\ d.request = r
        BY <1>9, <2>1, <3>2
      <4>2. d.request <= web'.requests
        BY <1>4, <1>8, <4>1 DEF Request
      <4>3. \E h \in page' : h.process = q /\ h.context = d.context
        BY <1>1, <1>9, <4>1 DEF p
      <4>4. \A i \in 1 .. Len(ran') : ran'[i][1] # d.request
        BY <1>1, <1>19, <4>1
      <4>5. ASSUME NEW o \in Process, NEW e \in bridge'[o].pending,
                   d.request = e.request
            PROVE  q = o /\ d = e
        BY <1>18, <2>1, <4>1, <4>5
      <4> QED BY <4>2, <4>3, <4>4, <4>5
    <3> QED BY <3>1, <3>2
  <2>3. \A i \in 1 .. Len(ran') : ran'[i][1] <= web'.requests
    BY <1>1, <1>4, <1>8, <1>19
  <2> QED BY <2>2, <2>3 DEF Waiting
<1>21. ReplyToItsRequest'
  BY <1>1 DEF WebInv, ReplyToItsRequest
<1> QED BY <1>11, <1>13, <1>17, <1>20, <1>21 DEF WebInv

\* Fewer pages: the callbacks that stay are of pages that stay.
LEMMA ReleasedKeeps ==
  ASSUME WebInv, NEW p \in Process, wire[p] # <<>>, Received(p),
         NEW new \in SUBSET Shown, OnContextReleased(p, new),
         UNCHANGED <<view, ui, js, answers, inbox, ran, web>>
  PROVE  WebInv'
<1> DEFINE old == Old(p)
           kept == {c \in bridge[p].pending : \A g \in old :
                      c \in RemoveCallbackFuncWithFrame(bridge[p],
                        g.context).pending}
           b == [bridge[p] EXCEPT !.pending = kept]
<1>1. /\ WebTypes /\ page' = (page \ old) \cup new
      /\ bridge' = [bridge EXCEPT ![p] = b]
  BY DEF WebInv, OnContextReleased, Forgotten
<1>2. /\ wire' \in [Process -> Seq(WireMessage)]
      /\ \A q \in Process : InSeq(wire'[q]) \subseteq InSeq(wire[q])
  BY <1>1, Delivered
<1>3. /\ kept \subseteq bridge[p].pending
      /\ \A c \in kept : \A g \in old : c.context # g.context
  BY DEF RemoveCallbackFuncWithFrame
<1>4. bridge[p] \in Counter /\ kept \in SUBSET Left
  BY <1>1, <1>3 DEF WebTypes, Counter
<1>5. \A g \in old : g.process = p
  BY DEF Old
<1> HIDE DEF kept, old
<1>6. b \in Counter /\ b.next = bridge[p].next /\ b.reqID = bridge[p].reqID
      /\ b.pending = kept
  BY <1>4 DEF Counter
<1> HIDE DEF b
<1>7. /\ bridge' \in [Process -> Counter] /\ bridge'[p] = b
      /\ \A q \in Process : q # p => bridge'[q] = bridge[q]
  BY <1>1, <1>6 DEF WebTypes
<1>8. WebTypes'
  BY <1>1, <1>2, <1>7 DEF WebTypes
<1>9. Quieter /\ SameStart
  BY DEF Quieter, SameStart
<1>10. Unanswered' /\ AnsweredOnce'
  BY <1>1, <1>9, UnansweredKept DEF WebInv, AnsweredOnce
<1>11. \A q \in Process : /\ bridge'[q].next = bridge[q].next
                          /\ bridge'[q].reqID = bridge[q].reqID
                          /\ bridge'[q].pending \subseteq bridge[q].pending
  BY <1>3, <1>6, <1>7
<1>12. NothingAsked
  BY <1>2 DEF NothingAsked
<1>13. Numbered'
  BY <1>11, <1>12, SameNumbers DEF WebInv
<1>14. ASSUME NEW q \in Process, NEW c \in bridge'[q].pending
       PROVE  \E g \in page' : g.process = q /\ g.context = c.context
  <2>1. c \in bridge[q].pending
    BY <1>11
  <2>2. PICK g \in page : g.process = q /\ g.context = c.context
    BY <2>1 DEF WebInv, Waiting
  <2>3. g \notin old
    <3>1. CASE q = p
      BY <1>3, <1>6, <1>7, <2>2, <3>1
    <3>2. CASE q # p
      BY <1>5, <2>2, <3>2
    <3> QED BY <3>1, <3>2
  <2> QED BY <1>1, <2>2, <2>3
<1>15. Waiting'
  <2>1. ASSUME NEW q \in Process, NEW c \in bridge'[q].pending
        PROVE  /\ c.request <= web'.requests
               /\ \A i \in 1 .. Len(ran') : ran'[i][1] # c.request
               /\ \A o \in Process : \A d \in bridge'[o].pending :
                    c.request = d.request => q = o /\ c = d
    BY <1>11 DEF WebInv, Waiting
  <2>2. \A i \in 1 .. Len(ran') : ran'[i][1] <= web'.requests
    BY DEF WebInv, Waiting
  <2> QED BY <1>14, <2>1, <2>2 DEF Waiting
<1>16. ReplyToItsRequest'
  BY DEF WebInv, ReplyToItsRequest
<1> QED BY <1>8, <1>10, <1>13, <1>15, <1>16 DEF WebInv

\* A page comes, and the one of its view before goes.
LEMMA OnLoadKeeps ==
  ASSUME WebInv, NEW p \in Process, OnLoad(p)
  PROVE  WebInv'
<1> DEFINE h == Head(wire[p])
           g == [view |-> h.view, process |-> p, context |-> h.context]
<1>1. wire[p] # <<>> /\ h.op = "load" /\ Received(p)
  BY DEF OnLoad, Message
<1>2. h \in WireMessage
  BY <1>1, Delivered DEF WebInv
<1>3. g \in Shown
  BY <1>1, <1>2 DEF WireMessage, Shown
<1>4. {g} \in SUBSET Shown /\ OnContextReleased(p, {g})
  BY <1>3 DEF OnLoad
<1>5. UNCHANGED <<view, ui, js, answers, inbox, ran, web>>
  BY DEF OnLoad
<1> QED BY <1>1, <1>4, <1>5, ReleasedKeeps

\* A page goes.
LEMMA OnLeaveKeeps ==
  ASSUME WebInv, NEW p \in Process, OnLeave(p)
  PROVE  WebInv'
<1>1. wire[p] # <<>> /\ Received(p) /\ OnContextReleased(p, {})
      /\ UNCHANGED <<view, ui, js, answers, inbox, ran, web>>
  BY DEF OnLeave, Message
<1>2. {} \in SUBSET Shown
  OBVIOUS
<1> QED BY <1>1, <1>2, ReleasedKeeps

\* A script reports its value to whoever still waits for it.
LEMMA OnScriptKeeps ==
  ASSUME WebInv, NEW p \in Process, OnScript(p)
  PROVE  WebInv'
<1> DEFINE h == Head(wire[p])
           t == [op |-> "value", question |-> h.question]
<1>1. /\ WebTypes /\ wire[p] # <<>> /\ h.op = "script"
      /\ Received(p) \/ UNCHANGED wire
      /\ UNCHANGED ui \/ Post(t)
      /\ UNCHANGED <<view, page, bridge, js, answers, inbox, ran, web>>
  BY DEF OnScript, Message, ScriptValue, WebInv
<1>2. /\ wire' \in [Process -> Seq(WireMessage)]
      /\ \A q \in Process : InSeq(wire'[q]) \subseteq InSeq(wire[q])
      /\ h \in WireMessage
  <2>1. CASE Received(p)
    BY <1>1, <2>1, Delivered
  <2>2. CASE UNCHANGED wire
    <3>1. wire \in [Process -> Seq(WireMessage)]
      BY <1>1 DEF WebTypes
    <3> QED BY <1>1, <2>2, <3>1
  <2> QED BY <1>1, <2>1, <2>2
<1>3. t \in UiTask /\ t.op = "value"
  BY <1>1, <1>2 DEF WireMessage, UiTask
<1> HIDE DEF t
<1>4. /\ ui' \in Seq(UiTask) /\ Quieter
      /\ \A s \in InSeq(ui') : s.op = "request" => s \in InSeq(ui)
  <2>1. CASE UNCHANGED ui
    BY <1>1, <2>1 DEF WebTypes, Quieter
  <2>2. CASE Post(t)
    BY <1>1, <1>3, <2>2, Posted
  <2> QED BY <1>1, <2>1, <2>2
<1>5. WebTypes' /\ SameStart
  BY <1>1, <1>2, <1>4 DEF WebTypes, SameStart
<1>6. NothingAsked
  BY <1>1, <1>2, <1>4 DEF NothingAsked
<1> QED BY <1>1, <1>4, <1>5, <1>6, QuietStep

\* An answer that runs a callback runs the one of its request.
LEMMA OnReplyKeeps ==
  ASSUME WebInv, NEW p \in Process, OnReply(p)
  PROVE  WebInv'
<1> DEFINE m == Head(wire[p])
           runs == Runs(bridge[p], m.id)
           ps == bridge[p].pending \ runs
<1>1. /\ WebTypes /\ wire[p] # <<>> /\ m.op = "reply" /\ Received(p)
      /\ bridge' = [bridge EXCEPT ![p] = [bridge[p] EXCEPT !.pending = ps]]
      /\ \/ runs = {} /\ ran' = ran
         \/ \E c \in runs :
              ran' = Append(ran, <<c.request, m.request,
                                   c.context \in {g.context : g \in page}>>)
      /\ UNCHANGED <<view, ui, page, js, answers, inbox, web>>
  BY DEF OnReply, Message, WebInv, ExecuteJSCallbackFunc
<1>2. /\ wire' \in [Process -> Seq(WireMessage)]
      /\ \A q \in Process : InSeq(wire'[q]) \subseteq InSeq(wire[q])
      /\ m \in WireMessage /\ m \in InSeq(wire[p])
  BY <1>1, Delivered
<1>3. m.id \in Int /\ m.request \in Request
  BY <1>1, <1>2 DEF WireMessage
<1>4. /\ bridge[p] \in Counter /\ ps \in SUBSET Left
      /\ runs \subseteq bridge[p].pending
      /\ \A c \in runs : c \in Left /\ c.id = m.id
  BY <1>1 DEF WebTypes, Counter, Runs, Found
<1>5. \A c \in runs : c.request = m.request
  <2> SUFFICES ASSUME NEW c \in runs PROVE c.request = m.request
    OBVIOUS
  <2>1. Stands(p, m.id, c.request) /\ c.request \in Request
    BY <1>4 DEF Stands, Left
  <2>2. Stands(p, m.id, m.request)
    BY <1>1, <1>2 DEF Stands
  <2> QED BY <1>3, <2>1, <2>2 DEF WebInv, Numbered
<1> DEFINE after == [bridge[p] EXCEPT !.pending = ps]
<1>6. after \in Counter /\ after.next = bridge[p].next
      /\ after.reqID = bridge[p].reqID
      /\ after.pending = ps
  <2> HIDE DEF ps
  <2> QED BY <1>4 DEF Counter
<1>7. bridge' = [bridge EXCEPT ![p] = after]
  BY <1>1
<1> HIDE DEF after
<1>8. /\ bridge' \in [Process -> Counter] /\ bridge'[p] = after
      /\ \A q \in Process : q # p => bridge'[q] = bridge[q]
  BY <1>1, <1>6, <1>7 DEF WebTypes
<1>9. \A q \in Process : /\ bridge'[q].next = bridge[q].next
                         /\ bridge'[q].reqID = bridge[q].reqID
                         /\ bridge'[q].pending \subseteq bridge[q].pending
  BY <1>6, <1>8
<1>10. Quieter /\ SameStart
  BY <1>1 DEF Quieter, SameStart
<1>11. Unanswered' /\ AnsweredOnce'
  BY <1>1, <1>10, UnansweredKept DEF WebInv, AnsweredOnce
<1>12. NothingAsked
  BY <1>1, <1>2 DEF NothingAsked
<1>13. Numbered'
  BY <1>9, <1>12, SameNumbers DEF WebInv
<1>14. CASE runs = {} /\ ran' = ran
  <2>1. WebTypes'
    BY <1>1, <1>2, <1>8, <1>14 DEF WebTypes
  <2>2. Waiting'
    BY <1>1, <1>9, <1>14 DEF WebInv, Waiting
  <2>3. ReplyToItsRequest'
    BY <1>14 DEF WebInv, ReplyToItsRequest
  <2> QED BY <1>11, <1>13, <2>1, <2>2, <2>3 DEF WebInv
<1>15. CASE \E c \in runs :
              ran' = Append(ran, <<c.request, m.request,
                                   c.context \in {g.context : g \in page}>>)
  <2>1. PICK c \in runs :
              ran' = Append(ran, <<c.request, m.request,
                                   c.context \in {g.context : g \in page}>>)
    BY <1>15
  <2>2. /\ c \in bridge[p].pending /\ c.request = m.request /\ c.request \in Request
        /\ (c.context \in {g.context : g \in page}) = TRUE
    BY <1>4, <1>5 DEF WebInv, Waiting, Left
  <2> DEFINE e == <<c.request, c.request, TRUE>>
  <2>3. e \in Request \X Request \X BOOLEAN /\ e[1] = c.request /\ e[2] = c.request
        /\ e[3] = TRUE
    BY <2>2
  <2>4. ran' = Append(ran, e)
    BY <2>1, <2>2, Zenon
  <2>5. /\ ran \in Seq(Request \X Request \X BOOLEAN)
        /\ \A i \in 1 .. Len(ran) : ran[i][1] # c.request
        /\ \A i \in 1 .. Len(ran) : ran[i][1] <= web.requests
        /\ c.request <= web.requests
    BY <1>1, <2>2 DEF WebInv, WebTypes, Waiting
  <2> HIDE DEF e
  <2>6. /\ ran' \in Seq(Request \X Request \X BOOLEAN)
        /\ Len(ran) \in Nat /\ Len(ran') = Len(ran) + 1
        /\ \A i \in 1 .. Len(ran) : ran'[i] = ran[i]
        /\ ran'[Len(ran) + 1] = e
    BY <2>3, <2>4, <2>5, Appended
  <2>7. \A i \in 1 .. Len(ran') : i \in 1 .. Len(ran) \/ i = Len(ran) + 1
    BY <2>6
  <2>8. WebTypes'
    BY <1>1, <1>2, <1>8, <2>6 DEF WebTypes
  <2>9. ASSUME NEW q \in Process, NEW d \in bridge'[q].pending
        PROVE  d \in bridge[q].pending /\ d.request # c.request
    <3>1. d \in bridge[q].pending
      BY <1>9
    <3>2. CASE d.request = c.request
      <4>1. q = p /\ d = c
        BY <2>2, <3>1, <3>2 DEF WebInv, Waiting
      <4> QED BY <1>6, <1>8, <2>1, <2>9, <4>1
    <3> QED BY <3>1, <3>2
  <2>10. ASSUME NEW q \in Process, NEW d \in bridge'[q].pending
         PROVE  /\ d.request <= web'.requests
                /\ \E g \in page' : g.process = q /\ g.context = d.context
                /\ \A i \in 1 .. Len(ran') : ran'[i][1] # d.request
                /\ \A o \in Process : \A f \in bridge'[o].pending :
                     d.request = f.request => q = o /\ d = f
    <3>1. d \in bridge[q].pending /\ d.request # c.request
      BY <2>9
    <3>2. \A i \in 1 .. Len(ran') : ran'[i][1] # d.request
      BY <2>3, <2>6, <2>7, <3>1 DEF WebInv, Waiting
    <3> QED BY <1>1, <1>9, <3>1, <3>2 DEF WebInv, Waiting
  <2>11. \A i \in 1 .. Len(ran') : ran'[i][1] <= web'.requests
    BY <1>1, <2>3, <2>5, <2>6, <2>7
  <2>12. Waiting'
    BY <2>10, <2>11 DEF Waiting
  <2>13. \A i \in 1 .. Len(ran') : ran'[i][1] = ran'[i][2] /\ ran'[i][3]
    <3> SUFFICES ASSUME NEW i \in 1 .. Len(ran')
                 PROVE  ran'[i][1] = ran'[i][2] /\ ran'[i][3]
      OBVIOUS
    <3>1. CASE i \in 1 .. Len(ran)
      BY <2>6, <3>1, Zenon DEF WebInv, ReplyToItsRequest
    <3>2. CASE i = Len(ran) + 1
      <4>1. ran'[i][1] = ran'[i][2]
        BY <2>3, <2>6, <3>2
      <4>2. ran'[i][3] = TRUE
        BY <2>3, <2>6, <3>2, Zenon
      <4> QED BY <4>1, <4>2, Zenon
    <3> QED BY <2>7, <3>1, <3>2
  <2>14. \A i, j \in 1 .. Len(ran') : ran'[i][1] = ran'[j][1] => i = j
    <3> SUFFICES ASSUME NEW i \in 1 .. Len(ran'), NEW j \in 1 .. Len(ran'),
                        ran'[i][1] = ran'[j][1]
                 PROVE  i = j
      OBVIOUS
    <3>1. CASE i \in 1 .. Len(ran) /\ j \in 1 .. Len(ran)
      BY <2>6, <3>1, Zenon DEF WebInv, ReplyToItsRequest
    <3>2. CASE i \in 1 .. Len(ran) /\ j = Len(ran) + 1
      BY <2>3, <2>5, <2>6, <3>2
    <3>3. CASE j \in 1 .. Len(ran) /\ i = Len(ran) + 1
      BY <2>3, <2>5, <2>6, <3>3
    <3> QED BY <2>7, <3>1, <3>2, <3>3
  <2>15. ReplyToItsRequest'
    BY <2>13, <2>14, Zenon DEF ReplyToItsRequest
  <2> QED BY <1>11, <1>13, <2>8, <2>12, <2>15 DEF WebInv
<1> QED BY <1>1, <1>14, <1>15

\* Every step keeps the invariant.
LEMMA StepWebInv == WebInv /\ [NextWeb]_webVars => WebInv'
<1> SUFFICES ASSUME WebInv, [NextWeb]_webVars PROVE WebInv'
  OBVIOUS
<1>1. CASE UNCHANGED webVars
  <2>1. WebTypes' /\ Unanswered'
    BY <1>1 DEF webVars, WebInv, WebTypes, Unanswered
  <2>2. Numbered'
    BY <1>1 DEF webVars, WebInv, Numbered, Stands, Given
  <2>3. Waiting' /\ AnsweredOnce' /\ ReplyToItsRequest'
    BY <1>1 DEF webVars, WebInv, Waiting, AnsweredOnce, ReplyToItsRequest
  <2> QED BY <2>1, <2>2, <2>3 DEF WebInv
<1>2. CASE \E v \in Views :
             \/ Create(v) \/ Created(v) \/ Dispose(v) \/ Close(v)
             \/ Navigate(v) \/ SetSize(v) \/ SendKeyEvent(v)
             \/ \E q \in Questions : Evaluate(v, q)
  BY <1>2, CreateKeeps, CreatedKeeps, CloseKeeps, NavigateKeeps,
     SendKeyEventKeeps, EvaluateKeeps
<1>3. CASE \/ \E q \in Questions : VisitCookies(q)
           \/ \E m \in inbox : sendJavaScriptChannelCallBack(m)
           \/ Stop \/ Collide
  BY <1>3, VisitCookiesKeeps, ReplyKeeps, StopKeeps
<1>4. CASE \/ \E p \in Process : createBrowser(p) \/ Navigated(p)
           \/ Resized \/ Destroyed \/ OnJavaScriptChannelMessage
           \/ OnEvaluateCallback \/ Visited
  BY <1>4, createBrowserKeeps, NavigatedKeeps, ResizedKeeps, DestroyedKeeps,
     OnRequestKeeps, OnEvaluateCallbackKeeps, VisitedKeeps
<1>5. CASE \E c \in page, kind \in {"jsCmd", "answered", "unanswered"} :
      Asks(c, kind)
  BY <1>5, AsksKeeps
<1>6. CASE \E p \in Process : OnLoad(p) \/ OnLeave(p) \/ OnScript(p) \/ OnReply(p)
  BY <1>6, OnLoadKeeps, OnLeaveKeeps, OnScriptKeeps, OnReplyKeeps
<1> QED BY <1>1, <1>2, <1>3, <1>4, <1>5, <1>6, Zenon DEF NextWeb

-----------------------------------------------------------------------------
(***************************************************************************)
(* The pages that are loaded, within their bound.                          *)
(***************************************************************************)
\* A task that loads a page once it is run, and where such tasks wait.
Loading(t) == t.op \in {"create", "navigate"}
ToLoad(s) == {i \in 1 .. Len(s) : Loading(s[i])}

\* A page is loaded for a task that asked for one, and what names a page names
\* one that was loaded.  A callback of jsCmd is wanted.
LoadInv ==
  /\ web.loaded + Cardinality(ToLoad(ui)) <= web.pages /\ web.pages <= MaxPages
  /\ \A p \in Process : \A m \in InSeq(wire[p]) :
       m.op = "load" => m.context \in 1 .. web.loaded
  /\ \A g \in page : g.context \in 1 .. web.loaded
  /\ \A p \in Process : \A c \in bridge[p].pending : c.id >= 0 => c.named

\* The tasks of a queue that load can be counted.
LEMMA LoadsCounted ==
  ASSUME NEW S, NEW s \in Seq(S)
  PROVE  /\ IsFiniteSet(ToLoad(s)) /\ Cardinality(ToLoad(s)) \in Nat
         /\ Len(s) \in Nat
<1>1. Len(s) \in Nat
  OBVIOUS
<1>2. IsFiniteSet(1 .. Len(s))
  BY <1>1, FS_Interval
<1>3. ToLoad(s) \in SUBSET (1 .. Len(s))
  BY Zenon DEF ToLoad
<1>4. IsFiniteSet(ToLoad(s))
  BY <1>2, <1>3, FS_Subset, Zenon
<1>5. Cardinality(ToLoad(s)) \in Nat
  BY <1>4, FS_CardinalityType, Zenon
<1> QED BY <1>1, <1>4, <1>5

\* A task comes.
LEMMA LoadsPosted ==
  ASSUME NEW S, NEW s \in Seq(S), NEW t \in S
  PROVE  /\ ~Loading(t) => ToLoad(Append(s, t)) = ToLoad(s)
         /\ Loading(t) => Cardinality(ToLoad(Append(s, t)))
                            = Cardinality(ToLoad(s)) + 1
<1> DEFINE a == Append(s, t)
           n == Len(s) + 1
<1>1. /\ Len(a) = n /\ a[n] = t
      /\ \A i \in 1 .. Len(s) : a[i] = s[i]
  BY Appended
<1>2. /\ IsFiniteSet(ToLoad(s)) /\ Cardinality(ToLoad(s)) \in Nat
      /\ Len(s) \in Nat
  BY LoadsCounted
<1>3. /\ n \notin 1 .. Len(s)
      /\ \A i : i \in 1 .. n <=> i \in 1 .. Len(s) \/ i = n
  BY <1>2
<1> HIDE DEF a, n
<1>4. ASSUME ~Loading(t)
      PROVE  ToLoad(a) = ToLoad(s)
  BY <1>1, <1>3, <1>4, Zenon DEF ToLoad
<1>5. ASSUME Loading(t)
      PROVE  Cardinality(ToLoad(a)) = Cardinality(ToLoad(s)) + 1
  <2>1. ToLoad(a) = ToLoad(s) \cup {n}
    BY <1>1, <1>3, <1>5, Zenon DEF ToLoad
  <2>2. n \notin ToLoad(s)
    BY <1>3, Zenon DEF ToLoad
  <2>3. Cardinality(ToLoad(s) \cup {n}) = Cardinality(ToLoad(s)) + 1
    BY <1>2, <2>2, FS_AddElement, Zenon
  <2> QED BY <2>1, <2>3, Zenon
<1> QED BY <1>4, <1>5, Zenon DEF a

\* The first task goes.
LEMMA LoadsTaken ==
  ASSUME NEW S, NEW s \in Seq(S), s # <<>>
  PROVE  /\ Cardinality(ToLoad(Tail(s))) <= Cardinality(ToLoad(s))
         /\ Loading(Head(s)) => Cardinality(ToLoad(Tail(s))) + 1
                                  <= Cardinality(ToLoad(s))
<1> DEFINE u == Tail(s)
           rest == ToLoad(s) \ {1}
           f == [i \in ToLoad(u) |-> i + 1]
<1>1. /\ u \in Seq(S) /\ Head(s) = s[1]
      /\ \A i \in 1 .. Len(u) : i + 1 \in 1 .. Len(s) /\ u[i] = s[i + 1]
  BY Shortened
<1>2. /\ Cardinality(ToLoad(u)) \in Nat /\ Cardinality(ToLoad(s)) \in Nat
      /\ IsFiniteSet(ToLoad(s)) /\ Len(u) \in Nat /\ Len(s) \in Nat
  BY <1>1, LoadsCounted
<1>3. f \in Injection(ToLoad(u), rest)
  <2> HIDE DEF u
  <2>1. \A i \in ToLoad(u) : i \in 1 .. Len(u) /\ Loading(u[i])
    BY Zenon DEF ToLoad
  <2>2. \A i \in ToLoad(u) : i + 1 \in ToLoad(s)
    BY <1>1, <2>1, Zenon DEF ToLoad
  <2>3. \A i \in ToLoad(u) : i + 1 # 1
    BY <1>2, <2>1
  <2>4. \A i, j \in ToLoad(u) : i + 1 = j + 1 => i = j
    BY <1>2, <2>1
  <2>5. \A i \in ToLoad(u) : f[i] = i + 1
    OBVIOUS
  <2>6. f \in [ToLoad(u) -> rest]
    BY <2>2, <2>3
  <2> HIDE DEF f, rest
  <2>7. \A i, j \in ToLoad(u) : f[i] = f[j] => i = j
    BY <2>4, <2>5, Zenon
  <2> QED BY <2>6, <2>7 DEF Injection, IsInjective
<1>4. /\ IsFiniteSet(rest)
      /\ Cardinality(rest) = IF 1 \in ToLoad(s) THEN Cardinality(ToLoad(s)) - 1
                             ELSE Cardinality(ToLoad(s))
  BY <1>2, FS_RemoveElement, Zenon
<1> HIDE DEF f, rest
<1>5. Cardinality(ToLoad(u)) <= Cardinality(rest)
  BY <1>3, <1>4, FS_Injection, Zenon
<1>6. Loading(Head(s)) => 1 \in ToLoad(s)
  <2>1. 1 \in 1 .. Len(s)
    BY <1>2
  <2> QED BY <1>1, <2>1, Zenon DEF ToLoad
<1> DEFINE c == Cardinality(ToLoad(s))
           d == Cardinality(rest)
           e == Cardinality(ToLoad(u))
<1>7. c \in Nat /\ e \in Nat /\ e <= d
  BY <1>2, <1>5, Zenon
<1>8. CASE 1 \in ToLoad(s)
  <2>1. d = c - 1
    BY <1>4, <1>8, Zenon
  <2> HIDE DEF c, d, e
  <2>2. e + 1 <= c /\ e <= c
    BY <1>7, <2>1
  <2> QED BY <2>2, Zenon DEF c, e, u
<1>9. CASE 1 \notin ToLoad(s)
  <2>1. d = c /\ ~Loading(Head(s))
    BY <1>4, <1>6, <1>9, Zenon
  <2>2. e <= c
    BY <1>7, <2>1, Zenon
  <2> QED BY <2>1, <2>2, Zenon DEF u
<1> QED BY <1>8, <1>9, Zenon

\* A task goes, or one comes that loads nothing.
LoadsNoMore ==
  \/ ui' = ui
  \/ ui # <<>> /\ ui' = Tail(ui)
  \/ \E t \in UiTask : ~Loading(t) /\ ui' = Append(ui, t)

\* No process is told of a page it was not told of.
NothingSent ==
  \A p \in Process : \A m \in InSeq(wire'[p]) :
    m.op = "load" => m \in InSeq(wire[p])

\* The counts of the pages are of their type.
LEMMA PagesCounted ==
  ASSUME WebTypes
  PROVE  /\ web \in Phases /\ web.loaded \in Nat /\ web.pages \in Nat
         /\ Cardinality(ToLoad(ui)) \in Nat /\ MaxPages \in Nat
<1>1. web \in Phases /\ ui \in Seq(UiTask)
  BY Zenon DEF WebTypes
<1>2. web.loaded \in Nat /\ web.pages \in Nat
  BY <1>1 DEF Phases
<1>3. Cardinality(ToLoad(ui)) \in Nat
  BY <1>1, LoadsCounted, Zenon
<1>4. MaxPages \in Nat \ {0}
  BY WebConstants, Zenon
<1> QED BY <1>1, <1>2, <1>3, <1>4

\* What is counted stays within the bound while nobody asks for a page.
LEMMA LoadsLess ==
  ASSUME WebTypes, LoadInv, LoadsNoMore, WebTypes'
  PROVE  web.loaded + Cardinality(ToLoad(ui')) <= web.pages
<1> DEFINE c == Cardinality(ToLoad(ui))
           d == Cardinality(ToLoad(ui'))
<1>1. ui \in Seq(UiTask) /\ ui' \in Seq(UiTask)
  BY Zenon DEF WebTypes
<1>2. c \in Nat /\ d \in Nat
  BY <1>1, LoadsCounted, Zenon
<1>3. d <= c
  <2>1. CASE ui' = ui
    BY <1>2, <2>1
  <2>2. CASE ui # <<>> /\ ui' = Tail(ui)
    BY <1>1, <2>2, LoadsTaken, Zenon
  <2>3. CASE \E t \in UiTask : ~Loading(t) /\ ui' = Append(ui, t)
    <3>1. ToLoad(ui') = ToLoad(ui)
      BY <1>1, <2>3, LoadsPosted, Zenon
    <3> QED BY <1>2, <3>1
  <2> QED BY <2>1, <2>2, <2>3, Zenon DEF LoadsNoMore
<1>4. web.loaded \in Nat /\ web.pages \in Nat /\ web.loaded + c <= web.pages
  BY PagesCounted, Zenon DEF LoadInv
<1> HIDE DEF c, d
<1>5. web.loaded + d <= web.pages
  BY <1>2, <1>3, <1>4
<1> QED BY <1>5 DEF d

\* A step that loads no page.
LEMMA LoadsKept ==
  ASSUME WebTypes, LoadInv, WebTypes', LoadsNoMore, NothingSent,
         web'.loaded = web.loaded, web'.pages = web.pages,
         \A g \in page' : g \in page \/ g.context \in 1 .. web.loaded,
         \A p \in Process : \A c \in bridge'[p].pending :
           c \in bridge[p].pending \/ (c.id >= 0 => c.named)
  PROVE  LoadInv'
<1>1. web'.loaded + Cardinality(ToLoad(ui')) <= web'.pages
  BY LoadsLess, Zenon
<1>2. web'.pages <= MaxPages
  BY Zenon DEF LoadInv
<1>3. \A p \in Process : \A m \in InSeq(wire'[p]) :
        m.op = "load" => m.context \in 1 .. web'.loaded
  BY Zenon DEF LoadInv, NothingSent
<1>4. \A g \in page' : g.context \in 1 .. web'.loaded
  BY Zenon DEF LoadInv
<1>5. \A p \in Process : \A c \in bridge'[p].pending : c.id >= 0 => c.named
  BY Zenon DEF LoadInv
<1> QED BY <1>1, <1>2, <1>3, <1>4, <1>5, Zenon DEF LoadInv

\* A step that leaves the pages and the bridges alone.
LEMMA PagesSame ==
  ASSUME WebTypes, LoadInv, WebTypes', LoadsNoMore, NothingSent,
         web'.loaded = web.loaded, web'.pages = web.pages,
         UNCHANGED <<page, bridge>>
  PROVE  LoadInv'
<1>1. \A g \in page' : g \in page \/ g.context \in 1 .. web.loaded
  OBVIOUS
<1>2. \A p \in Process : \A c \in bridge'[p].pending :
        c \in bridge[p].pending \/ (c.id >= 0 => c.named)
  OBVIOUS
<1> QED BY <1>1, <1>2, LoadsKept, Zenon

\* A counter of the process that is none of the pages'.
LEMMA OtherCounters ==
  ASSUME web \in Phases
  PROVE  /\ \A n : /\ [web EXCEPT !.calls = n].loaded = web.loaded
                   /\ [web EXCEPT !.calls = n].pages = web.pages
         /\ \A n : /\ [web EXCEPT !.replies = n].loaded = web.loaded
                   /\ [web EXCEPT !.replies = n].pages = web.pages
         /\ \A n : /\ [web EXCEPT !.requests = n].loaded = web.loaded
                   /\ [web EXCEPT !.requests = n].pages = web.pages
BY DEF Phases

\* A message that names no page is on its way.
LEMMA NothingSentBut ==
  ASSUME WebTypes, NEW p \in Process, NEW m \in WireMessage, m.op # "load",
         Send(p, m)
  PROVE  NothingSent
<1>1. \A q \in Process : \A n \in InSeq(wire'[q]) :
        n \in InSeq(wire[q]) \/ (q = p /\ n = m)
  BY Sent, Zenon
<1> QED BY <1>1, Zenon DEF NothingSent

\* Nothing is loaded where nothing is left.
LEMMA EndLoads ==
  ASSUME NEW phase \in {"running", "stopped", "crashed"}, End(phase)
  PROVE  LoadInv'
<1>1. /\ web'.loaded = 0 /\ web'.pages = 0 /\ ui' = <<>> /\ page' = {}
  BY DEF End, NewWeb
<1>2. \A p \in Process : wire'[p] = <<>> /\ bridge'[p].pending = {}
  BY DEF End, NewBridge
<1>3. ToLoad(ui') = {} /\ \A p \in Process : InSeq(wire'[p]) = {}
  BY <1>1, <1>2 DEF ToLoad, InSeq
<1>4. Cardinality(ToLoad(ui')) = 0
  BY <1>3, FS_EmptySet
<1>5. MaxPages \in Nat \ {0}
  BY WebConstants, Zenon
<1> QED BY <1>1, <1>2, <1>3, <1>4, <1>5 DEF LoadInv

\* The plug-in starts with no page.
LEMMA InitLoads == InitWeb => LoadInv
<1> SUFFICES ASSUME InitWeb PROVE LoadInv
  OBVIOUS
<1>1. /\ web.loaded = 0 /\ web.pages = 0 /\ ui = <<>> /\ page = {}
  BY DEF InitWeb, NewWeb
<1>2. \A p \in Process : wire[p] = <<>> /\ bridge[p].pending = {}
  BY DEF InitWeb, NewBridge
<1>3. ToLoad(ui) = {} /\ \A p \in Process : InSeq(wire[p]) = {}
  BY <1>1, <1>2 DEF ToLoad, InSeq
<1>4. Cardinality(ToLoad(ui)) = 0
  BY <1>3, FS_EmptySet
<1>5. MaxPages \in Nat \ {0}
  BY WebConstants, Zenon
<1> QED BY <1>1, <1>2, <1>3, <1>4, <1>5 DEF LoadInv

\* A page is asked for.
LEMMA PageAskedFor ==
  ASSUME WebTypes, LoadInv, WebTypes', NEW t \in UiTask, Loading(t), Post(t),
         web.pages < MaxPages, web' = [web EXCEPT !.pages = @ + 1],
         UNCHANGED <<page, wire, bridge>>
  PROVE  LoadInv'
<1> DEFINE c == Cardinality(ToLoad(ui))
           d == Cardinality(ToLoad(ui'))
<1>1. ui \in Seq(UiTask) /\ ui' = Append(ui, t)
  BY Zenon DEF WebTypes, Post
<1>2. d = c + 1
  BY <1>1, LoadsPosted, Zenon
<1>3. /\ web \in Phases /\ web.loaded \in Nat /\ web.pages \in Nat
      /\ c \in Nat /\ MaxPages \in Nat
  BY PagesCounted, Zenon
<1>4. web'.loaded = web.loaded /\ web'.pages = web.pages + 1
  BY <1>3 DEF Phases
<1>5. web.loaded + c <= web.pages
  BY Zenon DEF LoadInv
<1> HIDE DEF c, d
<1>6. web'.loaded + d <= web'.pages /\ web'.pages <= MaxPages
  BY <1>2, <1>3, <1>4, <1>5
<1>7. /\ \A p \in Process : \A m \in InSeq(wire'[p]) :
           m.op = "load" => m.context \in 1 .. web'.loaded
      /\ \A g \in page' : g.context \in 1 .. web'.loaded
      /\ \A p \in Process : \A k \in bridge'[p].pending : k.id >= 0 => k.named
  BY <1>4, Zenon DEF LoadInv
<1> QED BY <1>6, <1>7, Zenon DEF LoadInv, d

\* A page begins to load: its number is the next.
LEMMA PageBegins ==
  ASSUME WebTypes, LoadInv, WebTypes', ui # <<>>, Loading(Head(ui)), Done,
         NEW p \in Process, Loads(p), NEW v, UNCHANGED <<page, bridge>>,
         \A q \in Process : \A m \in InSeq(wire'[q]) :
           m.op = "load" => m \in InSeq(wire[q]) \/ m = Load(v)
  PROVE  LoadInv'
<1> DEFINE c == Cardinality(ToLoad(ui))
           d == Cardinality(ToLoad(ui'))
<1>1. ui \in Seq(UiTask) /\ ui' \in Seq(UiTask) /\ ui' = Tail(ui)
  BY Zenon DEF WebTypes, Done
<1>2. d + 1 <= c /\ d \in Nat
  BY <1>1, LoadsTaken, LoadsCounted, Zenon
<1>3. /\ web \in Phases /\ web.loaded \in Nat /\ web.pages \in Nat
      /\ c \in Nat /\ MaxPages \in Nat
  BY PagesCounted, Zenon
<1>4. web'.loaded = web.loaded + 1 /\ web'.pages = web.pages
  BY <1>3 DEF Loads, Phases
<1>5. web.loaded + c <= web.pages /\ web.pages <= MaxPages
  BY Zenon DEF LoadInv
<1> HIDE DEF c, d
<1>6. web'.loaded + d <= web'.pages /\ web'.pages <= MaxPages
  BY <1>2, <1>3, <1>4, <1>5
<1>7. /\ 1 .. web.loaded \subseteq 1 .. web'.loaded
      /\ web.loaded + 1 \in 1 .. web'.loaded
  BY <1>3, <1>4
<1>8. Load(v).context = web.loaded + 1
  BY DEF Load
<1>9. \A q \in Process : \A m \in InSeq(wire'[q]) :
        m.op = "load" => m.context \in 1 .. web'.loaded
  BY <1>7, <1>8, Zenon DEF LoadInv
<1>10. /\ \A g \in page' : g.context \in 1 .. web'.loaded
       /\ \A q \in Process : \A k \in bridge'[q].pending : k.id >= 0 => k.named
  BY <1>7, Zenon DEF LoadInv
<1> QED BY <1>6, <1>9, <1>10, Zenon DEF LoadInv, d

\* A browser and a navigation load a page each.
LEMMA CreateLoads ==
  ASSUME WebInv, LoadInv, WebInv', NEW v \in Views, Create(v) \/ Navigate(v)
  PROVE  LoadInv'
<1>1. WebTypes /\ WebTypes'
  BY Zenon DEF WebInv
<1>2. PICK op \in {"create", "navigate"} : Post([op |-> op, view |-> v])
  BY Zenon DEF Create, Navigate
<1> DEFINE t == [op |-> op, view |-> v]
<1>3. t \in UiTask /\ Loading(t)
  BY DEF UiTask, Loading
<1>4. /\ web.pages < MaxPages /\ web' = [web EXCEPT !.pages = @ + 1]
      /\ UNCHANGED <<page, wire, bridge>>
  BY DEF Create, Navigate
<1> HIDE DEF t
<1>5. Post(t)
  BY <1>2 DEF t
<1> QED BY <1>1, <1>3, <1>4, <1>5, PageAskedFor

\* The other calls of the application load nothing.
LEMMA CallLoads ==
  ASSUME WebInv, LoadInv, WebInv', NEW v \in Views,
         Created(v) \/ Dispose(v) \/ Close(v) \/ SetSize(v)
  PROVE  LoadInv'
<1>1. WebTypes /\ WebTypes' /\ web \in Phases
  BY Zenon DEF WebInv, WebTypes
<1>2. UNCHANGED <<page, wire, bridge>>
  BY DEF Created, Dispose, Close, SetSize
<1>3. NothingSent
  BY <1>2, Zenon DEF NothingSent
<1>4. web'.loaded = web.loaded /\ web'.pages = web.pages
  <2>1. web' = web \/ web' = [web EXCEPT !.calls = web.calls + 1]
    BY DEF Created, Dispose, Close, SetSize, OneCall
  <2> QED BY <1>1, <2>1, OtherCounters
<1>5. LoadsNoMore
  <2>1. \/ ui' = ui
        \/ \E op \in {"resize", "destroy"} :
             ui' = Append(ui, [op |-> op, view |-> v])
    BY DEF Created, Dispose, Close, closeBrowser, SetSize, Post
  <2>2. ASSUME NEW op \in {"resize", "destroy"}
        PROVE  [op |-> op, view |-> v] \in UiTask /\ ~Loading([op |-> op, view |-> v])
    BY DEF UiTask, Loading
  <2> QED BY <2>1, <2>2, Zenon DEF LoadsNoMore
<1> QED BY <1>1, <1>2, <1>3, <1>4, <1>5, PagesSame, Zenon

\* Nor does a visit of the cookies.
LEMMA VisitLoads ==
  ASSUME WebInv, LoadInv, WebInv', NEW q \in Questions, VisitCookies(q)
  PROVE  LoadInv'
<1>1. WebTypes /\ WebTypes' /\ web \in Phases
  BY Zenon DEF WebInv, WebTypes
<1>2. /\ UNCHANGED <<page, wire, bridge>>
      /\ web' = [web EXCEPT !.calls = web.calls + 1]
  BY DEF VisitCookies, OneCall
<1>3. NothingSent
  BY <1>2, Zenon DEF NothingSent
<1>4. web'.loaded = web.loaded /\ web'.pages = web.pages
  BY <1>1, <1>2, OtherCounters
<1>5. LoadsNoMore
  <2>1. PICK total \in 1 .. 2 :
          ui' = Append(ui, [op |-> "visit", question |-> q, total |-> total])
    BY Zenon DEF VisitCookies, Post
  <2> DEFINE t == [op |-> "visit", question |-> q, total |-> total]
  <2>2. t \in UiTask /\ ~Loading(t)
    BY DEF UiTask, Loading
  <2> QED BY <2>1, <2>2, Zenon DEF LoadsNoMore
<1> QED BY <1>1, <1>2, <1>3, <1>4, <1>5, PagesSame, Zenon

\* A script is on its way, which is no page.
LEMMA EvaluateLoads ==
  ASSUME WebInv, LoadInv, WebInv', NEW v \in Views, NEW q \in Questions,
         Evaluate(v, q)
  PROVE  LoadInv'
<1> DEFINE m == [op |-> "script", view |-> v, question |-> q]
           p == view[v].process
<1>1. /\ WebTypes /\ WebTypes' /\ web \in Phases
      /\ view \in [Views -> View]
  BY Zenon DEF WebInv, WebTypes
<1>2. /\ UNCHANGED <<ui, page, bridge>> /\ Send(p, m)
      /\ web' = [web EXCEPT !.calls = web.calls + 1]
  BY DEF Evaluate, OneCall
<1>3. m \in WireMessage /\ m.op # "load"
  BY DEF WireMessage
<1>4. p \in Process
  <2>1. view[v] \in View
    BY <1>1
  <2> QED BY <2>1 DEF View
<1> HIDE DEF m, p
<1>5. NothingSent
  BY <1>1, <1>2, <1>3, <1>4, NothingSentBut, Zenon
<1>6. web'.loaded = web.loaded /\ web'.pages = web.pages
  BY <1>1, <1>2, OtherCounters
<1>7. LoadsNoMore
  BY <1>2, Zenon DEF LoadsNoMore
<1> QED BY <1>1, <1>2, <1>5, <1>6, <1>7, PagesSame, Zenon

\* An answer to a page, which is none either.
LEMMA ReplyLoads ==
  ASSUME WebInv, LoadInv, WebInv', NEW m \in inbox,
         sendJavaScriptChannelCallBack(m)
  PROVE  LoadInv'
<1> DEFINE t == [op |-> "reply", id |-> m.id, request |-> m.request]
<1>1. /\ WebTypes /\ WebTypes' /\ web \in Phases /\ m \in Asked
  BY DEF WebInv, WebTypes
<1>2. /\ UNCHANGED <<ui, page, bridge>>
      /\ UNCHANGED wire \/ Send(m.process, t)
      /\ web' = [web EXCEPT !.replies = web.replies + 1]
  BY DEF sendJavaScriptChannelCallBack, Addressee
<1>3. t \in WireMessage /\ t.op # "load" /\ m.process \in Process
  BY <1>1 DEF WireMessage, Asked
<1> HIDE DEF t
<1>4. NothingSent
  <2>1. CASE UNCHANGED wire
    BY <2>1, Zenon DEF NothingSent
  <2>2. CASE Send(m.process, t)
    BY <1>1, <1>3, <2>2, NothingSentBut, Zenon
  <2> QED BY <1>2, <2>1, <2>2, Zenon
<1>5. web'.loaded = web.loaded /\ web'.pages = web.pages
  BY <1>1, <1>2, OtherCounters
<1>6. LoadsNoMore
  BY <1>2, Zenon DEF LoadsNoMore
<1> QED BY <1>1, <1>2, <1>4, <1>5, <1>6, PagesSame, Zenon

\* The UI thread begins to load a page.
LEMMA createBrowserLoads ==
  ASSUME WebInv, LoadInv, WebInv', NEW p \in Process, createBrowser(p)
  PROVE  LoadInv'
<1> DEFINE v == Head(ui).view
<1>1. WebTypes /\ WebTypes'
  BY Zenon DEF WebInv
<1>2. /\ ui # <<>> /\ Head(ui).op = "create" /\ Done /\ Loads(p)
      /\ Send(p, Load(v)) /\ UNCHANGED <<page, bridge>>
  BY DEF createBrowser, Task
<1>3. Loading(Head(ui))
  BY <1>2 DEF Loading
<1>4. v \in Views
  <2>1. Head(ui) \in UiTask
    BY <1>1, <1>2, Taken, Zenon
  <2> QED BY <1>2, <2>1 DEF UiTask, Asked
<1> HIDE DEF v
<1>5. Load(v) \in WireMessage
  BY <1>1, <1>2, <1>4, LoadTyped, Zenon
<1>6. \A q \in Process : \A m \in InSeq(wire'[q]) :
        m.op = "load" => m \in InSeq(wire[q]) \/ m = Load(v)
  BY <1>1, <1>2, <1>5, Sent, Zenon
<1> QED BY <1>1, <1>2, <1>3, <1>6, PageBegins

\* Of a page in a browser that is gone nothing is loaded.
LEMMA NavigatedLoads ==
  ASSUME WebInv, LoadInv, WebInv', NEW p \in Process, Navigated(p)
  PROVE  LoadInv'
<1> DEFINE v == Head(ui).view
           old == view[v].process
<1>1. WebTypes /\ WebTypes' /\ wire \in [Process -> Seq(WireMessage)]
  BY Zenon DEF WebInv, WebTypes
<1>2. /\ ui # <<>> /\ Head(ui).op = "navigate" /\ Done
      /\ UNCHANGED <<page, bridge>>
  BY DEF Navigated, Task
<1>3. CASE view[v].cef # "open"
  <2>1. UNCHANGED <<wire, web>>
    BY <1>3 DEF Navigated
  <2>2. NothingSent
    BY <2>1, Zenon DEF NothingSent
  <2>3. LoadsNoMore
    BY <1>2, Zenon DEF LoadsNoMore, Done
  <2> QED BY <1>1, <1>2, <2>1, <2>2, <2>3, PagesSame, Zenon
<1>4. CASE view[v].cef = "open"
  <2>1. /\ Loads(p)
        /\ wire' = [q \in Process |->
                     CASE q = p -> Append(wire[q], Load(v))
                       [] q = old /\ q # p -> Append(wire[q], Leave(v))
                       [] OTHER -> wire[q]]
    BY <1>4 DEF Navigated
  <2>2. v \in Views
    <3>1. Head(ui) \in UiTask
      BY <1>1, <1>2, Taken, Zenon
    <3> QED BY <1>2, <3>1 DEF UiTask, Asked
  <2> HIDE DEF v, old
  <2>3. /\ Load(v) \in WireMessage
        /\ Leave(v) \in WireMessage /\ Leave(v).op = "leave"
    BY <1>1, <2>1, <2>2, LoadTyped, Zenon
  <2>4. ASSUME NEW q \in Process, NEW m \in InSeq(wire'[q]), m.op = "load"
        PROVE  m \in InSeq(wire[q]) \/ m = Load(v)
    <3>1. wire[q] \in Seq(WireMessage)
      BY <1>1
    <3>2. CASE q = p
      <4>1. wire'[q] = Append(wire[q], Load(v))
        BY <2>1, <3>2
      <4>2. InSeq(wire'[q]) = InSeq(wire[q]) \cup {Load(v)}
        BY <2>3, <3>1, <4>1, Appended
      <4> QED BY <2>4, <4>2, Zenon
    <3>3. CASE q = old /\ q # p
      <4>1. wire'[q] = Append(wire[q], Leave(v))
        BY <2>1, <3>3
      <4>2. InSeq(wire'[q]) = InSeq(wire[q]) \cup {Leave(v)}
        BY <2>3, <3>1, <4>1, Appended
      <4>3. m # Leave(v)
        BY <2>3, <2>4, Zenon
      <4> QED BY <2>4, <4>2, <4>3, Zenon
    <3>4. CASE q # p /\ q # old
      <4>1. wire'[q] = wire[q]
        BY <2>1, <3>4
      <4> QED BY <2>4, <4>1, Zenon
    <3> QED BY <3>2, <3>3, <3>4, Zenon
  <2>5. \A q \in Process : \A m \in InSeq(wire'[q]) :
          m.op = "load" => m \in InSeq(wire[q]) \/ m = Load(v)
    BY <2>4, Zenon
  <2>6. Loading(Head(ui))
    BY <1>2 DEF Loading
  <2> QED BY <1>1, <1>2, <2>1, <2>5, <2>6, PageBegins
<1> QED BY <1>3, <1>4, Zenon

\* The rest of what the UI thread does loads nothing.
LEMMA TaskLoads ==
  ASSUME WebInv, LoadInv, WebInv',
         \/ Resized \/ Destroyed \/ OnJavaScriptChannelMessage
         \/ OnEvaluateCallback \/ Visited
  PROVE  LoadInv'
<1>1. WebTypes /\ WebTypes'
  BY Zenon DEF WebInv
<1>2. /\ ui # <<>> /\ Done /\ UNCHANGED <<page, bridge, web>>
      /\ UNCHANGED wire \/ Destroyed
  BY DEF Resized, Destroyed, OnJavaScriptChannelMessage, OnEvaluateCallback,
     Visited, Task
<1>3. LoadsNoMore
  BY <1>2, Zenon DEF LoadsNoMore, Done
<1>4. NothingSent
  <2>1. CASE UNCHANGED wire
    BY <2>1, Zenon DEF NothingSent
  <2>2. CASE Destroyed
    <3> DEFINE v == Head(ui).view
               p == view[v].process
    <3>1. Head(ui) \in UiTask /\ Head(ui).op = "destroy" /\ Send(p, Leave(v))
      BY <1>1, <1>2, <2>2, Taken, Zenon DEF Destroyed, Task
    <3>2. v \in Views
      BY <3>1 DEF UiTask, Asked
    <3>3. p \in Process
      <4>1. view[v] \in View
        BY <1>1, <3>2 DEF WebTypes
      <4> QED BY <4>1 DEF View
    <3> HIDE DEF v, p
    <3>4. Leave(v) \in WireMessage /\ Leave(v).op # "load"
      BY <3>2 DEF Leave, WireMessage
    <3> QED BY <1>1, <3>1, <3>3, <3>4, NothingSentBut, Zenon
  <2> QED BY <1>2, <2>1, <2>2, Zenon
<1> QED BY <1>1, <1>2, <1>3, <1>4, PagesSame, Zenon

\* A page asks: what jsCmd keeps is wanted, what the channel keeps is kept below
\* zero.
LEMMA AsksLoads ==
  ASSUME WebInv, LoadInv, WebInv', NEW g \in page,
         NEW kind \in {"jsCmd", "answered", "unanswered"}, Asks(g, kind)
  PROVE  LoadInv'
<1> DEFINE p == g.process
           r == web.requests + 1
           asked == AskedOf(bridge[p], g.context, r, kind)
           id == NumberOf(bridge[p], g.context, r, kind)
           t == [op |-> "request", view |-> g.view, process |-> p, id |-> id,
                 request |-> r]
<1>1. /\ WebTypes /\ WebTypes' /\ web \in Phases /\ g \in Shown
      /\ bridge \in [Process -> Counter]
  BY DEF WebInv, WebTypes
<1>2. /\ web.requests < MaxRequests
      /\ bridge' = [bridge EXCEPT ![p] = asked] /\ ui' = Append(ui, t)
      /\ web' = [web EXCEPT !.requests = r]
      /\ UNCHANGED <<page, wire>>
  BY DEF Asks, Post, AskedOf, NumberOf
<1>3. p \in Process /\ g.context \in Nat /\ g.view \in Views
  BY <1>1 DEF Shown
<1>4. r \in Request
  <2>1. web.requests \in 0 .. MaxRequests
    BY <1>1, WebFields, Zenon
  <2> QED BY <1>2, <2>1, Bounds DEF Request
<1>5. bridge[p] \in Counter /\ bridge[p].next \in Nat /\ bridge[p].reqID \in Nat
  BY <1>1, <1>3 DEF Counter
<1>6. id \in Int
  <2> HIDE DEF asked, id, p, r
  <2>1. IsNew(p, g.context, r, kind)
    BY <1>3, <1>4, NewNumber, Zenon
  <2> QED BY <2>1, Zenon DEF IsNew, id
<1>7. t \in UiTask /\ ~Loading(t)
  <2> HIDE DEF id, p, r
  <2> QED BY <1>3, <1>4, <1>6 DEF UiTask, Asked, Loading
<1>8. \A c \in asked.pending :
        c \in bridge[p].pending \/ (c.id >= 0 => c.named)
  <2> DEFINE b == bridge[p]
             x == g.context
  <2> HIDE DEF b, x, p, r
  <2>1. CASE kind = "jsCmd"
    <3>1. asked = CallCppFunction(b, x, r)
      BY <2>1 DEF AskedOf, b, x
    <3>2. ASSUME NEW c \in asked.pending
          PROVE  c \in b.pending \/ c.named
      <4>1. c \in b.pending \/ c = [id |-> b.next, context |-> x,
                                    request |-> r, named |-> TRUE]
        BY <1>5, <3>1, <3>2 DEF CallCppFunction, Counter, b
      <4> QED BY <4>1
    <3> QED BY <3>2, Zenon DEF b
  <2>2. CASE kind # "jsCmd"
    <3> DEFINE n == b.reqID + 1
               k == kind = "answered"
               n1 == GetNextReqID(b)
    <3>1. asked = StartRequest(n1, n1.reqID, x, r, k)
      BY <2>2 DEF AskedOf, JavaScriptChannel, b, x
    <3>2. n1.reqID = n /\ n1.pending = b.pending /\ n \in Nat /\ n > 0
          /\ n1 \in Counter
      BY <1>5 DEF GetNextReqID, Counter, b
    <3> HIDE DEF n, n1, k
    <3>3. Negated(n) < 0
      BY <3>2, NegatedIs
    <3>4. \A c \in asked.pending : c \in b.pending \/ ~(c.id >= 0)
      <4>1. ASSUME NEW c \in asked.pending, c \notin b.pending
            PROVE  ~(c.id >= 0)
        <5>1. c.id < 0 /\ c.id \in Int
          <6>1. c = [id |-> Negated(n), context |-> x, request |-> r, named |-> k]
            BY <3>1, <3>2, <4>1 DEF StartRequest, Counter
          <6> QED BY <3>2, <3>3, <6>1, NegatedIs
        <5> QED BY <5>1
      <4> QED BY <4>1, Zenon
    <3> QED BY <3>4, Zenon DEF b
  <2> QED BY <2>1, <2>2, Zenon
<1> HIDE DEF asked, id, t, p, r
<1>9. \A q \in Process : \A c \in bridge'[q].pending :
        c \in bridge[q].pending \/ (c.id >= 0 => c.named)
  <2> SUFFICES ASSUME NEW q \in Process, NEW c \in bridge'[q].pending
               PROVE  c \in bridge[q].pending \/ (c.id >= 0 => c.named)
    BY Zenon
  <2>1. CASE q = p
    <3>1. bridge'[q] = asked
      BY <1>1, <1>2, <1>3, <2>1
    <3> QED BY <1>8, <2>1, <3>1, Zenon
  <2>2. CASE q # p
    <3>1. bridge'[q] = bridge[q]
      BY <1>1, <1>2, <1>3, <2>2
    <3> QED BY <3>1, Zenon
  <2> QED BY <2>1, <2>2, Zenon
<1>10. web'.loaded = web.loaded /\ web'.pages = web.pages
  BY <1>1, <1>2, OtherCounters
<1>11. LoadsNoMore
  BY <1>2, <1>7, Zenon DEF LoadsNoMore
<1>12. NothingSent /\ \A c \in page' : c \in page \/ c.context \in 1 .. web.loaded
  BY <1>2, Zenon DEF NothingSent
<1> QED BY <1>1, <1>9, <1>10, <1>11, <1>12, LoadsKept, Zenon

\* A page comes or goes, and callbacks with it.
LEMMA ReleasedLoads ==
  ASSUME WebInv, LoadInv, WebInv', NEW p \in Process, wire[p] # <<>>, Received(p),
         NEW new, OnContextReleased(p, new),
         \A g \in new : g.context \in 1 .. web.loaded,
         UNCHANGED <<ui, web>>
  PROVE  LoadInv'
<1> DEFINE ps == {c \in bridge[p].pending : \A old \in Old(p) :
             c \in RemoveCallbackFuncWithFrame(bridge[p], old.context).pending}
           b == [bridge[p] EXCEPT !.pending = ps]
<1>1. WebTypes /\ WebTypes' /\ bridge \in [Process -> Counter]
  BY Zenon DEF WebInv, WebTypes
<1>2. /\ page' = (page \ Old(p)) \cup new
      /\ bridge' = [bridge EXCEPT ![p] = b]
  BY DEF OnContextReleased, Forgotten
<1>3. bridge[p] \in Counter
  BY <1>1
<1>4. ps \subseteq bridge[p].pending
  OBVIOUS
<1> HIDE DEF ps
<1>5. b.pending = ps
  BY <1>3 DEF Counter
<1> HIDE DEF b
<1>6. \A q \in Process : bridge'[q].pending \subseteq bridge[q].pending
  BY <1>1, <1>2, <1>4, <1>5
<1>7. \A q \in Process : \A c \in bridge'[q].pending :
        c \in bridge[q].pending \/ (c.id >= 0 => c.named)
  BY <1>6, Zenon
<1>8. \A g \in page' : g \in page \/ g.context \in 1 .. web.loaded
  BY <1>2, Zenon
<1>9. NothingSent
  <2>1. \A q \in Process : InSeq(wire'[q]) \subseteq InSeq(wire[q])
    BY <1>1, Delivered, Zenon
  <2> QED BY <2>1, Zenon DEF NothingSent
<1>10. LoadsNoMore
  BY Zenon DEF LoadsNoMore
<1> QED BY <1>1, <1>7, <1>8, <1>9, <1>10, LoadsKept, Zenon

\* The page that comes is the one the message names.
LEMMA OnLoadLoads ==
  ASSUME WebInv, LoadInv, WebInv', NEW p \in Process, OnLoad(p) \/ OnLeave(p)
  PROVE  LoadInv'
<1> DEFINE h == Head(wire[p])
           g == [view |-> h.view, process |-> p, context |-> h.context]
<1>1. wire[p] # <<>> /\ Received(p) /\ UNCHANGED <<ui, web>>
  BY DEF OnLoad, OnLeave, Message
<1>2. CASE OnLoad(p)
  <2>1. h.op = "load" /\ OnContextReleased(p, {g})
    BY <1>2 DEF OnLoad, Message
  <2>2. h \in InSeq(wire[p])
    BY <1>1, Delivered, Zenon DEF WebInv
  <2>3. g.context \in 1 .. web.loaded
    BY <2>1, <2>2 DEF LoadInv
  <2> HIDE DEF g
  <2>4. \A c \in {g} : c.context \in 1 .. web.loaded
    BY <2>3
  <2> QED BY <1>1, <2>1, <2>4, ReleasedLoads
<1>3. CASE OnLeave(p)
  <2>1. OnContextReleased(p, {})
    BY <1>3 DEF OnLeave
  <2>2. \A c \in {} : c.context \in 1 .. web.loaded
    OBVIOUS
  <2> QED BY <1>1, <2>1, <2>2, ReleasedLoads
<1> QED BY <1>2, <1>3, Zenon

\* A script or an answer is taken, and no page comes.
LEMMA OnReplyLoads ==
  ASSUME WebInv, LoadInv, WebInv', NEW p \in Process, OnScript(p) \/ OnReply(p)
  PROVE  LoadInv'
<1>1. /\ WebTypes /\ WebTypes' /\ bridge \in [Process -> Counter]
  BY Zenon DEF WebInv, WebTypes
<1>2. /\ wire[p] # <<>> /\ UNCHANGED <<page, web>>
      /\ Received(p) \/ UNCHANGED wire
  BY DEF OnScript, OnReply, Message
<1>3. /\ \A q \in Process : InSeq(wire'[q]) \subseteq InSeq(wire[q])
      /\ Head(wire[p]) \in WireMessage
  <2>1. CASE Received(p)
    BY <1>1, <1>2, <2>1, Delivered, Zenon
  <2>2. CASE UNCHANGED wire
    <3>1. wire \in [Process -> Seq(WireMessage)]
      BY <1>1 DEF WebTypes
    <3> QED BY <1>2, <2>2, <3>1
  <2> QED BY <1>2, <2>1, <2>2
<1>4. NothingSent
  BY <1>3, Zenon DEF NothingSent
<1>5. LoadsNoMore
  <2> DEFINE t == [op |-> "value", question |-> Head(wire[p]).question]
  <2>1. ui' = ui \/ (OnScript(p) /\ ui' = Append(ui, t))
    BY DEF OnScript, OnReply, Post, ScriptValue
  <2>2. OnScript(p) => t \in UiTask
    BY <1>3 DEF OnScript, Message, WireMessage, UiTask
  <2>3. ~Loading(t)
    BY DEF Loading
  <2> HIDE DEF t
  <2> QED BY <2>1, <2>2, <2>3, Zenon DEF LoadsNoMore
<1>6. \A q \in Process : \A c \in bridge'[q].pending : c \in bridge[q].pending
  <2>1. CASE OnScript(p)
    BY <2>1, Zenon DEF OnScript
  <2>2. CASE OnReply(p)
    <3> DEFINE ps == bridge[p].pending \ Runs(bridge[p], Head(wire[p]).id)
               b == [bridge[p] EXCEPT !.pending = ps]
    <3>1. bridge' = [bridge EXCEPT ![p] = b]
      BY <2>2 DEF OnReply, ExecuteJSCallbackFunc
    <3>2. ps \subseteq bridge[p].pending /\ bridge[p] \in Counter
      BY <1>1
    <3> HIDE DEF ps
    <3>3. b.pending = ps
      BY <3>2 DEF Counter
    <3> HIDE DEF b
    <3> QED BY <1>1, <3>1, <3>2, <3>3
  <2> QED BY <2>1, <2>2, Zenon
<1>7. /\ \A g \in page' : g \in page \/ g.context \in 1 .. web.loaded
      /\ \A q \in Process : \A c \in bridge'[q].pending :
           c \in bridge[q].pending \/ (c.id >= 0 => c.named)
  BY <1>2, <1>6, Zenon
<1> QED BY <1>1, <1>2, <1>4, <1>5, <1>7, LoadsKept, Zenon

\* Every step keeps the pages within their bound.
LEMMA StepLoads ==
  WebInv /\ LoadInv /\ [NextWeb]_webVars => LoadInv'
<1> SUFFICES ASSUME WebInv, LoadInv, [NextWeb]_webVars PROVE LoadInv'
  OBVIOUS
<1>1. WebInv'
  BY StepWebInv
<1>2. CASE UNCHANGED webVars
  BY <1>2 DEF webVars, LoadInv
<1>3. CASE \E v \in Views :
             \/ Create(v) \/ Created(v) \/ Dispose(v) \/ Close(v)
             \/ Navigate(v) \/ SetSize(v) \/ SendKeyEvent(v)
             \/ \E q \in Questions : Evaluate(v, q)
  <2>1. ASSUME NEW v \in Views, SendKeyEvent(v)
        PROVE  LoadInv'
    BY <2>1, EndLoads DEF SendKeyEvent
  <2> QED BY <1>1, <1>3, <2>1, CreateLoads, CallLoads, EvaluateLoads, Zenon
<1>4. CASE Stop \/ Collide
  BY <1>4, EndLoads DEF Stop, Collide
<1>5. CASE \/ \E q \in Questions : VisitCookies(q)
           \/ \E m \in inbox : sendJavaScriptChannelCallBack(m)
  BY <1>1, <1>5, VisitLoads, ReplyLoads, Zenon
<1>6. CASE \/ \E p \in Process : createBrowser(p) \/ Navigated(p)
           \/ Resized \/ Destroyed \/ OnJavaScriptChannelMessage
           \/ OnEvaluateCallback \/ Visited
  BY <1>1, <1>6, createBrowserLoads, NavigatedLoads, TaskLoads, Zenon
<1>7. CASE \E c \in page, kind \in {"jsCmd", "answered", "unanswered"} :
      Asks(c, kind)
  BY <1>1, <1>7, AsksLoads, Zenon
<1>8. CASE \E p \in Process : OnLoad(p) \/ OnLeave(p) \/ OnScript(p) \/ OnReply(p)
  BY <1>1, <1>8, OnLoadLoads, OnReplyLoads, Zenon
<1> QED BY <1>2, <1>3, <1>4, <1>5, <1>6, <1>7, <1>8, Zenon DEF NextWeb

\* A page and a callback name a page within the bound.
LEMMA LoadsTyped == WebInv /\ LoadInv => WebTypeOK
<1> SUFFICES ASSUME WebInv, LoadInv PROVE WebTypeOK
  OBVIOUS
<1>1. WebTypes
  BY Zenon DEF WebInv
<1>2. 1 .. web.loaded \subseteq Context
  <2>1. /\ web.loaded \in Nat /\ web.pages \in Nat /\ MaxPages \in Nat
        /\ Cardinality(ToLoad(ui)) \in Nat
    BY <1>1, PagesCounted, Zenon
  <2>2. web.loaded + Cardinality(ToLoad(ui)) <= web.pages /\ web.pages <= MaxPages
    BY Zenon DEF LoadInv
  <2>3. web.loaded <= MaxPages
    BY <2>1, <2>2
  <2> QED BY <2>1, <2>3 DEF Context
<1>3. page \subseteq Page
  <2> SUFFICES ASSUME NEW g \in page PROVE g \in Page
    BY Zenon
  <2>1. g \in Shown /\ g.context \in Context
    BY <1>1, <1>2, Zenon DEF WebTypes, LoadInv
  <2> QED BY <2>1 DEF Shown, Page
<1>4. ASSUME NEW p \in Process, NEW c \in bridge[p].pending
      PROVE  c \in Callback
  <2>1. c \in Left
    <3>1. bridge[p] \in Counter
      BY <1>1 DEF WebTypes
    <3> QED BY <3>1 DEF Counter
  <2>2. c.context \in Context
    <3>1. PICK g \in page : g.process = p /\ g.context = c.context
      BY DEF WebInv, Waiting
    <3> QED BY <1>2, <3>1, Zenon DEF LoadInv
  <2>3. c.id >= 0 => c.named
    BY Zenon DEF LoadInv
  <2>4. CASE c.id >= 0
    <3>1. c \in [id : Nat, context : Context, request : Request, named : {TRUE}]
      <4>1. c.named \in BOOLEAN
        BY <2>1 DEF Left
      <4>2. c.named = TRUE
        BY <2>3, <2>4, <4>1, Zenon
      <4>3. c.id \in Nat /\ c.request \in Request
        BY <2>1, <2>4 DEF Left
      <4>4. c = [id |-> c.id, context |-> c.context, request |-> c.request,
                 named |-> c.named]
        BY <2>1, Zenon DEF Left
      <4> QED BY <2>2, <4>2, <4>3, <4>4, Zenon
    <3> QED BY <3>1, Zenon DEF Callback
  <2>5. CASE c.id < 0
    <3>1. c \in [id : {i \in Int : i < 0}, context : Context,
                 request : Request, named : BOOLEAN]
      BY <2>1, <2>2, <2>5 DEF Left
    <3> QED BY <3>1, Zenon DEF Callback
  <2>6. c.id \in Int
    BY <2>1 DEF Left
  <2> QED BY <2>4, <2>5, <2>6
<1>5. web.phase \in {"running", "stopped", "crashed"}
  <2>1. web \in Phases
    BY <1>1, Zenon DEF WebTypes
  <2> QED BY <2>1 DEF Phases
<1> QED BY <1>1, <1>3, <1>4, <1>5, Zenon DEF WebTypes, WebTypeOK

-----------------------------------------------------------------------------
(***************************************************************************)
(* The results.                                                            *)
(***************************************************************************)
\* What of the embedded browser is in flight is of its type: tasks, messages,
\* bridges and callbacks (webview_plugin.cc, webview_handler.cc).
THEOREM WebTypesInvariant == WebSpec => []WebTypes
<1>1. WebInv => WebTypes
  BY DEF WebInv
<1> QED BY <1>1, InitWebInv, StepWebInv, PTL DEF WebSpec

\* No call of the application is answered twice, whatever creations, cookie
\* visits and evaluations wait for the UI thread (HandleMethodCall's results,
\* js_callbacks_, FlutterCookieVisitor), for any number of views and calls.
THEOREM CallsAnsweredOnce == WebSpec => []AnsweredOnce
<1>1. WebInv => AnsweredOnce
  BY DEF WebInv
<1> QED BY <1>1, InitWebInv, StepWebInv, PTL DEF WebSpec

\* An answer of the application runs the callback of the request it is for, on
\* the page that asked, and no callback runs twice, whatever pages and processes
\* come and go in between (CefJSHandler, sendJavaScriptChannelCallBack).
THEOREM RepliesReachTheirRequests == WebSpec => []ReplyToItsRequest
<1>1. WebInv => ReplyToItsRequest
  BY DEF WebInv
<1> QED BY <1>1, InitWebInv, StepWebInv, PTL DEF WebSpec

\* The pages that are loaded, their contexts and the callbacks that wait on them
\* stay within their types (webview_handler.cc, webview_js_handler.cc): a page is
\* loaded for a task that asked for one, and no page of a process that ended is
\* named by what waits in the next.
THEOREM WebTypeCorrect == WebSpec => []WebTypeOK
<1>1. InitWeb => WebInv /\ LoadInv
  BY InitWebInv, InitLoads
<1>2. WebInv /\ LoadInv /\ [NextWeb]_webVars => (WebInv /\ LoadInv)'
  BY StepWebInv, StepLoads
<1> QED BY <1>1, <1>2, LoadsTyped, PTL DEF WebSpec
=============================================================================
