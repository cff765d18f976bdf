------------------------- MODULE ConfigStoreProofs -------------------------
(***************************************************************************)
(* Proofs about ConfigStore, for any number of stations, entities and      *)
(* values and for every combination of faults.                             *)
(***************************************************************************)
EXTENDS ConfigStore, FiniteSetTheorems, WellFoundedInduction, TLAPS

-----------------------------------------------------------------------------
(* Types.                                                                  *)

\* The ids a sequence has handed out are below the next one.  TypeOK alone is
\* not inductive: the end of the log that a pull or a sweep reads is an id
\* only because the log has a greatest one.
IdsBelowNext ==
  /\ \A c \in log : c.id < nextId
  /\ \A s \in Station, g \in Engine : \A c \in task[s][g].entries :
       c.id < nextId

TypeInv == TypeOK /\ IdsBelowNext

\* The end of a log exists: a nonempty set of change ids below a bound has a
\* greatest member, and Max picks it.
LEMMA MaxIsMember ==
  ASSUME NEW S, S \subseteq Nat, S # {}, NEW n \in Nat, \A i \in S : i < n
  PROVE  Max(S) \in S /\ \A i \in S : i <= Max(S)
<1> DEFINE T == {n - i : i \in S}
           R == {ss \in Nat \X Nat : ss[1] < ss[2]}
<1>1. IsWellFoundedOn(R, Nat)
  BY NatLessThanWellFounded DEF OpToRel
<1>2. T \subseteq Nat /\ T # {}
  <2>1. \A i \in S : n - i \in Nat /\ n - i \in T
    OBVIOUS
  <2> QED BY <2>1
<1>3. PICK x \in T : \A y \in T : ~(<<y, x>> \in R)
  <2> HIDE DEF R
  <2> QED BY <1>1, <1>2, WFMin
<1>4. PICK m \in S : x = n - m
  OBVIOUS
<1>5. \A i \in S : m >= i
  <2> SUFFICES ASSUME NEW i \in S PROVE m >= i
    OBVIOUS
  <2>1. n - i \in T /\ n - i \in Nat /\ n - m \in Nat
    BY <1>4
  <2>2. ~(n - i < n - m)
    BY <2>1, <1>3, <1>4
  <2> QED BY <2>2
<1> QED BY <1>5 DEF Max

\* The end of the log is an id.
LEMMA EndOfLog ==
  ASSUME TypeInv, NEW L \in SUBSET log, L # {}
  PROVE  Max({c.id : c \in L}) \in Nat
<1> DEFINE S == {c.id : c \in L}
<1>1. S \subseteq Nat /\ S # {} /\ nextId \in Nat /\ \A i \in S : i < nextId
  BY DEF TypeInv, TypeOK, IdsBelowNext, ChangeRow
<1> HIDE DEF S
<1>2. Max(S) \in S
  BY <1>1, MaxIsMember
<1> QED BY <1>1, <1>2 DEF S

\* The resting values are values.
LEMMA RestingTypes ==
  /\ NoItem \in Item
  /\ Idle \in Task
  /\ NoDraft \in Draft
  /\ Pull \in Request
<1>1. NoItem \in Item
  BY DEF NoItem, Item, Content
<1>2. Idle \in Task
  BY <1>1 DEF Idle, Task, Op, Step
<1>3. NoDraft \in Draft
  BY <1>1 DEF NoDraft, Draft, DraftState, Content
<1> QED BY <1>1, <1>2, <1>3 DEF Pull, Request

\* An engine that takes on a task leaves a function of tasks.
LEMMA GoType ==
  ASSUME TypeInv, NEW s \in Station, NEW g \in Engine, NEW t \in Task,
         Go(s, g, t), \A c \in t.entries : c.id < nextId,
         nextId' \in Nat, nextId <= nextId'
  PROVE  /\ task' \in [Station -> [Engine -> Task]]
         /\ \A r \in Station, h \in Engine : \A c \in task'[r][h].entries :
              c.id < nextId'
<1>1. task' \in [Station -> [Engine -> Task]]
  BY DEF TypeInv, TypeOK, Go
<1>2. \A r \in Station, h \in Engine :
        task'[r][h] = IF r = s /\ h = g THEN t ELSE task[r][h]
  BY DEF TypeInv, TypeOK, Go
<1>3. \A r \in Station, h \in Engine : \A c \in task'[r][h].entries :
        c.id < nextId
  BY <1>2 DEF TypeInv, IdsBelowNext
<1>4. \A r \in Station, h \in Engine : \A c \in task'[r][h].entries :
        c.id \in Nat
  BY <1>1 DEF Task, ChangeRow
<1> QED BY <1>1, <1>3, <1>4 DEF TypeInv, TypeOK

\* What Go leaves in task.
LEMMA GoIs ==
  ASSUME TypeInv, NEW s \in Station, NEW g \in Engine, NEW t, Go(s, g, t)
  PROVE  /\ task'[s][g] = t
         /\ \A r \in Station, h \in Engine :
              r # s \/ h # g => task'[r][h] = task[r][h]
BY DEF TypeInv, TypeOK, Go

\* What follows an apply is a task without change rows.
LEMMA AfterApplyType ==
  ASSUME NEW s, NEW g, NEW t \in Task
  PROVE  AfterApply(s, g, t) \in Task /\ AfterApply(s, g, t).entries = {}
BY RestingTypes DEF AfterApply, Idle, Task, Op, Step

\* So is the beginning of a sweep.
LEMMA SweepType ==
  ASSUME TypeInv, NEW s \in Station, NEW op \in Op,
         NEW refs \in SUBSET Entity
  PROVE  Sweep(s, op, refs) \in Task /\ Sweep(s, op, refs).entries = {}
<1>1. dirty[s] \in SUBSET Entity /\ snapshot[s] \in [Entity -> Item]
  BY DEF TypeInv, TypeOK
<1> DEFINE t == [Idle EXCEPT !.op = op, !.refs = refs, !.step = ReadStep(op)]
           u == [t EXCEPT !.step = "repair", !.told = dirty[s],
                          !.got = snapshot[s]]
<1>2. t \in Task /\ t.entries = {}
  BY RestingTypes DEF ReadStep, Idle, Task, Step
<1>3. Sweep(s, op, refs) = t \/ Sweep(s, op, refs) = u
  BY DEF Sweep
<1> HIDE DEF t
<1>4. u \in Task /\ u.entries = {}
  BY <1>1, <1>2 DEF Task, Step
<1> HIDE DEF u
<1> QED BY <1>2, <1>3, <1>4

\* Beginning a task keeps the types of the tasks and of the local queue.
LEMMA BeginType ==
  ASSUME TypeInv, NEW s \in Station, NEW g \in Engine, NEW t \in Task,
         Begin(s, g, t), t.entries = {}, nextId' = nextId
  PROVE  /\ task' \in [Station -> [Engine -> Task]]
         /\ \A r \in Station, h \in Engine : \A c \in task'[r][h].entries :
              c.id < nextId'
         /\ localQ' \in [Station -> Seq(Engine)]
<1>1. Go(s, g, t) /\ nextId' \in Nat /\ nextId <= nextId'
  BY DEF Begin, TypeInv, TypeOK
<1>2. localQ' \in [Station -> Seq(Engine)]
  BY DEF Begin, TypeInv, TypeOK
<1> QED BY <1>1, <1>2, GoType

\* The local database of a station stays made of rows, whatever is written.
LEMMA WriteType ==
  ASSUME TypeInv, NEW s \in Station, NEW refs, NEW got \in [Entity -> Item],
         Write(s, refs, got)
  PROVE  mirror' \in [Station -> [Entity -> Item]]
<1> DEFINE new == [e \in Entity |-> IF e \in refs THEN got[e]
                                                  ELSE mirror[s][e]]
<1>1. new \in [Entity -> Item] /\ mirror \in [Station -> [Entity -> Item]]
  BY DEF TypeInv, TypeOK
<1>2. mirror' = [mirror EXCEPT ![s] = new]
  BY DEF Write
<1> HIDE DEF new
<1> QED BY <1>1, <1>2

\* What a station's listeners work from stays contents, whatever is announced.
LEMMA AnnounceType ==
  ASSUME TypeInv, NEW s \in Station, NEW told, Announce(s, told)
  PROVE  view' \in [Station -> [Entity -> Content]]
<1> DEFINE new == [e \in Entity |-> IF e \in told THEN snapshot[s][e].val
                                                  ELSE view[s][e]]
<1>1. new \in [Entity -> Content] /\ view \in [Station -> [Entity -> Content]]
  BY DEF TypeInv, TypeOK, Item
<1>2. view' = [view EXCEPT ![s] = new]
  BY DEF Announce
<1> HIDE DEF new
<1> QED BY <1>1, <1>2

\* A station's snapshot stays made of rows when a task swaps it.
LEMMA SwapType ==
  ASSUME TypeInv, NEW s \in Station, NEW refs, NEW got \in [Entity -> Item],
         snapshot' = [snapshot EXCEPT ![s] = [e \in Entity |->
                        IF e \in refs THEN got[e] ELSE @[e]]]
  PROVE  snapshot' \in [Station -> [Entity -> Item]]
<1> DEFINE new == [e \in Entity |-> IF e \in refs THEN got[e]
                                                  ELSE snapshot[s][e]]
<1>1. new \in [Entity -> Item] /\ snapshot \in [Station -> [Entity -> Item]]
  BY DEF TypeInv, TypeOK
<1>2. snapshot' = [snapshot EXCEPT ![s] = new]
  OBVIOUS
<1> HIDE DEF new
<1> QED BY <1>1, <1>2

\* An edit that changes its state stays an edit.
LEMMA DraftType ==
  ASSUME TypeInv, NEW s \in Station, NEW x \in DraftState,
         draft' = [draft EXCEPT ![s].state = x]
  PROVE  draft' \in [Station -> Draft]
<1>1. [draft[s] EXCEPT !.state = x] \in Draft
  <2>1. draft[s] \in Draft
    BY DEF TypeInv, TypeOK
  <2> QED BY <2>1 DEF Draft
<1>2. draft' = [draft EXCEPT ![s] = [draft[s] EXCEPT !.state = x]]
  OBVIOUS
<1> QED BY <1>1, <1>2 DEF TypeInv, TypeOK

\* A step that goes wrong leaves the count of such steps a number.
LEMMA FaultType ==
  ASSUME TypeInv, NEW kind, Fault(kind) \/ UNCHANGED faults
  PROVE  faults' \in Nat
BY DEF TypeInv, TypeOK, Fault

\* The local queue stays a sequence of engines when one joins or leaves it.
LEMMA QueueType ==
  ASSUME TypeInv, NEW s \in Station, NEW g \in Engine,
         \/ localQ' = [localQ EXCEPT ![s] = Append(@, g)]
         \/ Served(s, g) /\ localQ' = [localQ EXCEPT ![s] = Tail(@)]
  PROVE  localQ' \in [Station -> Seq(Engine)]
<1>1. localQ \in [Station -> Seq(Engine)] /\ localQ[s] \in Seq(Engine)
  BY DEF TypeInv, TypeOK
<1>2. Append(localQ[s], g) \in Seq(Engine)
  BY <1>1
<1>3. Served(s, g) => Tail(localQ[s]) \in Seq(Engine)
  BY <1>1 DEF Served
<1> QED BY <1>1, <1>2, <1>3

\* The starts of a task: a notification, a sweep, a save, a refused save.
LEMMA StartTypes ==
  ASSUME TypeInv, NEW s \in Station, StartStep(s)
  PROVE  TypeInv'
<1> USE DEF remoteVars, localVars, linkVars, bounds
<1>1. ASSUME NEW req \in pending[s], StartSync(s, req) PROVE TypeInv'
  <2> DEFINE t == CASE req.op = "pull" ->
                         [Idle EXCEPT !.op = "pull", !.step = "log",
                                      !.upTo = watermark[s]]
                    [] req.op = "rows" ->
                         [Idle EXCEPT !.op = "rows", !.step = "items",
                                      !.refs = req.refs]
                    [] OTHER -> Sweep(s, "kinds", req.refs)
  <2>1. req \in Request /\ current[s] \in Engine
    BY DEF TypeInv, TypeOK
  <2>2. t \in Task /\ t.entries = {}
    <3>1. req.refs \in SUBSET Entity /\ watermark[s] \in Nat
      BY <2>1 DEF Request, TypeInv, TypeOK
    <3>2. Sweep(s, "kinds", req.refs) \in Task
          /\ Sweep(s, "kinds", req.refs).entries = {}
      BY <3>1, SweepType DEF Op
    <3> QED BY <3>1, <3>2, RestingTypes DEF Idle, Task, Op, Step
  <2>3. Begin(s, current[s], t) /\ nextId' = nextId
    BY <1>1 DEF StartSync
  <2> HIDE DEF t
  <2>4. /\ task' \in [Station -> [Engine -> Task]]
        /\ \A r \in Station, h \in Engine : \A c \in task'[r][h].entries :
              c.id < nextId'
        /\ localQ' \in [Station -> Seq(Engine)]
    BY <2>1, <2>2, <2>3, BeginType
  <2> QED BY <1>1, <2>4 DEF StartSync, TypeInv, TypeOK, IdsBelowNext
<1>2. CASE StartSweep(s)
  <2>1. Sweep(s, "sweep", Entity) \in Task
        /\ Sweep(s, "sweep", Entity).entries = {}
    BY SweepType DEF Op
  <2>2. /\ task' \in [Station -> [Engine -> Task]]
        /\ \A r \in Station, h \in Engine : \A c \in task'[r][h].entries :
              c.id < nextId'
        /\ localQ' \in [Station -> Seq(Engine)]
    BY <1>2, <2>1, BeginType DEF StartSweep, TypeInv, TypeOK
  <2> QED BY <1>2, <2>2 DEF StartSweep, TypeInv, TypeOK, IdsBelowNext
<1>3. CASE StartSave(s)
  <2> DEFINE t == [Idle EXCEPT !.op = "save", !.step = "exec",
                               !.todo = Diff(draft[s])]
  <2>1. t \in Task /\ t.entries = {} /\ current[s] \in Engine
    BY RestingTypes DEF Idle, Task, Op, Step, Diff, TypeInv, TypeOK
  <2>2. Go(s, current[s], t) /\ nextId' = nextId
    BY <1>3 DEF StartSave
  <2> HIDE DEF t
  <2>3. /\ task' \in [Station -> [Engine -> Task]]
        /\ \A r \in Station, h \in Engine : \A c \in task'[r][h].entries :
              c.id < nextId'
    <3>1. nextId' \in Nat /\ nextId <= nextId'
      BY <2>2 DEF TypeInv, TypeOK
    <3> QED BY <2>1, <2>2, <3>1, GoType
  <2>4. draft' \in [Station -> Draft]
    <3>1. draft' = [draft EXCEPT ![s].state = "running"]
      BY <1>3, Zenon DEF StartSave
    <3> QED BY <3>1, DraftType DEF DraftState
  <2> QED BY <1>3, <2>3, <2>4 DEF StartSave, TypeInv, TypeOK, IdsBelowNext
<1>4. CASE RefuseOffline(s)
  <2>1. draft' \in [Station -> Draft]
    <3>1. draft' = [draft EXCEPT ![s].state = "offline"]
      BY <1>4, Zenon DEF RefuseOffline
    <3> QED BY <3>1, DraftType DEF DraftState
  <2> QED BY <1>4, <2>1 DEF RefuseOffline, TypeInv, TypeOK, IdsBelowNext
<1> QED BY <1>1, <1>2, <1>3, <1>4 DEF StartStep

\* A task of the chain that reads or that moves the watermark.
LEMMA SyncTypes ==
  ASSUME TypeInv, NEW s \in Station, NEW g \in Engine, SyncStep(s, g)
  PROVE  TypeInv'
<1> USE DEF remoteVars, localVars, linkVars, bounds
<1> DEFINE t == task[s][g]
<1>t. t \in Task
  BY DEF TypeInv, TypeOK
<1> HIDE DEF t
\* What every step but the two mirror writes has in common.
<1>go. ASSUME NEW u \in Task, u.entries = {} \/ u.entries = t.entries,
              Go(s, g, u), nextId' = nextId
       PROVE  /\ task' \in [Station -> [Engine -> Task]]
              /\ \A r \in Station, h \in Engine :
                   \A c \in task'[r][h].entries : c.id < nextId'
  <2>1. \A c \in u.entries : c.id < nextId
    BY <1>go DEF TypeInv, IdsBelowNext, t
  <2>2. nextId' \in Nat /\ nextId <= nextId'
    BY <1>go DEF TypeInv, TypeOK
  <2> QED BY <1>go, <2>1, <2>2, GoType
<1>1. CASE PullLog(s, g)
  <2> DEFINE new == {c \in log : c.id > t.upTo}
             u == IF new = {} THEN Idle
                  ELSE [t EXCEPT !.step = "kinds",
                                 !.refs = {c.entity : c \in new},
                                 !.upTo = Max({c.id : c \in new})]
  <2>1. u \in Task /\ (u.entries = {} \/ u.entries = t.entries)
    <3>1. CASE new = {}
      BY <3>1, RestingTypes DEF Idle
    <3>2. CASE new # {}
      <4>1. new \in SUBSET log
        OBVIOUS
      <4>2. Max({c.id : c \in new}) \in Nat
        <5> HIDE DEF new
        <5> QED BY <3>2, <4>1, EndOfLog
      <4>3. {c.entity : c \in new} \in SUBSET Entity
        BY DEF TypeInv, TypeOK, ChangeRow
      <4> HIDE DEF new
      <4> QED BY <1>t, <3>2, <4>2, <4>3 DEF Task, Step
    <3> QED BY <3>1, <3>2
  <2>2. Go(s, g, u) /\ nextId' = nextId
    BY <1>1 DEF PullLog, t
  <2> HIDE DEF u
  <2>3. /\ task' \in [Station -> [Engine -> Task]]
        /\ \A r \in Station, h \in Engine :
             \A c \in task'[r][h].entries : c.id < nextId'
    BY <2>1, <2>2, <1>go
  <2> QED BY <1>1, <2>3 DEF PullLog, TypeInv, TypeOK, IdsBelowNext
<1>2. CASE PullKinds(s, g)
  <2> DEFINE suspect == Suspects(s, {KindOf[e] : e \in t.refs})
             u == [t EXCEPT !.suspect = suspect,
                            !.step = IF suspect = {} THEN "items"
                                                     ELSE "marker"]
  <2>1. suspect \in SUBSET Kind
    BY <1>t, ConstantsOK DEF Suspects, HeldKinds, Task
  <2>2. u \in Task /\ u.entries = t.entries
    <3> HIDE DEF suspect
    <3> QED BY <1>t, <2>1 DEF Task, Step
  <2>3. Go(s, g, u) /\ nextId' = nextId
    BY <1>2 DEF PullKinds, t
  <2> HIDE DEF u
  <2>4. /\ task' \in [Station -> [Engine -> Task]]
        /\ \A r \in Station, h \in Engine :
             \A c \in task'[r][h].entries : c.id < nextId'
    BY <2>2, <2>3, <1>go
  <2> QED BY <1>2, <2>4 DEF PullKinds, TypeInv, TypeOK, IdsBelowNext
<1>3. CASE ReadMarkers(s, g)
  <2> DEFINE refused == t.suspect \ migrated
             owned == {e \in t.refs : KindOf[e] \notin refused}
             refs == IF t.op = "pull" THEN owned
                                      ELSE Differing(s, owned, t.got)
             next == [t EXCEPT !.suspect = {}, !.refused = refused,
                               !.refs = refs, !.got = Idle.got,
                               !.step = "items"]
             u == IF t.op # "pull" /\ refs = {} THEN AfterApply(s, g, next)
                                                ELSE next
  <2>1. /\ refused \in SUBSET Kind
        /\ refs \in SUBSET Entity
        /\ Idle.got \in [Entity -> Item]
    BY <1>t, RestingTypes DEF Differing, Task
  <2>2. next \in Task /\ next.entries = t.entries
    <3> HIDE DEF refused, refs
    <3> QED BY <1>t, <2>1 DEF Task, Step
  <2>3. u \in Task /\ (u.entries = {} \/ u.entries = t.entries)
    <3> HIDE DEF next
    <3> QED BY <2>2, AfterApplyType
  <2>4. Go(s, g, u) /\ nextId' = nextId
    BY <1>3 DEF ReadMarkers, t
  <2> HIDE DEF u
  <2>5. /\ task' \in [Station -> [Engine -> Task]]
        /\ \A r \in Station, h \in Engine :
             \A c \in task'[r][h].entries : c.id < nextId'
    BY <2>3, <2>4, <1>go
  <2> QED BY <1>3, <2>5 DEF ReadMarkers, TypeInv, TypeOK, IdsBelowNext
<1>4. CASE RepairMirror(s, g)
  <2> DEFINE u == [t EXCEPT !.step = ReadStep(t.op), !.told = {},
                            !.got = Idle.got]
  <2>1. u \in Task /\ u.entries = t.entries
    BY <1>t, RestingTypes DEF Task, Step, ReadStep, Idle
  <2>2. Go(s, g, u) /\ nextId' = nextId
    BY <1>4 DEF RepairMirror, t
  <2> HIDE DEF u
  <2>3. /\ task' \in [Station -> [Engine -> Task]]
        /\ \A r \in Station, h \in Engine :
             \A c \in task'[r][h].entries : c.id < nextId'
    BY <2>1, <2>2, <1>go
  <2>4. mirror' \in [Station -> [Entity -> Item]]
    <3>1. t.got \in [Entity -> Item]
      BY <1>t DEF Task
    <3>2. Write(s, t.told, t.got) \/ mirror' = mirror
      BY <1>4 DEF RepairMirror, t
    <3> QED BY <3>1, <3>2, WriteType DEF TypeInv, TypeOK
  <2>5. localQ' \in [Station -> Seq(Engine)]
    BY <1>4, QueueType DEF RepairMirror
  <2>6. dirty' \in [Station -> SUBSET Entity]
    BY <1>4 DEF RepairMirror, TypeInv, TypeOK
  <2>7. faults' \in Nat
    BY <1>4, FaultType DEF RepairMirror
  <2> QED BY <1>4, <2>3, <2>4, <2>5, <2>6, <2>7
          DEF RepairMirror, TypeInv, TypeOK, IdsBelowNext
<1>5. CASE SweepMax(s, g)
  <2> DEFINE u == [t EXCEPT !.step = "revs",
                            !.upTo = IF log = {} THEN watermark[s]
                                     ELSE Max({c.id : c \in log})]
  <2>1. log # {} => Max({c.id : c \in log}) \in Nat
    BY EndOfLog
  <2>2. u \in Task /\ u.entries = t.entries
    BY <1>t, <2>1 DEF Task, Step, TypeInv, TypeOK
  <2>3. Go(s, g, u) /\ nextId' = nextId
    BY <1>5 DEF SweepMax, t
  <2> HIDE DEF u
  <2>4. /\ task' \in [Station -> [Engine -> Task]]
        /\ \A r \in Station, h \in Engine :
             \A c \in task'[r][h].entries : c.id < nextId'
    BY <2>2, <2>3, <1>go
  <2> QED BY <1>5, <2>4 DEF SweepMax, TypeInv, TypeOK, IdsBelowNext
<1>6. CASE SweepRevs(s, g)
  <2> DEFINE suspect == Suspects(s, {KindOf[e] : e \in t.refs})
             refs == Differing(s, t.refs, rows)
             asking == [t EXCEPT !.suspect = suspect, !.got = rows,
                                 !.step = "marker"]
             reading == [t EXCEPT !.refs = refs, !.step = "items"]
             u == IF suspect # {} THEN asking
                  ELSE IF refs = {} THEN AfterApply(s, g, t)
                  ELSE reading
  <2>1. /\ suspect \in SUBSET Kind
        /\ refs \in SUBSET Entity
        /\ rows \in [Entity -> Item]
    BY <1>t, ConstantsOK
       DEF Suspects, HeldKinds, Differing, Task, TypeInv, TypeOK
  <2>2. /\ asking \in Task /\ asking.entries = t.entries
        /\ reading \in Task /\ reading.entries = t.entries
    <3> HIDE DEF suspect, refs
    <3> QED BY <1>t, <2>1 DEF Task, Step
  <2>3. u \in Task /\ (u.entries = {} \/ u.entries = t.entries)
    <3> HIDE DEF suspect, refs, asking, reading
    <3> QED BY <1>t, <2>2, AfterApplyType
  <2>4. Go(s, g, u) /\ nextId' = nextId
    BY <1>6 DEF SweepRevs, t
  <2> HIDE DEF u
  <2>5. /\ task' \in [Station -> [Engine -> Task]]
        /\ \A r \in Station, h \in Engine :
             \A c \in task'[r][h].entries : c.id < nextId'
    BY <2>3, <2>4, <1>go
  <2> QED BY <1>6, <2>5 DEF SweepRevs, TypeInv, TypeOK, IdsBelowNext
<1>7. CASE ReadItems(s, g)
  <2> DEFINE u == [t EXCEPT !.step = "apply",
                            !.got = [e \in Entity |->
                               IF e \in t.refs THEN rows[e] ELSE NoItem]]
  <2>1. u \in Task /\ u.entries = t.entries
    BY <1>t, RestingTypes DEF Task, Step, TypeInv, TypeOK
  <2>2. Go(s, g, u) /\ nextId' = nextId
    BY <1>7 DEF ReadItems, t
  <2> HIDE DEF u
  <2>3. /\ task' \in [Station -> [Engine -> Task]]
        /\ \A r \in Station, h \in Engine :
             \A c \in task'[r][h].entries : c.id < nextId'
    BY <2>1, <2>2, <1>go
  <2> QED BY <1>7, <2>3 DEF ReadItems, TypeInv, TypeOK, IdsBelowNext
<1>8. CASE Apply(s, g)
  <2> DEFINE fresh == Taken(s, t)
             told == {e \in fresh : t.got[e].val # snapshot[s][e].val}
             next == [t EXCEPT !.step = "mirror", !.refs = fresh,
                               !.told = told]
  <2>1. fresh \in SUBSET Entity /\ told \in SUBSET Entity
    BY <1>t DEF Taken, Task
  <2>2. next \in Task /\ next.entries = t.entries
    <3> HIDE DEF fresh, told
    <3> QED BY <1>t, <2>1 DEF Task, Step
  <2>3. AfterApply(s, g, t) \in Task /\ AfterApply(s, g, t).entries = {}
    BY <1>t, AfterApplyType
  <2>4. nextId' = nextId /\ (Go(s, g, next) \/ Go(s, g, AfterApply(s, g, t)))
    BY <1>8 DEF Apply, t
  <2>5. /\ task' \in [Station -> [Engine -> Task]]
        /\ \A r \in Station, h \in Engine :
             \A c \in task'[r][h].entries : c.id < nextId'
    <3> HIDE DEF next
    <3> QED BY <2>2, <2>3, <2>4, <1>go
  <2>6. snapshot' \in [Station -> [Entity -> Item]]
    <3>1. t.got \in [Entity -> Item]
      BY <1>t DEF Task
    <3>2. \/ snapshot' = snapshot
          \/ snapshot' = [snapshot EXCEPT ![s] = [e \in Entity |->
                           IF e \in fresh THEN t.got[e] ELSE @[e]]]
      BY <1>8 DEF Apply, t
    <3>3. snapshot \in [Station -> [Entity -> Item]]
      BY DEF TypeInv, TypeOK
    <3> HIDE DEF fresh
    <3> QED BY <3>1, <3>2, <3>3, SwapType
  <2>7. localQ' \in [Station -> Seq(Engine)]
    <3>1. \/ localQ' = localQ
          \/ localQ' = [localQ EXCEPT ![s] = Append(@, g)]
      BY <1>8 DEF Apply
    <3> QED BY <3>1, QueueType DEF TypeInv, TypeOK
  <2> QED BY <1>8, <2>5, <2>6, <2>7 DEF Apply, TypeInv, TypeOK, IdsBelowNext
<1>9. CASE WriteMirror(s, g)
  <2> DEFINE next == [t EXCEPT !.step = "nudge"]
  <2>1. next \in Task /\ next.entries = t.entries
    BY <1>t DEF Task, Step
  <2>2. AfterApply(s, g, t) \in Task /\ AfterApply(s, g, t).entries = {}
    BY <1>t, AfterApplyType
  <2>3. nextId' = nextId /\ (Go(s, g, next) \/ Go(s, g, AfterApply(s, g, t)))
    BY <1>9 DEF WriteMirror, t
  <2>4. /\ task' \in [Station -> [Engine -> Task]]
        /\ \A r \in Station, h \in Engine :
             \A c \in task'[r][h].entries : c.id < nextId'
    <3> HIDE DEF next
    <3> QED BY <2>1, <2>2, <2>3, <1>go
  <2>5. mirror' \in [Station -> [Entity -> Item]]
    <3>1. t.got \in [Entity -> Item]
      BY <1>t DEF Task
    <3>2. Write(s, t.refs, t.got) \/ mirror' = mirror
      BY <1>9 DEF WriteMirror, t
    <3> QED BY <3>1, <3>2, WriteType DEF TypeInv, TypeOK
  <2>6. dirty' \in [Station -> SUBSET Entity]
    <3>1. t.refs \in SUBSET Entity
      BY <1>t DEF Task
    <3>2. dirty' = dirty \/ dirty' = [dirty EXCEPT ![s] = @ \cup t.refs]
      BY <1>9 DEF WriteMirror, NoteDirty, t
    <3>3. dirty \in [Station -> SUBSET Entity]
          /\ dirty[s] \cup t.refs \in SUBSET Entity
      BY <3>1 DEF TypeInv, TypeOK
    <3> QED BY <3>2, <3>3
  <2>7. faults' \in Nat
    BY <1>9, FaultType DEF WriteMirror
  <2>8. localQ' \in [Station -> Seq(Engine)]
    BY <1>9, QueueType DEF WriteMirror
  <2>9. draft' \in [Station -> Draft]
    <3>1. draft' = draft \/ draft' = [draft EXCEPT ![s].state = "saved"]
      BY <1>9 DEF WriteMirror
    <3> QED BY <3>1, DraftType DEF DraftState, TypeInv, TypeOK
  <2>10. view' \in [Station -> [Entity -> Content]]
    <3>1. view' = view \/ Announce(s, t.told)
      BY <1>9 DEF WriteMirror, t
    <3> QED BY <3>1, AnnounceType DEF TypeInv, TypeOK
  <2> QED BY <1>9, <2>4, <2>5, <2>6, <2>7, <2>8, <2>9, <2>10
          DEF WriteMirror, TypeInv, TypeOK, IdsBelowNext
<1>10. CASE Advance(s, g)
  <2>1. Go(s, g, Idle) /\ nextId' = nextId /\ Idle.entries = {}
    BY <1>10 DEF Advance, Idle
  <2>2. /\ task' \in [Station -> [Engine -> Task]]
        /\ \A r \in Station, h \in Engine :
             \A c \in task'[r][h].entries : c.id < nextId'
    BY <2>1, <1>go, RestingTypes
  <2>3. watermark' \in [Station -> Nat] /\ persisted' \in [Station -> Nat]
    <3>1. t.upTo \in Nat
      BY <1>t DEF Task
    <3>2. /\ \/ watermark' = watermark
             \/ watermark' = [watermark EXCEPT ![s] = t.upTo]
          /\ \/ persisted' = persisted
             \/ persisted' = [persisted EXCEPT ![s] = t.upTo]
      BY <1>10 DEF Advance, t
    <3> QED BY <3>1, <3>2 DEF TypeInv, TypeOK
  <2>4. faults' \in Nat
    BY <1>10, FaultType DEF Advance
  <2> QED BY <1>10, <2>2, <2>3, <2>4 DEF Advance, TypeInv, TypeOK, IdsBelowNext
<1> QED BY <1>1, <1>2, <1>3, <1>4, <1>5, <1>6, <1>7, <1>8, <1>9, <1>10
        DEF SyncStep

\* A save, from its first statement to its nudge.
LEMMA SaveTypes ==
  ASSUME TypeInv, NEW s \in Station, NEW g \in Engine,
         SaveStep(s, g) \/ Abandon(s, g) \/ LoseLink(s, g)
  PROVE  TypeInv'
<1> USE DEF remoteVars, localVars, linkVars, bounds
<1> DEFINE t == task[s][g]
<1>t. t \in Task
  BY DEF TypeInv, TypeOK
<1>d. draft[s] \in Draft /\ rows \in [Entity -> Item]
  BY DEF TypeInv, TypeOK
<1> HIDE DEF t
\* What every step that ends or goes on without a new change row has in common.
<1>go. ASSUME NEW u \in Task, u.entries = {}, Go(s, g, u), nextId' = nextId
       PROVE  /\ task' \in [Station -> [Engine -> Task]]
              /\ \A r \in Station, h \in Engine :
                   \A c \in task'[r][h].entries : c.id < nextId'
  <2>1. nextId' \in Nat /\ nextId <= nextId'
    BY <1>go DEF TypeInv, TypeOK
  <2> QED BY <1>go, <2>1, GoType
\* Every way to roll back.
<1>rb. ASSUME NEW why \in {"conflict", "failed", "offline"},
              RollBack(s, g, why), faults' \in Nat
       PROVE  TypeInv'
  <2>1. Go(s, g, Idle) /\ nextId' = nextId /\ Idle.entries = {}
    BY <1>rb DEF RollBack, Idle
  <2>2. /\ task' \in [Station -> [Engine -> Task]]
        /\ \A r \in Station, h \in Engine :
             \A c \in task'[r][h].entries : c.id < nextId'
    BY <2>1, <1>go, RestingTypes
  <2>3. draft' \in [Station -> Draft]
    BY <1>rb, DraftType DEF RollBack, DraftState
  <2> QED BY <1>rb, <2>2, <2>3 DEF RollBack, TypeInv, TypeOK, IdsBelowNext
<1>1. ASSUME NEW e \in Entity, ExecStatement(s, g, e) PROVE TypeInv'
  <2> DEFINE logged == Logged(s, e)
             entry == [id |-> nextId, entity |-> e, ver |-> rows[e].ver + 1,
                       late |-> FALSE]
             u == [t EXCEPT !.todo = @ \ {e}, !.held = @ \cup {e},
                            !.entries = IF logged THEN @ \cup {entry} ELSE @]
  <2>1. entry \in ChangeRow
    BY <1>d DEF ChangeRow, Item, TypeInv, TypeOK
  <2>2. u \in Task
    <3> HIDE DEF entry
    <3> QED BY <1>t, <2>1 DEF Task
  <2>3. nextId \in Nat /\ nextId' \in Nat /\ nextId <= nextId'
        /\ (logged => nextId < nextId')
    BY <1>1 DEF ExecStatement, TypeInv, TypeOK
  <2>4. \A c \in t.entries : c.id < nextId
    BY DEF TypeInv, IdsBelowNext, t
  <2>5. Go(s, g, u)
    BY <1>1 DEF ExecStatement, t
  <2>6. \A c \in u.entries : c \in t.entries \/ (logged /\ c = entry)
    BY <1>t DEF Task
  <2> HIDE DEF u
  <2>7. task' \in [Station -> [Engine -> Task]]
    BY <2>2, <2>5 DEF Go, TypeInv, TypeOK
  <2>8. ASSUME NEW r \in Station, NEW h \in Engine,
               NEW c \in task'[r][h].entries
        PROVE  c.id < nextId'
    <3>1. task'[r][h] = IF r = s /\ h = g THEN u ELSE task[r][h]
      BY <2>5 DEF Go, TypeInv, TypeOK
    <3>2. c.id \in Nat
      BY <2>7 DEF Task, ChangeRow
    <3>3. CASE c.id < nextId
      BY <3>2, <3>3, <2>3
    <3>4. CASE logged /\ c = entry
      BY <3>4, <2>3
    <3> QED BY <3>1, <3>3, <3>4, <2>4, <2>6 DEF TypeInv, IdsBelowNext
  <2>9. \A c \in log : c.id < nextId'
    BY <2>3 DEF TypeInv, TypeOK, IdsBelowNext, ChangeRow
  <2> QED BY <1>1, <2>3, <2>7, <2>8, <2>9
          DEF ExecStatement, TypeInv, TypeOK, IdsBelowNext
<1>2. ASSUME NEW e \in Entity, Conflict(s, g, e) PROVE TypeInv'
  BY <1>2, <1>rb DEF Conflict, TypeInv, TypeOK
<1>3. CASE Deadlock(s, g)
  BY <1>3, <1>rb DEF Deadlock, TypeInv, TypeOK
<1>4. CASE Commit(s, g)
  <2> DEFINE new == [e \in Entity |->
                       IF e \in t.held THEN Written(draft[s], e) ELSE NoItem]
             u == [t EXCEPT !.step = "ack", !.refs = t.held, !.held = {},
                            !.entries = {}, !.told = t.held, !.got = new]
             added == {[c EXCEPT !.late = \E d \in log : d.id > c.id] :
                         c \in t.entries}
  <2>1. \A e \in Entity : Written(draft[s], e) \in Item
    BY <1>d DEF Written, Draft, Item, Content
  <2>2. new \in [Entity -> Item]
    BY <2>1, RestingTypes
  <2>3. u \in Task /\ u.entries = {}
    <3> HIDE DEF new
    <3> QED BY <1>t, <2>2 DEF Task, Step
  <2>4. Go(s, g, u) /\ nextId' = nextId
    BY <1>4 DEF Commit, t
  <2>5. /\ task' \in [Station -> [Engine -> Task]]
        /\ \A r \in Station, h \in Engine :
             \A c \in task'[r][h].entries : c.id < nextId'
    <3> HIDE DEF u
    <3> QED BY <2>3, <2>4, <1>go
  <2>6. rows' \in [Entity -> Item]
    <3>1. rows' = [e \in Entity |-> IF e \in t.held THEN new[e] ELSE rows[e]]
      BY <1>4 DEF Commit, t
    <3> HIDE DEF new
    <3> QED BY <3>1, <2>2, <1>d
  <2>7. log' = log \cup added
    BY <1>4 DEF Commit, t
  <2>8. \A c \in added : c \in ChangeRow /\ c.id < nextId
    <3>1. t.entries \in SUBSET ChangeRow /\ \A c \in t.entries : c.id < nextId
      BY <1>t DEF Task, TypeInv, IdsBelowNext, t
    <3> QED BY <3>1 DEF ChangeRow
  <2>9. log' \subseteq ChangeRow /\ \A c \in log' : c.id < nextId'
    <3> HIDE DEF added
    <3> QED BY <2>4, <2>7, <2>8 DEF TypeInv, TypeOK, IdsBelowNext
  <2>10. pending' \in [Station -> SUBSET Request]
    BY <1>4, RestingTypes DEF Commit, Notified, TypeInv, TypeOK
  <2> QED BY <1>4, <2>5, <2>6, <2>9, <2>10
          DEF Commit, TypeInv, TypeOK, IdsBelowNext
<1>5. CASE Acknowledge(s, g)
  <2> DEFINE u == [t EXCEPT !.step = "mirror"]
  <2>1. u \in Task /\ u.entries = t.entries
    BY <1>t DEF Task, Step
  <2>2. Go(s, g, u) /\ nextId' = nextId
    BY <1>5 DEF Acknowledge, t
  <2> HIDE DEF u
  <2>3. /\ task' \in [Station -> [Engine -> Task]]
        /\ \A r \in Station, h \in Engine :
             \A c \in task'[r][h].entries : c.id < nextId'
    <3>1. \A c \in u.entries : c.id < nextId
      BY <2>1 DEF TypeInv, IdsBelowNext, t
    <3>2. nextId' \in Nat /\ nextId <= nextId'
      BY <2>2 DEF TypeInv, TypeOK
    <3> QED BY <2>1, <2>2, <3>1, <3>2, GoType
  <2>4. snapshot' \in [Station -> [Entity -> Item]]
    <3>1. t.got \in [Entity -> Item]
          /\ snapshot \in [Station -> [Entity -> Item]]
      BY <1>t DEF Task, TypeInv, TypeOK
    <3>2. Swapped(s, t) \in [Entity -> Item]
      BY <3>1 DEF Swapped
    <3>3. snapshot' = [snapshot EXCEPT ![s] = Swapped(s, t)]
      BY <1>5 DEF Acknowledge, t
    <3> QED BY <3>1, <3>2, <3>3
  <2>5. localQ' \in [Station -> Seq(Engine)]
    BY <1>5, QueueType DEF Acknowledge
  <2> QED BY <1>5, <2>3, <2>4, <2>5
          DEF Acknowledge, TypeInv, TypeOK, IdsBelowNext
<1>6. CASE Nudge(s, g)
  <2>1. Go(s, g, Idle) /\ nextId' = nextId /\ Idle.entries = {}
    BY <1>6 DEF Nudge, Idle
  <2>2. /\ task' \in [Station -> [Engine -> Task]]
        /\ \A r \in Station, h \in Engine :
             \A c \in task'[r][h].entries : c.id < nextId'
    BY <2>1, <1>go, RestingTypes
  <2>3. draft' \in [Station -> Draft]
    BY <1>6, DraftType DEF Nudge, DraftState
  <2>4. view' \in [Station -> [Entity -> Content]]
    BY <1>6, AnnounceType DEF Nudge
  <2>5. faults' \in Nat
    BY <1>6, FaultType DEF Nudge
  <2>6. pending' \in [Station -> SUBSET Request]
    <3>1. \A d \in t.refs : d \in Entity
      BY <1>t DEF Task
    <3>2. \A req \in Request : Notified(req) \in [Station -> SUBSET Request]
      BY DEF Notified, TypeInv, TypeOK
    <3>3. [op |-> "rows", refs |-> t.refs \cap Exempt] \in Request
          /\ [op |-> "kinds",
              refs |-> {e \in Entity : \E d \in t.refs \cap Exempt :
                          KindOf[d] = KindOf[e]}] \in Request
      BY <3>1 DEF Request
    <3> QED BY <1>6, <3>2, <3>3 DEF Nudge, TypeInv, TypeOK, t
  <2> QED BY <1>6, <2>2, <2>3, <2>4, <2>5, <2>6
          DEF Nudge, TypeInv, TypeOK, IdsBelowNext
<1>7. CASE Abandon(s, g)
  <2>1. Go(s, g, Idle) /\ nextId' = nextId /\ Idle.entries = {}
    BY <1>7 DEF Abandon, Dropped, Idle
  <2>2. /\ task' \in [Station -> [Engine -> Task]]
        /\ \A r \in Station, h \in Engine :
             \A c \in task'[r][h].entries : c.id < nextId'
    BY <2>1, <1>go, RestingTypes
  <2>3. faults' \in Nat
    BY <1>7, FaultType DEF Abandon
  <2> QED BY <1>7, <2>2, <2>3 DEF Abandon, TypeInv, TypeOK, IdsBelowNext
<1>8. CASE LoseLink(s, g)
  BY <1>8, <1>rb, FaultType DEF LoseLink
<1> QED BY <1>1, <1>2, <1>3, <1>4, <1>5, <1>6, <1>7, <1>8 DEF SaveStep

\* The attachment and its channel.
LEMMA LinkTypes ==
  ASSUME TypeInv, NEW s \in Station, LinkStep(s)
  PROVE  TypeInv'
<1> USE DEF remoteVars, localVars, linkVars, bounds
<1>1. CASE Attach(s)
  <2> DEFINE g == 3 - current[s]
             u == Sweep(s, "sweep", Entity)
  <2>1. g \in Engine
    <3>1. current[s] \in {1, 2}
      BY DEF Engine, TypeInv, TypeOK
    <3> QED BY <3>1 DEF Engine
  <2>2. u \in Task /\ u.entries = {}
    BY SweepType DEF Op
  <2>3. Begin(s, g, u) /\ nextId' = nextId
    BY <1>1 DEF Attach
  <2>4. current' = [current EXCEPT ![s] = g]
        /\ chan' = [chan EXCEPT ![s] = "opening"]
    BY <1>1 DEF Attach
  <2> HIDE DEF g, u
  <2>5. /\ task' \in [Station -> [Engine -> Task]]
        /\ \A r \in Station, h \in Engine : \A c \in task'[r][h].entries :
              c.id < nextId'
        /\ localQ' \in [Station -> Seq(Engine)]
    BY <2>1, <2>2, <2>3, BeginType
  <2>6. faults' \in Nat
    BY <1>1, FaultType DEF Attach
  <2>7. current' \in [Station -> Engine]
    BY <2>1, <2>4 DEF TypeInv, TypeOK
  <2> QED BY <1>1, <2>4, <2>5, <2>6, <2>7
          DEF Attach, TypeInv, TypeOK, IdsBelowNext
<1>2. CASE Detach(s)
  <2>1. faults' \in Nat
    BY <1>2, FaultType DEF Detach
  <2> QED BY <1>2, <2>1 DEF Detach, TypeInv, TypeOK, IdsBelowNext
<1>3. CASE ChannelOpen(s)
  BY <1>3 DEF ChannelOpen, TypeInv, TypeOK, IdsBelowNext
<1>4. CASE ChannelDrop(s)
  <2>1. faults' \in Nat
    BY <1>4, FaultType DEF ChannelDrop
  <2>2. pending' \in [Station -> SUBSET Request]
    <3>1. PICK lost \in SUBSET pending[s] :
            pending' = [pending EXCEPT ![s] = @ \ lost]
      BY <1>4 DEF ChannelDrop
    <3> QED BY <3>1 DEF TypeInv, TypeOK
  <2> QED BY <1>4, <2>1, <2>2 DEF ChannelDrop, TypeInv, TypeOK, IdsBelowNext
<1>5. CASE Relisten(s)
  <2>1. pending' \in [Station -> SUBSET Request]
    BY <1>5, RestingTypes DEF Relisten, TypeInv, TypeOK
  <2> QED BY <1>5, <2>1 DEF Relisten, TypeInv, TypeOK, IdsBelowNext
<1> QED BY <1>1, <1>2, <1>3, <1>4, <1>5 DEF LinkStep

\* An edit that begins, from the snapshot as it is.
LEMMA EditTypes ==
  ASSUME TypeInv, NEW s \in Station, BeginEdit(s)
  PROVE  TypeInv'
<1> USE DEF remoteVars, localVars, linkVars, bounds
<1>1. draft' \in [Station -> Draft]
  <2>1. PICK want \in Wish :
          draft' = [draft EXCEPT ![s] = [state |-> "open", want |-> want,
                                         base |-> snapshot[s]]]
    BY DEF BeginEdit
  <2>2. [state |-> "open", want |-> want, base |-> snapshot[s]] \in Draft
    BY ConstantsOK DEF Draft, DraftState, Content, TypeInv, TypeOK
  <2> QED BY <2>1, <2>2 DEF TypeInv, TypeOK
<1>2. edits' \in Nat
  BY DEF BeginEdit, TypeInv, TypeOK
<1> QED BY <1>1, <1>2 DEF BeginEdit, TypeInv, TypeOK, IdsBelowNext

\* A process that starts again, from its local database.
LEMMA RestartTypes ==
  ASSUME TypeInv, NEW s \in Station, Restart(s)
  PROVE  TypeInv'
<1> USE DEF remoteVars, localVars, linkVars, bounds
<1>1. faults' \in Nat
  BY FaultType DEF Restart
<1>2. [g \in Engine |-> Idle] \in [Engine -> Task]
  BY RestingTypes
<1>3. task' \in [Station -> [Engine -> Task]]
  BY <1>2 DEF Restart, TypeInv, TypeOK
<1>4. \A r \in Station, h \in Engine : \A c \in task'[r][h].entries :
        c.id < nextId'
  BY DEF Restart, Idle, TypeInv, TypeOK, IdsBelowNext
<1>5. view' \in [Station -> [Entity -> Content]]
  <2>1. [e \in Entity |-> mirror[s][e].val] \in [Entity -> Content]
    BY DEF TypeInv, TypeOK, Item
  <2> QED BY <2>1 DEF Restart, TypeInv, TypeOK
<1>6. draft' \in [Station -> Draft]
  BY RestingTypes DEF Restart, TypeInv, TypeOK
<1>7. localQ' \in [Station -> Seq(Engine)]
  BY DEF Restart, TypeInv, TypeOK
<1> QED BY <1>1, <1>3, <1>4, <1>5, <1>6, <1>7
        DEF Restart, TypeInv, TypeOK, IdsBelowNext

\* How many change rows the first copy of a kind writes.
LEMMA LoggedIsFinite ==
  ASSUME NEW L \in SUBSET Entity
  PROVE  Cardinality(L) \in Nat
BY ConstantsOK, FS_Subset, FS_CardinalityType

\* The first copy of a kind into rows, whose change rows take new ids.
LEMMA MigrateTypes ==
  ASSUME TypeInv, NEW k \in Kind, Migrate(k)
  PROVE  TypeInv'
<1> USE DEF remoteVars, localVars, linkVars, bounds
<1> DEFINE blob == {e \in OfKind(k) : Plant[e] # NoValue}
           logged == blob \ Exempt
           n == Cardinality(logged)
<1>1. n \in Nat /\ nextId \in Nat /\ nextId' = nextId + n
  BY LoggedIsFinite DEF Migrate, OfKind, TypeInv, TypeOK
<1>2. PICK ids \in [logged -> nextId..(nextId + n - 1)] :
        log' = log \cup
          {[id |-> ids[e], entity |-> e, ver |-> 1, late |-> FALSE] :
             e \in logged}
  BY DEF Migrate
<1>3. logged \subseteq Entity
  BY DEF OfKind
<1>a. rows' = [e \in Entity |->
                 IF e \in blob THEN [val |-> Plant[e], rev |-> 1, ver |-> 1]
                               ELSE rows[e]]
  BY DEF Migrate
<1>b. blob \subseteq Entity
  BY DEF OfKind
<1> HIDE DEF n, logged, blob
<1>4. \A e \in logged : ids[e] \in Nat /\ ids[e] < nextId'
  BY <1>1, <1>2
<1>5. log' \subseteq ChangeRow
  <2>1. \A e \in logged :
          [id |-> ids[e], entity |-> e, ver |-> 1, late |-> FALSE] \in ChangeRow
    BY <1>3, <1>4 DEF ChangeRow
  <2> QED BY <1>2, <2>1 DEF TypeInv, TypeOK
<1>6. \A c \in log' : c.id < nextId'
  <2>1. \A c \in log : c.id \in Nat /\ c.id < nextId
    BY DEF ChangeRow, TypeInv, TypeOK, IdsBelowNext
  <2> QED BY <1>1, <1>2, <1>4, <2>1
<1>7. \A r \in Station, h \in Engine : \A c \in task'[r][h].entries :
        c.id < nextId'
  <2>1. task' = task
    BY DEF Migrate
  <2>2. \A r \in Station, h \in Engine : \A c \in task[r][h].entries :
          c.id \in Nat /\ c.id < nextId
    BY DEF Task, ChangeRow, TypeInv, TypeOK, IdsBelowNext
  <2> QED BY <1>1, <2>1, <2>2
<1>8. rows' \in [Entity -> Item]
  <2>1. \A e \in Entity : [val |-> Plant[e], rev |-> 1, ver |-> 1] \in Item
    BY ConstantsOK DEF Item, Content
  <2> QED BY <1>a, <2>1 DEF TypeInv, TypeOK
<1>9. pending' \in [Station -> SUBSET Request]
  BY RestingTypes DEF Migrate, Notified, TypeInv, TypeOK
<1>10. migrated' \subseteq Kind /\ nextId' \in Nat
  BY <1>1 DEF Migrate, TypeInv, TypeOK
<1>11. UNCHANGED <<snapshot, localVars, watermark, linkVars, task, localQ,
                   draft, view, bounds>>
  BY DEF Migrate
<1> QED BY <1>5, <1>6, <1>7, <1>8, <1>9, <1>10, <1>11
        DEF TypeInv, TypeOK, IdsBelowNext

\* The plant at its start.
LEMMA InitTypes == Init => TypeInv
<1> SUFFICES ASSUME Init PROVE TypeInv
  OBVIOUS
<1> DEFINE n == Cardinality(Logged0)
<1>1. n \in Nat
  BY LoggedIsFinite DEF Logged0
<1>2. PICK ids \in [Logged0 -> 1..n] :
        log = {[id |-> ids[e], entity |-> e, ver |-> 1, late |-> FALSE] :
                 e \in Logged0}
  BY DEF Init
<1>3. nextId = n + 1 /\ Logged0 \subseteq Entity
  BY DEF Init, Logged0
<1>4. \A e \in Entity : /\ FirstRow(e) \in Item /\ Rehomed(e) \in Item
  BY ConstantsOK, RestingTypes DEF FirstRow, Rehomed, Item, Content
<1>5. rows \in [Entity -> Item]
  BY <1>4 DEF Init
<1> HIDE DEF n
<1>6. \A e \in Logged0 : ids[e] \in Nat /\ ids[e] < nextId
  BY <1>1, <1>2, <1>3
<1>7. log \subseteq ChangeRow /\ \A c \in log : c.id < nextId
  <2>1. \A e \in Logged0 :
          [id |-> ids[e], entity |-> e, ver |-> 1, late |-> FALSE] \in ChangeRow
    BY <1>3, <1>6 DEF ChangeRow
  <2> QED BY <1>2, <1>6, <2>1
<1>8. mirror \in [Station -> [Entity -> Item]] /\ snapshot = mirror
  <2>1. mirror = [s \in Station |-> [e \in Entity |->
                    IF s \in Fresh THEN NoItem ELSE Rehomed(e)]]
    BY DEF Init
  <2>2. \A s \in Station :
          [e \in Entity |-> IF s \in Fresh THEN NoItem ELSE Rehomed(e)]
            \in [Entity -> Item]
    BY <1>4, RestingTypes
  <2>3. snapshot = mirror
    BY DEF Init
  <2> QED BY <2>1, <2>2, <2>3
<1>9. view \in [Station -> [Entity -> Content]]
  <2>1. \A s \in Station, e \in Entity : snapshot[s][e].val \in Content
    BY <1>8 DEF Item
  <2>2. view = [s \in Station |-> [e \in Entity |-> snapshot[s][e].val]]
    BY DEF Init
  <2> QED BY <2>1, <2>2
<1>10. persisted \in [Station -> Nat] /\ watermark = persisted
       /\ nextId \in Nat
  BY <1>1, <1>3 DEF Init
<1>11. task \in [Station -> [Engine -> Task]]
       /\ \A s \in Station, g \in Engine : task[s][g].entries = {}
  BY RestingTypes DEF Init, Idle
<1>12. draft \in [Station -> Draft]
  BY RestingTypes DEF Init
<1>13. /\ migrated \subseteq Kind
       /\ dirty \in [Station -> SUBSET Entity]
       /\ attached \in [Station -> BOOLEAN]
       /\ current \in [Station -> Engine]
       /\ chan \in [Station -> {"off", "opening", "on"}]
       /\ pending \in [Station -> SUBSET Request]
       /\ localQ \in [Station -> Seq(Engine)]
       /\ edits \in Nat /\ faults \in Nat
  BY ConstantsOK DEF Init, Engine
<1> QED BY <1>5, <1>7, <1>8, <1>9, <1>10, <1>11, <1>12, <1>13
        DEF TypeInv, TypeOK, IdsBelowNext

\* Every step keeps the types.
LEMMA TypesStep == TypeInv /\ [Next]_vars => TypeInv'
<1>1. TypeInv /\ Next => TypeInv'
  BY StartTypes, SyncTypes, SaveTypes, LinkTypes, EditTypes, RestartTypes,
     MigrateTypes DEF Next
<1>2. TypeInv /\ UNCHANGED vars => TypeInv'
  BY DEF vars, remoteVars, localVars, linkVars, bounds, TypeInv, TypeOK,
     IdsBelowNext
<1> QED BY <1>1, <1>2

\* Every variable has its type in every reachable state, and no change row
\* that is committed or about to be has an id the sequence has yet to give.
THEOREM TypesInvariant == Spec => []TypeInv
BY InitTypes, TypesStep, PTL DEF Spec

\* The code never leaves the types it works with: no statement, read, sweep,
\* crash or migration stores anything else in any of its variables.
THEOREM TypeCorrect == Spec => []TypeOK
<1>1. TypeInv => TypeOK
  BY DEF TypeInv
<1> QED BY <1>1, TypesInvariant, PTL

-----------------------------------------------------------------------------
(***************************************************************************)
(* The history of the shared configuration is complete and exact, for any  *)
(* number of stations, entities, edits and faults, whether ids are used    *)
(* again or not: the invariant HistoryComplete of ConfigStore.             *)
(*                                                                         *)
(* The argument.  A transaction holds one change row for each row it has   *)
(* written that is not exempt, and it is the one of the next version       *)
(* (Accounted).  That version is still the next one when the transaction   *)
(* commits, because no other has written the row meanwhile (Exclusive).    *)
(***************************************************************************)

\* The change rows of a transaction are those of the rows it has written.
Recorded(t) ==
  /\ \A c \in t.entries :
       c.entity \in t.held \ Exempt /\ c.ver = rows[c.entity].ver + 1
  /\ \A e \in t.held \ Exempt : \E c \in t.entries : c.entity = e
Accounted ==
  \A s \in Station, g \in Engine : At(s, g, "exec") => Recorded(task[s][g])

\* No two transactions have written the same row.
Exclusive ==
  \A s, r \in Station, g, h \in Engine, e \in Entity :
    LockedBy(s, g, e) /\ LockedBy(r, h, e) => s = r /\ g = h

HistoryInv == HistoryComplete /\ Accounted /\ Exclusive

-----------------------------------------------------------------------------
(* The steps that neither write in a transaction nor commit one.           *)

\* What the tasks in a transaction are after such a step.
LEMMA OutsideHistory ==
  ASSUME HistoryInv, rows' = rows, log' = log,
         \A s \in Station, g \in Engine : task'[s][g].step = "exec" =>
           \/ task'[s][g] = task[s][g]
           \/ task'[s][g].held = {} /\ task'[s][g].entries = {}
  PROVE  HistoryInv'
<1>1. HistoryComplete'
  BY DEF HistoryInv, HistoryComplete
<1>2. Accounted'
  BY DEF HistoryInv, Accounted, Recorded, At
<1>3. Exclusive'
  BY DEF HistoryInv, Exclusive, LockedBy, At
<1> QED BY <1>1, <1>2, <1>3 DEF HistoryInv

\* An engine takes on a task that is in no transaction.
LEMMA LeftOutside ==
  ASSUME TypeInv, HistoryInv, rows' = rows, log' = log,
         NEW s \in Station, NEW g \in Engine, NEW t, Go(s, g, t),
         t.step # "exec"
  PROVE  HistoryInv'
<1>1. /\ task'[s][g] = t
      /\ \A r \in Station, h \in Engine :
           r # s \/ h # g => task'[r][h] = task[r][h]
  BY DEF TypeInv, TypeOK, Go
<1> QED BY <1>1, OutsideHistory

\* What follows an apply is outside a transaction.
LEMMA AfterApplyIsOutside ==
  ASSUME NEW s, NEW g, NEW t
  PROVE  AfterApply(s, g, t).step # "exec"
BY DEF AfterApply, Idle

\* A sweep that begins is outside a transaction.
LEMMA SweepIsOutside ==
  ASSUME NEW s, NEW op, NEW refs
  PROVE  Sweep(s, op, refs).step # "exec"
BY DEF Sweep, ReadStep, Idle

\* The starts of the chain, a save among them, which has written nothing yet.
LEMMA StartsKeepHistory ==
  ASSUME TypeInv, HistoryInv, NEW s \in Station, StartStep(s)
  PROVE  HistoryInv'
<1> USE DEF remoteVars, localVars, linkVars, bounds
<1>g. current[s] \in Engine
  BY DEF TypeInv, TypeOK
<1>1. ASSUME NEW req \in pending[s], StartSync(s, req)
      PROVE  HistoryInv'
  <2> DEFINE t == CASE req.op = "pull" ->
              [Idle EXCEPT !.op = "pull", !.step = "log", !.upTo = watermark[s]]
         [] req.op = "rows" ->
              [Idle EXCEPT !.op = "rows", !.step = "items", !.refs = req.refs]
         [] OTHER -> Sweep(s, "kinds", req.refs)
  <2>1. t.step # "exec"
    BY SweepIsOutside DEF Idle
  <2>2. Go(s, current[s], t) /\ rows' = rows /\ log' = log
    BY <1>1 DEF StartSync, Begin
  <2> HIDE DEF t
  <2> QED BY <1>g, <2>1, <2>2, LeftOutside
<1>2. CASE StartSweep(s)
  <2>1. Go(s, current[s], Sweep(s, "sweep", Entity)) /\ rows' = rows
        /\ log' = log
    BY <1>2 DEF StartSweep, Begin
  <2> QED BY <1>g, <2>1, SweepIsOutside, LeftOutside
<1>3. CASE StartSave(s)
  <2> DEFINE t == [Idle EXCEPT !.op = "save", !.step = "exec",
                               !.todo = Diff(draft[s])]
  <2>1. Go(s, current[s], t) /\ rows' = rows /\ log' = log
    BY <1>3 DEF StartSave
  <2>2. t.held = {} /\ t.entries = {}
    BY DEF Idle
  <2> HIDE DEF t
  <2>3. \A r \in Station, h \in Engine :
          task'[r][h] = t \/ task'[r][h] = task[r][h]
    BY <1>g, <2>1 DEF TypeInv, TypeOK, Go
  <2> QED BY <2>1, <2>2, <2>3, OutsideHistory
<1>4. CASE RefuseOffline(s)
  <2>1. rows' = rows /\ log' = log /\ task' = task
    BY <1>4 DEF RefuseOffline
  <2> QED BY <2>1, OutsideHistory
<1> QED BY <1>1, <1>2, <1>3, <1>4 DEF StartStep

\* The steps of a pull or a sweep, and one that is abandoned.
LEMMA SyncKeepsHistory ==
  ASSUME TypeInv, HistoryInv, NEW s \in Station, NEW g \in Engine,
         SyncStep(s, g) \/ Abandon(s, g)
  PROVE  HistoryInv'
<1> USE DEF remoteVars, localVars, linkVars, bounds
<1> DEFINE t == task[s][g]
<1>t. t \in Task
  BY DEF TypeInv, TypeOK
<1>i. Idle.step = "idle"
  BY DEF Idle
<1>go. ASSUME NEW u, Go(s, g, u), u.step # "exec", rows' = rows, log' = log
       PROVE  HistoryInv'
  BY <1>go, LeftOutside
<1> HIDE DEF t
<1>1. CASE PullLog(s, g)
  <2>1. PICK refs, upTo :
          Go(s, g, IF {c \in log : c.id > t.upTo} = {} THEN Idle
                   ELSE [t EXCEPT !.step = "kinds", !.refs = refs,
                                  !.upTo = upTo])
    BY <1>1 DEF PullLog, t
  <2>2. PICK u : Go(s, g, u) /\ u \in {Idle, [t EXCEPT !.step = "kinds",
                                      !.refs = refs, !.upTo = upTo]}
    BY <2>1
  <2>3. u.step # "exec"
    BY <1>t, <1>i, <2>2 DEF Task
  <2> QED BY <1>1, <2>2, <2>3, <1>go DEF PullLog
<1>2. CASE PullKinds(s, g)
  <2> DEFINE suspect == Suspects(s, {KindOf[e] : e \in t.refs})
             u == [t EXCEPT !.suspect = suspect,
                            !.step = IF suspect = {} THEN "items"
                                                     ELSE "marker"]
  <2>1. Go(s, g, u)
    BY <1>2 DEF PullKinds, t
  <2>2. u.step # "exec"
    <3> HIDE DEF suspect
    <3> QED BY <1>t DEF Task
  <2> HIDE DEF u
  <2> QED BY <1>2, <2>1, <2>2, <1>go DEF PullKinds
<1>3. CASE ReadMarkers(s, g)
  <2> DEFINE refused == t.suspect \ migrated
             owned == {e \in t.refs : KindOf[e] \notin refused}
             refs == IF t.op = "pull" THEN owned
                                      ELSE Differing(s, owned, t.got)
             next == [t EXCEPT !.suspect = {}, !.refused = refused,
                               !.refs = refs, !.got = Idle.got,
                               !.step = "items"]
             u == IF t.op # "pull" /\ refs = {} THEN AfterApply(s, g, next)
                                                ELSE next
  <2>1. next.step = "items"
    <3> HIDE DEF refused, refs
    <3> QED BY <1>t DEF Task
  <2>2. u.step # "exec"
    <3> HIDE DEF next, refs
    <3> QED BY <2>1, AfterApplyIsOutside
  <2>3. Go(s, g, u)
    BY <1>3 DEF ReadMarkers, t
  <2> HIDE DEF u
  <2> QED BY <1>3, <2>2, <2>3, <1>go DEF ReadMarkers
<1>4. CASE RepairMirror(s, g)
  <2> DEFINE u == [t EXCEPT !.step = ReadStep(t.op), !.told = {},
                            !.got = Idle.got]
  <2>1. Go(s, g, u) /\ rows' = rows /\ log' = log
    BY <1>4 DEF RepairMirror, t
  <2>2. u.step # "exec"
    BY <1>t DEF Task, ReadStep
  <2> HIDE DEF u
  <2> QED BY <2>1, <2>2, <1>go
<1>5. CASE SweepMax(s, g)
  <2>1. PICK upTo : Go(s, g, [t EXCEPT !.step = "revs", !.upTo = upTo])
    BY <1>5 DEF SweepMax, t
  <2>2. [t EXCEPT !.step = "revs", !.upTo = upTo].step # "exec"
    BY <1>t DEF Task
  <2> QED BY <1>5, <2>1, <2>2, <1>go DEF SweepMax
<1>6. CASE SweepRevs(s, g)
  <2>1. PICK suspect, refs :
          Go(s, g, IF suspect # {}
                     THEN [t EXCEPT !.suspect = suspect, !.got = rows,
                                    !.step = "marker"]
                   ELSE IF refs = {} THEN AfterApply(s, g, t)
                   ELSE [t EXCEPT !.refs = refs, !.step = "items"])
    BY <1>6 DEF SweepRevs, t
  <2>2. PICK u : /\ Go(s, g, u)
                 /\ u \in {[t EXCEPT !.suspect = suspect, !.got = rows,
                                     !.step = "marker"],
                           AfterApply(s, g, t),
                           [t EXCEPT !.refs = refs, !.step = "items"]}
    BY <2>1
  <2>3. u.step # "exec"
    BY <1>t, <2>2, AfterApplyIsOutside DEF Task
  <2> QED BY <1>6, <2>2, <2>3, <1>go DEF SweepRevs
<1>7. CASE ReadItems(s, g)
  <2>1. PICK got : Go(s, g, [t EXCEPT !.step = "apply", !.got = got])
    BY <1>7 DEF ReadItems, t
  <2>2. [t EXCEPT !.step = "apply", !.got = got].step # "exec"
    BY <1>t DEF Task
  <2> QED BY <1>7, <2>1, <2>2, <1>go DEF ReadItems
<1>8. CASE Apply(s, g)
  <2>1. PICK fresh, told :
          \/ Go(s, g, AfterApply(s, g, t))
          \/ Go(s, g, [t EXCEPT !.step = "mirror", !.refs = fresh,
                                !.told = told])
    BY <1>8 DEF Apply, t
  <2>2. [t EXCEPT !.step = "mirror", !.refs = fresh, !.told = told].step
          # "exec"
    BY <1>t DEF Task
  <2>3. rows' = rows /\ log' = log
    BY <1>8 DEF Apply
  <2> QED BY <2>1, <2>2, <2>3, AfterApplyIsOutside, <1>go
<1>9. CASE WriteMirror(s, g)
  <2>1. \/ Go(s, g, [t EXCEPT !.step = "nudge"])
        \/ Go(s, g, AfterApply(s, g, t))
    BY <1>9 DEF WriteMirror, t
  <2>2. [t EXCEPT !.step = "nudge"].step # "exec"
    BY <1>t DEF Task
  <2>3. rows' = rows /\ log' = log
    BY <1>9 DEF WriteMirror
  <2> QED BY <2>1, <2>2, <2>3, AfterApplyIsOutside, <1>go
<1>10. CASE Advance(s, g)
  BY <1>10, <1>i, <1>go DEF Advance
<1>11. CASE Abandon(s, g)
  BY <1>11, <1>i, <1>go DEF Abandon, Dropped
<1> QED BY <1>1, <1>2, <1>3, <1>4, <1>5, <1>6, <1>7, <1>8, <1>9, <1>10,
           <1>11 DEF SyncStep

\* What a transaction that rolls back, and a connection that dies, leave.
LEMMA RollBackKeepsHistory ==
  ASSUME TypeInv, HistoryInv, NEW s \in Station, NEW g \in Engine, NEW why,
         RollBack(s, g, why)
  PROVE  HistoryInv'
<1>1. Go(s, g, Idle) /\ rows' = rows /\ log' = log /\ Idle.step # "exec"
  BY DEF RollBack, remoteVars, Idle
<1> QED BY <1>1, LeftOutside

\* Attachment, the channel, the timers and crashes; an edit.
LEMMA OthersKeepHistory ==
  ASSUME TypeInv, HistoryInv, NEW s \in Station,
         BeginEdit(s) \/ LinkStep(s) \/ Restart(s)
  PROVE  HistoryInv'
<1> USE DEF remoteVars, localVars, linkVars, bounds
<1>1. CASE Attach(s)
  <2>1. current[s] \in Engine
    BY DEF TypeInv, TypeOK
  <2>2. 3 - current[s] \in Engine
    BY <2>1 DEF Engine
  <2>3. Go(s, 3 - current[s], Sweep(s, "sweep", Entity)) /\ rows' = rows
        /\ log' = log
    BY <1>1 DEF Attach, Begin
  <2> QED BY <2>2, <2>3, SweepIsOutside, LeftOutside
<1>2. CASE Restart(s)
  <2>1. rows' = rows /\ log' = log
        /\ task' = [task EXCEPT ![s] = [g \in Engine |-> Idle]]
    BY <1>2 DEF Restart
  <2>2. \A r \in Station, h \in Engine :
          task'[r][h] = Idle \/ task'[r][h] = task[r][h]
    BY <2>1 DEF TypeInv, TypeOK
  <2>3. Idle.step # "exec"
    BY DEF Idle
  <2> QED BY <2>1, <2>2, <2>3, OutsideHistory
<1>3. CASE BeginEdit(s) \/ Detach(s) \/ ChannelOpen(s) \/ ChannelDrop(s)
           \/ Relisten(s)
  <2>1. rows' = rows /\ log' = log /\ task' = task
    BY <1>3 DEF BeginEdit, Detach, ChannelOpen, ChannelDrop, Relisten
  <2> QED BY <2>1, OutsideHistory
<1> QED BY <1>1, <1>2, <1>3 DEF LinkStep

-----------------------------------------------------------------------------
(* The steps that write.                                                   *)

\* A statement takes the lock of its row, and adds its change row when it has
\* one.
LEMMA StatementKeepsHistory ==
  ASSUME TypeInv, HistoryInv, NEW s \in Station, NEW g \in Engine,
         NEW e \in Entity, ExecStatement(s, g, e)
  PROVE  HistoryInv'
<1> DEFINE t == task[s][g]
           entry == [id |-> nextId, entity |-> e, ver |-> rows[e].ver + 1,
                     late |-> FALSE]
           more == IF e \notin Exempt THEN t.entries \cup {entry}
                                      ELSE t.entries
           u == [t EXCEPT !.todo = @ \ {e}, !.held = @ \cup {e},
                          !.entries = more]
<1>t. t \in Task
  BY DEF TypeInv, TypeOK
<1>1. /\ t.step = "exec" /\ ~Blocked(s, g, e)
      /\ rows' = rows /\ log' = log
  BY DEF ExecStatement, IsNext, At
<1>2. Go(s, g, u)
  BY DEF ExecStatement, Logged
<1>3. /\ u.step = t.step /\ u.held = t.held \cup {e} /\ u.entries = more
  <2> HIDE DEF more, t
  <2> QED BY <1>t DEF Task
<1>4. entry.entity = e /\ entry.ver = rows[e].ver + 1
  OBVIOUS
<1> HIDE DEF u, entry
<1>5. /\ task'[s][g] = u
      /\ \A r \in Station, h \in Engine :
           r # s \/ h # g => task'[r][h] = task[r][h]
  BY <1>2 DEF TypeInv, TypeOK, Go
<1>6. HistoryComplete'
  BY <1>1 DEF HistoryInv, HistoryComplete
<1>7. Recorded(t)
  BY <1>1 DEF HistoryInv, Accounted, At
<1>8. Recorded(u)
  BY <1>3, <1>4, <1>7 DEF Recorded
<1>9. Accounted'
  BY <1>1, <1>5, <1>8 DEF HistoryInv, Accounted, Recorded, At
<1>10. Exclusive'
  <2>1. \A r \in Station, h \in Engine :
          LockedBy(r, h, e) => r = s /\ h = g
    BY <1>1 DEF Blocked
  <2>2. \A r \in Station, h \in Engine, d \in Entity :
          LockedBy(r, h, d)' => LockedBy(r, h, d) \/ (r = s /\ h = g /\ d = e)
    BY <1>1, <1>3, <1>5 DEF LockedBy, At
  <2> HIDE DEF t, more
  <2> QED BY <2>1, <2>2 DEF HistoryInv, Exclusive
<1> QED BY <1>6, <1>9, <1>10 DEF HistoryInv

\* A commit makes the next version of every row it has written and the change
\* row of that version visible together.
LEMMA CommitKeepsHistory ==
  ASSUME TypeInv, HistoryInv, NEW s \in Station, NEW g \in Engine,
         Commit(s, g)
  PROVE  HistoryInv'
<1> DEFINE t == task[s][g]
           Late(c) == \E d \in log : d.id > c.id
           logged == {[c EXCEPT !.late = Late(c)] : c \in t.entries}
<1>t. t \in Task /\ t.step = "exec" /\ t.entries \subseteq ChangeRow
  BY DEF TypeInv, TypeOK, Commit, At, Task
<1>r. Recorded(t)
  BY <1>t DEF HistoryInv, Accounted, At
<1>1. \A e \in Entity : rows'[e].ver = IF e \in t.held THEN rows[e].ver + 1
                                                      ELSE rows[e].ver
  BY DEF Commit, Written
<1>2. log' = log \cup logged
  BY DEF Commit
<1>3. PICK u : Go(s, g, u) /\ u.step = "ack"
  <2> DEFINE new == [e \in Entity |->
                IF e \in t.held THEN Written(draft[s], e) ELSE NoItem]
             u == [t EXCEPT !.step = "ack", !.refs = t.held, !.held = {},
                        !.entries = {}, !.told = t.held, !.got = new]
  <2>1. Go(s, g, u)
    BY DEF Commit
  <2>2. u.step = "ack"
    <3> HIDE DEF new, t
    <3> QED BY <1>t DEF Task
  <2> HIDE DEF u
  <2> QED BY <2>1, <2>2
<1>4. /\ task'[s][g] = u
      /\ \A r \in Station, h \in Engine :
           r # s \/ h # g => task'[r][h] = task[r][h]
  BY <1>3 DEF TypeInv, TypeOK, Go
<1>5. \A e \in Entity : \A v : (\E c \in logged : c.entity = e /\ c.ver = v)
                            <=> (\E c \in t.entries : c.entity = e /\ c.ver = v)
  <2>1. \A c \in t.entries : /\ [c EXCEPT !.late = Late(c)].entity = c.entity
                              /\ [c EXCEPT !.late = Late(c)].ver = c.ver
    <3> HIDE DEF t, Late
    <3> QED BY <1>t DEF ChangeRow
  <2> SUFFICES ASSUME NEW e \in Entity, NEW v
               PROVE  (\E c \in logged : c.entity = e /\ c.ver = v)
                        <=> (\E c \in t.entries : c.entity = e /\ c.ver = v)
    OBVIOUS
  <2>2. ASSUME NEW c \in logged, c.entity = e, c.ver = v
        PROVE  \E d \in t.entries : d.entity = e /\ d.ver = v
    <3>1. PICK d \in t.entries : c = [d EXCEPT !.late = Late(d)]
      OBVIOUS
    <3> HIDE DEF t, Late
    <3> QED BY <3>1, <2>1, <2>2
  <2>3. ASSUME NEW c \in t.entries, c.entity = e, c.ver = v
        PROVE  \E d \in logged : d.entity = e /\ d.ver = v
    <3>1. [c EXCEPT !.late = Late(c)] \in logged
      OBVIOUS
    <3> HIDE DEF t, Late, logged
    <3> QED BY <3>1, <2>1, <2>3
  <2> HIDE DEF t, Late, logged
  <2> QED BY <2>2, <2>3
<1> HIDE DEF logged
<1>6. HistoryComplete'
  <2> SUFFICES ASSUME NEW e \in Entity \ Exempt
               PROVE  {c.ver : c \in {c \in log' : c.entity = e}}
                        = 1..rows'[e].ver
    BY DEF HistoryComplete
  <2>1. {c.ver : c \in {c \in log : c.entity = e}} = 1..rows[e].ver
    BY DEF HistoryInv, HistoryComplete
  <2>2. {c.ver : c \in {c \in log' : c.entity = e}}
          = {c.ver : c \in {c \in log : c.entity = e}}
              \cup {c.ver : c \in {c \in logged : c.entity = e}}
    BY <1>2
  <2>3. {c.ver : c \in {c \in logged : c.entity = e}}
          = IF e \in t.held THEN {rows[e].ver + 1} ELSE {}
    <3>1. \A v : v \in {c.ver : c \in {c \in logged : c.entity = e}}
                  <=> \E c \in t.entries : c.entity = e /\ c.ver = v
      BY <1>5
    <3>2. \A c \in t.entries : c.entity = e =>
            e \in t.held /\ c.ver = rows[e].ver + 1
      BY <1>r DEF Recorded
    <3>3. e \in t.held => \E c \in t.entries : c.entity = e
      BY <1>r DEF Recorded
    <3> QED BY <3>1, <3>2, <3>3
  <2>4. rows[e].ver \in Nat
    BY DEF TypeInv, TypeOK, Item
  <2>5. CASE e \in t.held
    <3>1. 1..(rows[e].ver + 1) = (1..rows[e].ver) \cup {rows[e].ver + 1}
      BY <2>4
    <3> HIDE DEF t
    <3> QED BY <1>1, <2>1, <2>2, <2>3, <2>5, <3>1
  <2>6. CASE e \notin t.held
    <3> HIDE DEF t
    <3> QED BY <1>1, <2>1, <2>2, <2>3, <2>6
  <2> QED BY <2>5, <2>6
<1>7. Accounted'
  <2> SUFFICES ASSUME NEW r \in Station, NEW h \in Engine,
                      task'[r][h].step = "exec"
               PROVE  Recorded(task[r][h])'
    BY DEF Accounted, At
  <2>1. (r # s \/ h # g) /\ task'[r][h] = task[r][h]
    BY <1>3, <1>4
  <2>2. Recorded(task[r][h])
    BY <2>1 DEF HistoryInv, Accounted, At
  <2>3. task[r][h].held \subseteq Entity
    BY DEF TypeInv, TypeOK, Task
  <2>4. \A e \in task[r][h].held : e \notin t.held
    BY <1>t, <2>1, <2>3 DEF HistoryInv, Exclusive, LockedBy, At
  <2>5. \A e \in task[r][h].held : rows'[e].ver = rows[e].ver
    BY <1>1, <2>3, <2>4
  <2> HIDE DEF t
  <2> QED BY <2>1, <2>2, <2>5 DEF Recorded
<1>8. Exclusive'
  BY <1>3, <1>4 DEF HistoryInv, Exclusive, LockedBy, At
<1> QED BY <1>6, <1>7, <1>8 DEF HistoryInv

\* A migration writes the first version of the rows of a kind nobody has
\* written yet, and their change rows.
LEMMA MigrateKeepsHistory ==
  ASSUME TypeInv, HistoryInv, NEW k \in Kind, Migrate(k)
  PROVE  HistoryInv'
<1> DEFINE blob == {e \in OfKind(k) : Plant[e] # NoValue}
           logged == blob \ Exempt
<1>1. \A e \in blob : /\ e \in Entity /\ rows[e].ver = 0
                      /\ \A s \in Station, g \in Engine : ~LockedBy(s, g, e)
  BY DEF Migrate, OfKind
<1>2. /\ \A e \in Entity : rows'[e].ver = IF e \in blob THEN 1
                                                       ELSE rows[e].ver
      /\ task' = task
  BY DEF Migrate
<1>3. PICK ids :
        log' = log \cup {[id |-> ids[e], entity |-> e, ver |-> 1,
                          late |-> FALSE] : e \in logged}
  BY DEF Migrate
<1> HIDE DEF blob
<1>4. HistoryComplete'
  <2> SUFFICES ASSUME NEW e \in Entity \ Exempt
               PROVE  {c.ver : c \in {c \in log' : c.entity = e}}
                        = 1..rows'[e].ver
    BY DEF HistoryComplete
  <2>1. {c.ver : c \in {c \in log : c.entity = e}} = 1..rows[e].ver
    BY DEF HistoryInv, HistoryComplete
  <2>2. CASE e \in blob
    <3>1. {c \in log : c.entity = e} = {}
      BY <1>1, <2>1, <2>2
    <3> DEFINE first == [id |-> ids[e], entity |-> e, ver |-> 1,
                         late |-> FALSE]
    <3>2. {c \in log' : c.entity = e} = {first}
      BY <1>3, <2>2, <3>1
    <3>3. 1..rows'[e].ver = {1}
      BY <1>2, <2>2
    <3>4. first.ver = 1
      OBVIOUS
    <3> HIDE DEF first
    <3> QED BY <3>2, <3>3, <3>4
  <2>3. CASE e \notin blob
    <3>1. {c \in log' : c.entity = e} = {c \in log : c.entity = e}
      BY <1>3, <2>3
    <3> QED BY <1>2, <2>1, <2>3, <3>1
  <2> QED BY <2>2, <2>3
<1>5. Accounted'
  <2> SUFFICES ASSUME NEW s \in Station, NEW g \in Engine,
                      task[s][g].step = "exec"
               PROVE  Recorded(task[s][g])'
    BY <1>2 DEF Accounted, At
  <2>1. Recorded(task[s][g])
    BY DEF HistoryInv, Accounted, At
  <2>2. task[s][g].held \subseteq Entity
    BY DEF TypeInv, TypeOK, Task
  <2>3. \A e \in task[s][g].held : rows'[e].ver = rows[e].ver
    BY <1>1, <1>2, <2>2 DEF LockedBy, At
  <2> QED BY <1>2, <2>1, <2>3 DEF Recorded
<1>6. Exclusive'
  BY <1>2 DEF HistoryInv, Exclusive, LockedBy, At
<1> QED BY <1>4, <1>5, <1>6 DEF HistoryInv

\* The steps of a save.
LEMMA SavesKeepHistory ==
  ASSUME TypeInv, HistoryInv, NEW s \in Station, NEW g \in Engine,
         SaveStep(s, g) \/ LoseLink(s, g)
  PROVE  HistoryInv'
<1> USE DEF remoteVars, localVars, linkVars, bounds
<1> DEFINE t == task[s][g]
<1>t. t \in Task
  BY DEF TypeInv, TypeOK
<1> HIDE DEF t
<1>1. ASSUME NEW e \in Entity, ExecStatement(s, g, e) \/ Conflict(s, g, e)
      PROVE  HistoryInv'
  BY <1>1, StatementKeepsHistory, RollBackKeepsHistory DEF Conflict
<1>2. CASE Deadlock(s, g) \/ LoseLink(s, g)
  BY <1>2, RollBackKeepsHistory DEF Deadlock, LoseLink
<1>3. CASE Commit(s, g)
  BY <1>3, CommitKeepsHistory
<1>4. CASE Acknowledge(s, g)
  <2>1. Go(s, g, [t EXCEPT !.step = "mirror"]) /\ rows' = rows /\ log' = log
    BY <1>4 DEF Acknowledge, t
  <2>2. [t EXCEPT !.step = "mirror"].step # "exec"
    BY <1>t DEF Task
  <2> QED BY <2>1, <2>2, LeftOutside
<1>5. CASE Nudge(s, g)
  <2>1. Go(s, g, Idle) /\ rows' = rows /\ log' = log /\ Idle.step # "exec"
    BY <1>5 DEF Nudge, Idle
  <2> QED BY <2>1, LeftOutside
<1> QED BY <1>1, <1>2, <1>3, <1>4, <1>5 DEF SaveStep

-----------------------------------------------------------------------------
\* The first state has a change row for each logged row.
LEMMA HistoryInit == Init => HistoryInv
<1> SUFFICES ASSUME Init PROVE HistoryInv
  OBVIOUS
<1>1. PICK ids : log = {[id |-> ids[e], entity |-> e, ver |-> 1,
                         late |-> FALSE] : e \in Logged0}
  BY DEF Init
<1>2. rows = [e \in Entity |-> FirstRow(e)]
  BY DEF Init
<1>3. \A s \in Station, g \in Engine : task[s][g].step = "idle"
  BY DEF Init, Idle
<1>4. HistoryComplete
  <2> SUFFICES ASSUME NEW e \in Entity \ Exempt
               PROVE  {c.ver : c \in {c \in log : c.entity = e}}
                        = 1..rows[e].ver
    BY DEF HistoryComplete
  <2>1. CASE e \in Logged0
    <3> DEFINE first == [id |-> ids[e], entity |-> e, ver |-> 1,
                         late |-> FALSE]
    <3>1. {c \in log : c.entity = e} = {first}
      BY <1>1, <2>1
    <3>2. rows[e].ver = 1
      BY <1>2, <2>1 DEF Logged0, FirstRow, Held, NoItem
    <3>3. 1..rows[e].ver = {1}
      BY <3>2
    <3>4. first.ver = 1
      OBVIOUS
    <3> HIDE DEF first
    <3> QED BY <3>1, <3>3, <3>4
  <2>2. CASE e \notin Logged0
    <3>1. {c \in log : c.entity = e} = {}
      BY <1>1, <2>2
    <3>2. rows[e].ver = 0
      BY <1>2, <2>2 DEF Logged0, FirstRow, Held, NoItem
    <3>3. 1..rows[e].ver = {}
      BY <3>2
    <3> QED BY <3>1, <3>3
  <2> QED BY <2>1, <2>2
<1> QED BY <1>3, <1>4 DEF HistoryInv, Accounted, Exclusive, LockedBy, At

\* Every step keeps the history complete.
LEMMA HistoryNext ==
  ASSUME TypeInv, HistoryInv, [Next]_vars
  PROVE  HistoryInv'
<1>1. CASE Next
  BY <1>1, StartsKeepHistory, SyncKeepsHistory, SavesKeepHistory,
     OthersKeepHistory, MigrateKeepsHistory DEF Next
<1>2. CASE UNCHANGED vars
  <2>1. rows' = rows /\ log' = log /\ task' = task
    BY <1>2 DEF vars, remoteVars
  <2> QED BY <2>1, OutsideHistory
<1> QED BY <1>1, <1>2

\* The invariant behind the theorem, in every reachable state.
LEMMA HistoryInvariant == Spec => []HistoryInv
<1>1. TypeInv /\ HistoryInv /\ [Next]_vars => HistoryInv'
  BY HistoryNext
<1> QED BY <1>1, HistoryInit, TypesInvariant, PTL DEF Spec

\* A row that is not exempt has one change row for each of its writes and no
\* other, whatever transactions ran side by side, were refused, were broken as
\* a deadlock or lost their connection, and whatever was migrated (_appendChange
\* in the transaction of config_store.dart, copyBlobIntoRowsLocked).
THEOREM HistoryIsComplete == Spec => []HistoryComplete
<1>1. HistoryInv => HistoryComplete
  BY DEF HistoryInv
<1> QED BY <1>1, HistoryInvariant, PTL

-----------------------------------------------------------------------------
(***************************************************************************)
(* An empty remote that was never migrated empties no station, for any     *)
(* number of stations and kinds: the invariant UnmigratedKept of           *)
(* ConfigStore.                                                            *)
(*                                                                         *)
(* The argument.  While a kind is bare (no marker, no row ever written) a  *)
(* station that was started with its rows serves them and has them on      *)
(* disk (CopiesSpared), so the read of the remote makes the kind a         *)
(* suspect, and without its marker it is refused: no task reads, applies   *)
(* or writes a row of a bare kind (Spares).  A pull and a nudge cannot     *)
(* bring one either, because what they name was written (RowsExist).       *)
(***************************************************************************)

\* The remote holds nothing of the kind of e, and never held anything.
Bare(e) ==
  /\ KindOf[e] \notin migrated
  /\ \A d \in OfKind(KindOf[e]) : rows[d].ver = 0

\* The items a station was started with, as far as their kinds are bare.
FromBlob(items) == \A e \in Entity : Bare(e) => items[e] = Rehomed(e)

\* Rows that were written.
HaveRows(refs) == \A e \in refs : rows[e].ver # 0

\* An entity without a write has no row; what the log and the nudges name has
\* been written.
RowsExist ==
  /\ Rowed \subseteq migrated
  /\ \A e \in Entity : rows[e].ver = 0 => rows[e] = NoItem
  /\ \A c \in log : rows[c.entity].ver # 0
  /\ \A s \in Station : \A req \in pending[s] :
       req.op = "rows" => HaveRows(req.refs)

\* A task takes no row of a bare kind past the reading of the markers: there
\* it is refused, or there is nothing to lose.
Spares(t) ==
  /\ t.step = "repair" => FromBlob(t.got)
  /\ t.step \in {"repair", "max", "revs"} => t.op # "pull"
  /\ t.step \in {"kinds", "items", "apply", "mirror", "ack", "nudge"} =>
       \A e \in t.refs : ~Bare(e)
  /\ t.step = "marker" => \A e \in t.refs : Bare(e) =>
       /\ t.op # "pull" /\ t.got[e] = NoItem
       /\ KindOf[e] \in t.suspect \/ ~Held(Rehomed(e))

\* A save is about rows it has written, at every station.
TaskSpares(s, t) ==
  /\ t.op = "save" => HaveRows(t.refs)
  /\ t.step = "nudge" => t.op = "save"
  /\ s \notin Fresh => Spares(t)

CopiesSpared ==
  \A s \in Station \ Fresh : FromBlob(snapshot[s]) /\ FromBlob(mirror[s])

BlobInv ==
  /\ RowsExist /\ CopiesSpared
  /\ \A s \in Station, g \in Engine : TaskSpares(s, task[s][g])

-----------------------------------------------------------------------------
\* What was written stays written, so a task that spared the bare kinds before
\* a step that only writes rows and markers spares them after it.
LEMMA StaysSpared ==
  ASSUME \A e \in Entity : rows'[e] = rows[e] \/ rows'[e].ver # 0,
         migrated \subseteq migrated'
  PROVE  /\ \A e \in Entity : Bare(e)' => Bare(e)
         /\ \A refs \in SUBSET Entity : HaveRows(refs) => HaveRows(refs)'
         /\ \A items : FromBlob(items) => FromBlob(items)'
         /\ \A t \in Task, s \in Station :
              TaskSpares(s, t) => TaskSpares(s, t)'
<1>1. \A e \in Entity : Bare(e)' => Bare(e)
  BY DEF Bare, OfKind
<1>2. \A refs \in SUBSET Entity : HaveRows(refs) => HaveRows(refs)'
  BY DEF HaveRows
<1>3. \A items : FromBlob(items) => FromBlob(items)'
  BY <1>1 DEF FromBlob, Rehomed, FirstRow
<1>4. ASSUME NEW t \in Task, NEW s \in Station, TaskSpares(s, t)
      PROVE  TaskSpares(s, t)'
  <2>1. t.refs \in SUBSET Entity
    BY DEF Task
  <2>2. Spares(t) => Spares(t)'
    BY <1>1, <1>3, <2>1 DEF Spares
  <2> QED BY <1>2, <1>4, <2>1, <2>2 DEF TaskSpares
<1> QED BY <1>1, <1>2, <1>3, <1>4

\* A step keeps the invariant when what it writes, notifies, leaves in memory
\* and takes on is as the invariant asks.
LEMMA BlobMoves ==
  ASSUME TypeInv, BlobInv,
         \A e \in Entity : rows'[e] = rows[e] \/ rows'[e].ver # 0,
         migrated \subseteq migrated',
         \A c \in log' : c \in log \/ rows'[c.entity].ver # 0,
         \A s \in Station : \A req \in pending'[s] :
           \/ req \in pending[s]
           \/ req \in Request /\ (req.op = "rows" => HaveRows(req.refs)),
         \A s \in Station, g \in Engine :
           \/ task'[s][g] = task[s][g]
           \/ task'[s][g] \in Task /\ TaskSpares(s, task'[s][g])
           \/ TaskSpares(s, task[s][g])',
         \A s \in Station \ Fresh :
           /\ snapshot'[s] = snapshot[s] \/ FromBlob(snapshot'[s])
           /\ mirror'[s] = mirror[s] \/ FromBlob(mirror'[s])
  PROVE  BlobInv'
<1>1. /\ \A refs \in SUBSET Entity : HaveRows(refs) => HaveRows(refs)'
      /\ \A items : FromBlob(items) => FromBlob(items)'
      /\ \A t \in Task, s \in Station : TaskSpares(s, t) => TaskSpares(s, t)'
  BY StaysSpared
<1>2. RowsExist'
  <2>1. /\ Rowed \subseteq migrated'
        /\ \A e \in Entity : rows'[e].ver = 0 => rows'[e] = NoItem
    BY DEF BlobInv, RowsExist
  <2>2. \A c \in log' : rows'[c.entity].ver # 0
    <3>1. \A c \in log : c.entity \in Entity /\ rows[c.entity].ver # 0
      BY DEF BlobInv, RowsExist, TypeInv, TypeOK, ChangeRow
    <3> QED BY <3>1
  <2>3. ASSUME NEW s \in Station, NEW req \in pending'[s], req.op = "rows"
        PROVE  HaveRows(req.refs)'
    <3>1. req \in Request
      BY DEF TypeInv, TypeOK
    <3>2. req.refs \in SUBSET Entity
      BY <3>1 DEF Request
    <3>3. HaveRows(req.refs)
      BY <2>3 DEF BlobInv, RowsExist
    <3>4. \A e \in req.refs : rows'[e].ver # 0
      BY <3>2, <3>3 DEF HaveRows
    <3> QED BY <3>4 DEF HaveRows
  <2> QED BY <2>1, <2>2, <2>3 DEF RowsExist
<1>3. CopiesSpared'
  <2> SUFFICES ASSUME NEW s \in Station \ Fresh
               PROVE  FromBlob(snapshot[s])' /\ FromBlob(mirror[s])'
    BY DEF CopiesSpared
  <2>1. FromBlob(snapshot'[s]) /\ FromBlob(mirror'[s])
    BY DEF BlobInv, CopiesSpared
  <2>2. \A e \in Entity : Bare(e)' => Bare(e)
    BY StaysSpared
  <2>3. /\ \A e \in Entity : Bare(e)' => snapshot'[s][e] = Rehomed(e)
        /\ \A e \in Entity : Bare(e)' => mirror'[s][e] = Rehomed(e)
    BY <2>1, <2>2 DEF FromBlob
  <2> QED BY <2>3 DEF FromBlob, Rehomed, FirstRow
<1>4. ASSUME NEW s \in Station, NEW g \in Engine
      PROVE  TaskSpares(s, task[s][g])'
  <2>1. task[s][g] \in Task /\ TaskSpares(s, task[s][g])
    BY DEF TypeInv, TypeOK, BlobInv
  <2>2. CASE task'[s][g] \in Task /\ TaskSpares(s, task'[s][g])
    <3>1. PICK t \in Task : t = task'[s][g]
      BY <2>2
    <3>2. TaskSpares(s, t)'
      BY <1>1, <2>2, <3>1
    <3> QED BY <3>1, <3>2 DEF TaskSpares, Spares
  <2>3. CASE task'[s][g] = task[s][g]
    BY <2>1, <2>2, <2>3
  <2> QED BY <2>2, <2>3
<1> QED BY <1>2, <1>3, <1>4 DEF BlobInv

\* The same for a step that writes nothing on the remote, for one engine.
LEMMA BlobRests ==
  ASSUME TypeInv, TypeInv', BlobInv, rows' = rows, log' = log,
         migrated' = migrated, pending' = pending,
         NEW s \in Station, NEW g \in Engine, NEW t, Go(s, g, t),
         TaskSpares(s, t),
         \A r \in Station \ Fresh :
           /\ snapshot'[r] = snapshot[r] \/ FromBlob(snapshot'[r])
           /\ mirror'[r] = mirror[r] \/ FromBlob(mirror'[r])
  PROVE  BlobInv'
<1>1. /\ task'[s][g] = t
      /\ \A r \in Station, h \in Engine :
           r # s \/ h # g => task'[r][h] = task[r][h]
  BY GoIs
<1>2. task'[s][g] \in Task
  BY DEF TypeInv, TypeOK
<1> QED BY <1>1, <1>2, BlobMoves

\* A task that is over, or that has only its watermark left to move, names no
\* row.
LEMMA EndSpares ==
  ASSUME NEW s, NEW g, NEW t
  PROVE  TaskSpares(s, Idle) /\ TaskSpares(s, AfterApply(s, g, t))
<1>1. TaskSpares(s, Idle)
  BY DEF TaskSpares, Spares, HaveRows, Idle
<1>2. CASE AfterApply(s, g, t) = Idle
  BY <1>1, <1>2
<1>3. CASE AfterApply(s, g, t) # Idle
  <2> DEFINE u == AfterApply(s, g, t)
  <2>1. t.op \in {"pull", "sweep"} /\ u.op = t.op /\ u.step = "advance"
        /\ u.refs = {}
    BY <1>3 DEF AfterApply, Idle
  <2> HIDE DEF u
  <2>2. TaskSpares(s, u)
    BY <2>1 DEF TaskSpares, Spares, HaveRows
  <2> QED BY <1>1, <2>2 DEF u
<1> QED BY <1>1, <1>2, <1>3

\* A sweep begins with the mirror, from the snapshot of its station.
LEMMA SweepSpares ==
  ASSUME BlobInv, NEW s \in Station, NEW op \in {"sweep", "kinds"}, NEW refs
  PROVE  TaskSpares(s, Sweep(s, op, refs))
<1> DEFINE u == Sweep(s, op, refs)
<1>1. /\ u.op = op
      /\ \/ u.step \in {"max", "revs"}
         \/ u.step = "repair" /\ u.got = snapshot[s]
  BY DEF Sweep, ReadStep, Idle
<1>2. s \notin Fresh => FromBlob(snapshot[s])
  BY DEF BlobInv, CopiesSpared
<1> HIDE DEF u
<1>3. TaskSpares(s, u)
  BY <1>1, <1>2 DEF TaskSpares, Spares
<1> QED BY <1>3 DEF u

\* The starts of the chain.
LEMMA StartsSpare ==
  ASSUME TypeInv, TypeInv', BlobInv, NEW s \in Station, StartStep(s)
  PROVE  BlobInv'
<1> USE DEF remoteVars, localVars, linkVars, bounds
<1>g. current[s] \in Engine
  BY DEF TypeInv, TypeOK
<1>1. ASSUME NEW req \in pending[s], StartSync(s, req)
      PROVE  BlobInv'
  <2> DEFINE t == CASE req.op = "pull" ->
              [Idle EXCEPT !.op = "pull", !.step = "log", !.upTo = watermark[s]]
         [] req.op = "rows" ->
              [Idle EXCEPT !.op = "rows", !.step = "items", !.refs = req.refs]
         [] OTHER -> Sweep(s, "kinds", req.refs)
  <2>1. req \in Request
    BY DEF TypeInv, TypeOK
  <2>2. req.op = "rows" => HaveRows(req.refs)
    BY DEF BlobInv, RowsExist
  <2>3. TaskSpares(s, t)
    <3>1. CASE req.op = "pull"
      BY <3>1 DEF TaskSpares, Spares, Idle
    <3>2. CASE req.op = "rows"
      <4>1. \A e \in req.refs : e \in Entity /\ ~Bare(e)
        BY <2>1, <2>2, <3>2 DEF Request, HaveRows, Bare, OfKind
      <4>2. t.op = "rows" /\ t.step = "items" /\ t.refs = req.refs
        BY <3>2 DEF Idle
      <4> HIDE DEF t
      <4> QED BY <4>1, <4>2 DEF TaskSpares, Spares
    <3>3. CASE req.op = "kinds"
      BY <3>3, SweepSpares
    <3> QED BY <2>1, <3>1, <3>2, <3>3 DEF Request
  <2>4. /\ Go(s, current[s], t)
        /\ \A r \in Station : pending'[r] \subseteq pending[r]
    BY <1>1 DEF StartSync, Begin, TypeInv, TypeOK
  <2>5. rows' = rows /\ log' = log /\ migrated' = migrated
        /\ snapshot' = snapshot /\ mirror' = mirror
    BY <1>1 DEF StartSync
  <2> HIDE DEF t
  <2>6. /\ task'[s][current[s]] = t
        /\ \A r \in Station, h \in Engine :
             r # s \/ h # current[s] => task'[r][h] = task[r][h]
    BY <1>g, <2>4, GoIs
  <2>7. task'[s][current[s]] \in Task
    BY <1>g DEF TypeInv, TypeOK
  <2> QED BY <2>3, <2>4, <2>5, <2>6, <2>7, BlobMoves
<1>2. CASE StartSweep(s)
  <2>1. Go(s, current[s], Sweep(s, "sweep", Entity))
    BY <1>2 DEF StartSweep, Begin
  <2>2. TaskSpares(s, Sweep(s, "sweep", Entity))
    BY SweepSpares
  <2> QED BY <1>g, <1>2, <2>1, <2>2, BlobRests DEF StartSweep
<1>3. CASE StartSave(s)
  <2> DEFINE t == [Idle EXCEPT !.op = "save", !.step = "exec",
                               !.todo = Diff(draft[s])]
  <2>1. Go(s, current[s], t)
    BY <1>3 DEF StartSave
  <2>2. t.op = "save" /\ t.step = "exec" /\ t.refs = {}
    BY DEF Idle
  <2> HIDE DEF t
  <2>3. TaskSpares(s, t)
    BY <2>2 DEF TaskSpares, Spares, HaveRows
  <2> QED BY <1>g, <1>3, <2>1, <2>3, BlobRests DEF StartSave
<1>4. CASE RefuseOffline(s)
  <2>1. rows' = rows /\ log' = log /\ task' = task /\ migrated' = migrated
        /\ pending' = pending /\ snapshot' = snapshot /\ mirror' = mirror
    BY <1>4 DEF RefuseOffline
  <2> QED BY <2>1, BlobMoves
<1> QED BY <1>1, <1>2, <1>3, <1>4 DEF StartStep

\* A row of a bare kind that a station held when it was started is one the
\* station holds still, so its kind is a suspect; one it did not hold is not
\* there on either side, so it is no candidate.
LEMMA BareIsSuspect ==
  ASSUME TypeInv, BlobInv, NEW s \in Station \ Fresh, NEW e \in Entity, Bare(e)
  PROVE  /\ rows[e] = NoItem /\ snapshot[s][e] = Rehomed(e)
         /\ Rehomed(e).rev = 0
         /\ \A kinds : KindOf[e] \in kinds /\ Held(Rehomed(e))
                         => KindOf[e] \in Suspects(s, kinds)
         /\ \A refs, revs : revs[e] = NoItem /\ ~Held(Rehomed(e))
                              => e \notin Differing(s, refs, revs)
<1>1. rows[e] = NoItem /\ snapshot[s][e] = Rehomed(e)
  BY DEF BlobInv, RowsExist, CopiesSpared, FromBlob, Bare, OfKind
<1>2. Rehomed(e).rev = 0
  BY DEF BlobInv, RowsExist, Bare, Rehomed
<1>3. \A d \in Entity : KindOf[d] = KindOf[e] => ~Held(rows[d])
  BY DEF BlobInv, RowsExist, Bare, OfKind, Held, NoItem
<1>4. KindOf[e] \notin HeldKinds(rows)
  BY <1>3 DEF HeldKinds
<1>5. Held(Rehomed(e)) => KindOf[e] \in HeldKinds(snapshot[s])
  BY <1>1 DEF HeldKinds
<1>6. NoItem.rev = 0 /\ ~Held(NoItem)
  BY DEF NoItem, Held
<1>7. \A kinds : KindOf[e] \in kinds /\ Held(Rehomed(e))
                   => KindOf[e] \in Suspects(s, kinds)
  BY <1>4, <1>5 DEF Suspects
<1>8. ASSUME NEW refs, NEW revs, revs[e] = NoItem, ~Held(Rehomed(e))
      PROVE  e \notin Differing(s, refs, revs)
  <2>1. /\ ~Held(revs[e]) /\ ~Held(snapshot[s][e])
        /\ revs[e].rev = snapshot[s][e].rev
    BY <1>1, <1>2, <1>6, <1>8
  <2>2. (Held(revs[e]) # Held(snapshot[s][e])) = FALSE
    BY <2>1 DEF Held
  <2>3. (revs[e].rev # snapshot[s][e].rev) = FALSE
    BY <2>1
  <2> QED BY <2>2, <2>3, Zenon DEF Differing
<1> QED BY <1>1, <1>2, <1>7, <1>8

\* The reads of a pull and of a sweep.
LEMMA ReadsSpare ==
  ASSUME TypeInv, TypeInv', BlobInv, NEW s \in Station, NEW g \in Engine,
         \/ PullLog(s, g) \/ PullKinds(s, g) \/ ReadMarkers(s, g)
         \/ SweepMax(s, g) \/ SweepRevs(s, g) \/ ReadItems(s, g)
  PROVE  BlobInv'
<1> USE DEF remoteVars, localVars, linkVars, bounds
<1> DEFINE t == task[s][g]
<1>t. t \in Task /\ TaskSpares(s, t)
  BY DEF TypeInv, TypeOK, BlobInv
<1>b. \A e \in t.refs : e \in Entity
  BY <1>t DEF Task
<1>go. ASSUME NEW u, Go(s, g, u), TaskSpares(s, u)
       PROVE  BlobInv'
  <2>1. rows' = rows /\ log' = log /\ migrated' = migrated
        /\ pending' = pending /\ snapshot' = snapshot /\ mirror' = mirror
    BY DEF PullLog, PullKinds, ReadMarkers, SweepMax, SweepRevs, ReadItems
  <2> QED BY <1>go, <2>1, BlobRests
<1> HIDE DEF t
<1>1. CASE PullLog(s, g)
  <2> DEFINE new == {c \in log : c.id > t.upTo}
  <2>1. PICK upTo :
          Go(s, g, IF new = {} THEN Idle
                   ELSE [t EXCEPT !.step = "kinds",
                                  !.refs = {c.entity : c \in new},
                                  !.upTo = upTo])
    BY <1>1 DEF PullLog, t
  <2> DEFINE u == [t EXCEPT !.step = "kinds",
                            !.refs = {c.entity : c \in new}, !.upTo = upTo]
  <2>2. \A e \in {c.entity : c \in new} : rows[e].ver # 0 /\ ~Bare(e)
    <3>1. \A c \in log : c.entity \in Entity /\ rows[c.entity].ver # 0
      BY DEF BlobInv, RowsExist, TypeInv, TypeOK, ChangeRow
    <3> QED BY <3>1 DEF Bare, OfKind
  <2>3. u.step = "kinds" /\ u.refs = {c.entity : c \in new} /\ u.op = t.op
    <3> HIDE DEF new
    <3> QED BY <1>t DEF Task
  <2> HIDE DEF u, new
  <2>4. TaskSpares(s, u)
    BY <2>2, <2>3 DEF TaskSpares, Spares, HaveRows
  <2>5. Go(s, g, Idle) \/ Go(s, g, u)
    BY <2>1 DEF u
  <2> QED BY <2>4, <2>5, <1>go, EndSpares
<1>2. CASE PullKinds(s, g)
  <2> DEFINE suspect == Suspects(s, {KindOf[e] : e \in t.refs})
             u == [t EXCEPT !.suspect = suspect,
                            !.step = IF suspect = {} THEN "items"
                                                     ELSE "marker"]
  <2>1. Go(s, g, u) /\ t.step = "kinds"
    BY <1>2 DEF PullKinds, At, t
  <2>2. u.step \in {"items", "marker"} /\ u.refs = t.refs /\ u.op = t.op
    <3> HIDE DEF suspect
    <3> QED BY <1>t DEF Task
  <2> HIDE DEF u
  <2>3. TaskSpares(s, u)
    BY <1>t, <2>1, <2>2 DEF TaskSpares, Spares
  <2> QED BY <2>1, <2>3, <1>go
<1>3. CASE ReadMarkers(s, g)
  <2> DEFINE refused == t.suspect \ migrated
             owned == {e \in t.refs : KindOf[e] \notin refused}
             refs == IF t.op = "pull" THEN owned
                                      ELSE Differing(s, owned, t.got)
             next == [t EXCEPT !.suspect = {}, !.refused = refused,
                               !.refs = refs, !.got = Idle.got,
                               !.step = "items"]
  <2>1. Go(s, g, next) \/ Go(s, g, AfterApply(s, g, next))
    BY <1>3 DEF ReadMarkers, t
  <2>2. t.step = "marker" /\ refs \subseteq t.refs
    BY <1>3 DEF ReadMarkers, At, Differing, t
  <2>3. s \notin Fresh => \A e \in refs : ~Bare(e)
    <3> SUFFICES ASSUME s \notin Fresh, NEW e \in refs, Bare(e) PROVE FALSE
      OBVIOUS
    <3>1. e \in t.refs /\ e \in owned
      BY DEF Differing
    <3>2. /\ t.op # "pull" /\ t.got[e] = NoItem
          /\ KindOf[e] \in t.suspect \/ ~Held(Rehomed(e))
      BY <1>t, <2>2, <3>1 DEF TaskSpares, Spares
    <3>3. KindOf[e] \notin t.suspect
      BY <3>1 DEF Bare
    <3>4. e \notin Differing(s, owned, t.got)
      <4> HIDE DEF owned
      <4> QED BY <1>b, <3>1, <3>2, <3>3, BareIsSuspect
    <3> QED BY <3>2, <3>4
  <2>4. next.step = "items" /\ next.refs = refs /\ next.op = t.op
    <3> HIDE DEF refused, refs
    <3> QED BY <1>t DEF Task
  <2> HIDE DEF next, refs
  <2>5. TaskSpares(s, next)
    BY <1>t, <2>2, <2>3, <2>4 DEF TaskSpares, Spares, HaveRows
  <2> QED BY <2>1, <2>5, <1>go, EndSpares
<1>4. CASE SweepMax(s, g)
  <2>1. PICK upTo : Go(s, g, [t EXCEPT !.step = "revs", !.upTo = upTo])
    BY <1>4 DEF SweepMax, t
  <2> DEFINE u == [t EXCEPT !.step = "revs", !.upTo = upTo]
  <2>2. t.step = "max" /\ u.step = "revs" /\ u.refs = t.refs /\ u.op = t.op
    BY <1>4, <1>t DEF SweepMax, At, t, Task
  <2>3. Go(s, g, u)
    BY <2>1
  <2> HIDE DEF u
  <2>4. TaskSpares(s, u)
    BY <1>t, <2>2 DEF TaskSpares, Spares
  <2> QED BY <2>3, <2>4, <1>go
<1>5. CASE SweepRevs(s, g)
  <2> DEFINE suspect == Suspects(s, {KindOf[e] : e \in t.refs})
             refs == Differing(s, t.refs, rows)
             ask == [t EXCEPT !.suspect = suspect, !.got = rows,
                              !.step = "marker"]
             read == [t EXCEPT !.refs = refs, !.step = "items"]
  <2>1. \/ suspect # {} /\ Go(s, g, ask)
        \/ Go(s, g, AfterApply(s, g, t))
        \/ suspect = {} /\ Go(s, g, read)
    BY <1>5 DEF SweepRevs, t
  <2>2. t.step = "revs" /\ refs \subseteq t.refs
    BY <1>5 DEF SweepRevs, At, Differing, t
  <2>3. /\ ask.step = "marker" /\ ask.refs = t.refs /\ ask.op = t.op
        /\ ask.suspect = suspect /\ ask.got = rows
    <3> HIDE DEF suspect
    <3> QED BY <1>t DEF Task
  <2>4. read.step = "items" /\ read.refs = refs /\ read.op = t.op
    <3> HIDE DEF refs
    <3> QED BY <1>t DEF Task
  <2>5. ASSUME s \notin Fresh, NEW e \in t.refs, Bare(e)
        PROVE  /\ rows[e] = NoItem
               /\ KindOf[e] \in suspect \/ ~Held(Rehomed(e))
               /\ ~Held(Rehomed(e)) => e \notin refs
    <3>1. KindOf[e] \in {KindOf[d] : d \in t.refs}
      OBVIOUS
    <3> QED BY <1>b, <2>5, <3>1, BareIsSuspect
  <2> HIDE DEF ask, read, refs, suspect
  <2>6. TaskSpares(s, ask)
    BY <1>t, <2>2, <2>3, <2>5 DEF TaskSpares, Spares
  <2>7. suspect = {} => TaskSpares(s, read)
    BY <1>t, <2>2, <2>4, <2>5 DEF TaskSpares, Spares, HaveRows
  <2> QED BY <2>1, <2>6, <2>7, <1>go, EndSpares
<1>6. CASE ReadItems(s, g)
  <2>1. PICK got : Go(s, g, [t EXCEPT !.step = "apply", !.got = got])
    BY <1>6 DEF ReadItems, t
  <2> DEFINE u == [t EXCEPT !.step = "apply", !.got = got]
  <2>2. t.step = "items" /\ u.step = "apply" /\ u.refs = t.refs /\ u.op = t.op
    BY <1>6, <1>t DEF ReadItems, At, t, Task
  <2>3. Go(s, g, u)
    BY <2>1
  <2> HIDE DEF u
  <2>4. TaskSpares(s, u)
    BY <1>t, <2>2 DEF TaskSpares, Spares
  <2> QED BY <2>3, <2>4, <1>go
<1> QED BY <1>1, <1>2, <1>3, <1>4, <1>5, <1>6

\* What a task writes of rows that are not bare leaves the bare ones alone.
LEMMA MixSpares ==
  ASSUME NEW items, FromBlob(items), NEW got, NEW refs,
         \A e \in refs : e \in Entity /\ Bare(e) => got[e] = Rehomed(e)
  PROVE  FromBlob([e \in Entity |-> IF e \in refs THEN got[e] ELSE items[e]])
BY DEF FromBlob

\* The steps of a pull and of a sweep after their reads.
WritingStep(s, g) ==
  \/ RepairMirror(s, g) \/ Apply(s, g) \/ WriteMirror(s, g)
  \/ Advance(s, g) \/ Abandon(s, g)

\* The memory of s with the rows of refs as t read them.
Mixed(s, t, refs) ==
  [e \in Entity |-> IF e \in refs THEN t.got[e] ELSE snapshot[s][e]]

\* The memory of s takes the rows of refs, and the mirror write is next.
Adopts(s, g, t, refs, told) ==
  /\ Go(s, g, [t EXCEPT !.step = "mirror", !.refs = refs, !.told = told])
  /\ snapshot' = [snapshot EXCEPT ![s] = Mixed(s, t, refs)]

\* What an apply puts into the memory, and what it hands to the mirror write.
LEMMA ApplyAdopts ==
  ASSUME NEW s \in Station, NEW g \in Engine, Apply(s, g),
         NEW t, t = task[s][g], NEW fresh, fresh = Taken(s, t)
  PROVE  /\ t.step = "apply" /\ mirror' = mirror
         /\ \/ /\ Go(s, g, AfterApply(s, g, t))
               /\ snapshot' = snapshot
            \/ \E told : Adopts(s, g, t, fresh, told)
<1> DEFINE told == {e \in fresh : t.got[e].val # snapshot[s][e].val}
<1>1. t.step = "apply" /\ mirror' = mirror
  BY DEF Apply, At, localVars
<1>2. CASE fresh = {} \/ Stopped(s, g)
  <2>1. Go(s, g, AfterApply(s, g, t)) /\ snapshot' = snapshot
    BY <1>2 DEF Apply
  <2> QED BY <1>1, <2>1
<1>3. CASE ~(fresh = {} \/ Stopped(s, g))
  <2>1. Adopts(s, g, t, fresh, told)
    BY <1>3 DEF Apply, Adopts, Mixed
  <2> QED BY <1>1, <2>1
<1> QED BY <1>2, <1>3

\* The other steps of a pull and of a sweep: what they apply and write.
LEMMA WritesSpare ==
  ASSUME TypeInv, TypeInv', BlobInv, NEW s \in Station, NEW g \in Engine,
         WritingStep(s, g)
  PROVE  BlobInv'
<1> USE DEF remoteVars, localVars, linkVars, bounds
<1> DEFINE t == task[s][g]
<1>t. t \in Task /\ TaskSpares(s, t)
  BY DEF TypeInv, TypeOK, BlobInv
<1>b. \A e \in t.refs : e \in Entity
  BY <1>t DEF Task
<1>s. s \notin Fresh => FromBlob(snapshot[s]) /\ FromBlob(mirror[s])
  BY DEF BlobInv, CopiesSpared
<1>go. ASSUME NEW u, Go(s, g, u), TaskSpares(s, u),
              \A r \in Station \ Fresh :
                /\ snapshot'[r] = snapshot[r] \/ FromBlob(snapshot'[r])
                /\ mirror'[r] = mirror[r] \/ FromBlob(mirror'[r])
       PROVE  BlobInv'
  <2>1. rows' = rows /\ log' = log /\ migrated' = migrated
        /\ pending' = pending
    BY DEF WritingStep, RepairMirror, Apply, WriteMirror, Advance, Abandon
  <2> QED BY <1>go, <2>1, BlobRests
<1>wr. ASSUME NEW refs, Write(s, refs, t.got),
              s \notin Fresh => \A e \in refs :
                e \in Entity /\ Bare(e) => t.got[e] = Rehomed(e)
       PROVE  \A r \in Station \ Fresh :
                mirror'[r] = mirror[r] \/ FromBlob(mirror'[r])
  <2> DEFINE mixed == [e \in Entity |-> IF e \in refs THEN t.got[e]
                                                     ELSE mirror[s][e]]
  <2>1. \A r \in Station : mirror'[r] = IF r = s THEN mixed ELSE mirror[r]
    BY <1>wr DEF Write, TypeInv, TypeOK
  <2>2. s \notin Fresh => FromBlob(mixed)
    <3> HIDE DEF t
    <3> QED BY <1>s, <1>wr DEF FromBlob
  <2> HIDE DEF mixed
  <2> QED BY <2>1, <2>2
<1>1. CASE RepairMirror(s, g)
  <2> DEFINE u == [t EXCEPT !.step = ReadStep(t.op), !.told = {},
                            !.got = Idle.got]
  <2>1. Go(s, g, u) /\ t.step = "repair" /\ snapshot' = snapshot
    BY <1>1 DEF RepairMirror, At, t
  <2>2. u.step \in {"max", "revs"} /\ u.refs = t.refs /\ u.op = t.op
    BY <1>t DEF Task, ReadStep
  <2> HIDE DEF u
  <2>3. TaskSpares(s, u)
    BY <1>t, <2>1, <2>2 DEF TaskSpares, Spares
  <2>4. s \notin Fresh => FromBlob(t.got)
    BY <1>t, <2>1 DEF TaskSpares, Spares
  <2>5. Write(s, t.told, t.got) \/ mirror' = mirror
    BY <1>1 DEF RepairMirror, t
  <2>6. \A r \in Station \ Fresh :
          mirror'[r] = mirror[r] \/ FromBlob(mirror'[r])
    BY <1>wr, <2>4, <2>5 DEF FromBlob
  <2> QED BY <2>1, <2>3, <2>6, <1>go
<1>2. CASE Apply(s, g)
  <2> DEFINE fresh == Taken(s, t)
  <2>1. PICK told :
          \/ /\ Go(s, g, AfterApply(s, g, t))
             /\ snapshot' = snapshot
          \/ Adopts(s, g, t, fresh, told)
    <3>1. t = task[s][g] /\ fresh = Taken(s, t)
      OBVIOUS
    <3> HIDE DEF t, fresh
    <3> QED BY <1>2, <3>1, ApplyAdopts
  <2> DEFINE u == [t EXCEPT !.step = "mirror", !.refs = fresh, !.told = told]
  <2>2. t.step = "apply" /\ fresh \subseteq t.refs /\ mirror' = mirror
    BY <1>2, ApplyAdopts DEF Taken
  <2>3. s \notin Fresh => \A e \in fresh : e \in Entity /\ ~Bare(e)
    BY <1>b, <1>t, <2>2 DEF TaskSpares, Spares
  <2>4. u.step = "mirror" /\ u.refs = fresh /\ u.op = t.op
    <3> HIDE DEF fresh
    <3> QED BY <1>t DEF Task
  <2>5. s \notin Fresh => FromBlob(Mixed(s, t, fresh))
    <3> HIDE DEF fresh
    <3> QED BY <1>s, <2>3, MixSpares DEF Mixed
  <2>6. \A new : snapshot' = [snapshot EXCEPT ![s] = new] =>
          \A r \in Station : snapshot'[r] = IF r = s THEN new ELSE snapshot[r]
    BY DEF TypeInv, TypeOK
  <2>7. CASE Go(s, g, AfterApply(s, g, t)) /\ snapshot' = snapshot
    BY <2>2, <2>7, <1>go, EndSpares
  <2> HIDE DEF u, fresh
  <2>8. TaskSpares(s, u)
    BY <1>t, <2>2, <2>3, <2>4 DEF TaskSpares, Spares, HaveRows
  <2>9. CASE Adopts(s, g, t, fresh, told)
    <3>1. Go(s, g, u) /\ snapshot' = [snapshot EXCEPT ![s] = Mixed(s, t, fresh)]
      BY <2>9 DEF Adopts, u
    <3>2. \A r \in Station \ Fresh :
            snapshot'[r] = snapshot[r] \/ FromBlob(snapshot'[r])
      BY <2>5, <2>6, <3>1
    <3> QED BY <2>2, <2>8, <3>1, <3>2, <1>go
  <2> QED BY <2>1, <2>7, <2>9
<1>3. CASE WriteMirror(s, g)
  <2> DEFINE u == [t EXCEPT !.step = "nudge"]
  <2>1. \/ Go(s, g, u) /\ t.op = "save"
        \/ Go(s, g, AfterApply(s, g, t))
    BY <1>3 DEF WriteMirror, t
  <2>2. t.step = "mirror" /\ snapshot' = snapshot
    BY <1>3 DEF WriteMirror, At, t
  <2>3. s \notin Fresh => \A e \in t.refs : ~Bare(e)
    BY <1>t, <2>2 DEF TaskSpares, Spares
  <2>4. u.step = "nudge" /\ u.refs = t.refs /\ u.op = t.op
    BY <1>t DEF Task
  <2> HIDE DEF u
  <2>5. t.op = "save" => TaskSpares(s, u)
    BY <1>t, <2>3, <2>4 DEF TaskSpares, Spares
  <2>6. Write(s, t.refs, t.got) \/ mirror' = mirror
    BY <1>3 DEF WriteMirror, t
  <2>7. \A r \in Station \ Fresh :
          mirror'[r] = mirror[r] \/ FromBlob(mirror'[r])
    BY <1>wr, <2>3, <2>6
  <2> QED BY <2>1, <2>2, <2>5, <2>7, <1>go, EndSpares
<1>4. CASE Advance(s, g) \/ Abandon(s, g)
  <2>1. Go(s, g, Idle) /\ snapshot' = snapshot /\ mirror' = mirror
    BY <1>4 DEF Advance, Abandon, Dropped
  <2> QED BY <2>1, <1>go, EndSpares
<1> QED BY <1>1, <1>2, <1>3, <1>4 DEF WritingStep

\* The commit of a save writes its rows, so no kind of them is bare any more.
LEMMA CommitSpares ==
  ASSUME TypeInv, TypeInv', HistoryInv, BlobInv, NEW s \in Station,
         NEW g \in Engine, Commit(s, g)
  PROVE  BlobInv'
<1> USE DEF remoteVars, localVars, linkVars, bounds
<1> DEFINE t == task[s][g]
           Late(c) == \E d \in log : d.id > c.id
           logged == {[c EXCEPT !.late = Late(c)] : c \in t.entries}
           new == [e \in Entity |->
                IF e \in t.held THEN Written(draft[s], e) ELSE NoItem]
           u == [t EXCEPT !.step = "ack", !.refs = t.held, !.held = {},
                        !.entries = {}, !.told = t.held, !.got = new]
<1>t. /\ t \in Task /\ t.step = "exec" /\ t.held \subseteq Entity
      /\ t.entries \subseteq ChangeRow
  <2>1. t \in Task /\ t.step = "exec"
    BY DEF TypeInv, TypeOK, Commit, At
  <2> HIDE DEF t
  <2> QED BY <2>1 DEF Task
<1>r. Recorded(t)
  BY <1>t DEF HistoryInv, Accounted, At
<1>1. \A e \in Entity :
        IF e \in t.held THEN rows'[e].ver # 0 ELSE rows'[e] = rows[e]
  <2>1. \A e \in Entity : rows[e].ver + 1 # 0
    <3>1. \A e \in Entity : rows[e] \in Item
      BY DEF TypeInv, TypeOK
    <3>2. \A item \in Item : item.ver + 1 # 0
      BY DEF Item
    <3> QED BY <3>1, <3>2
  <2>2. \A e \in Entity : rows'[e] = IF e \in t.held THEN new[e] ELSE rows[e]
    BY DEF Commit
  <2>3. \A e \in t.held : new[e].ver = rows[e].ver + 1
    BY <1>t DEF Written
  <2> HIDE DEF new, t
  <2> QED BY <1>t, <2>1, <2>2, <2>3
<1>2. log' = log \cup logged
  BY DEF Commit
<1>3. \A c \in logged : c.entity \in t.held
  <2>1. \A c \in t.entries : [c EXCEPT !.late = Late(c)].entity = c.entity
    <3> HIDE DEF t, Late
    <3> QED BY <1>t DEF ChangeRow
  <2>2. \A c \in t.entries : c.entity \in t.held
    BY <1>r DEF Recorded
  <2> HIDE DEF t, Late
  <2> QED BY <2>1, <2>2
<1>4. \A c \in log' : c \in log \/ rows'[c.entity].ver # 0
  <2> HIDE DEF logged, t
  <2> QED BY <1>t, <1>1, <1>2, <1>3
<1>5. u.step = "ack" /\ u.refs = t.held
  <2> HIDE DEF new
  <2> QED BY <1>t DEF Task
<1>6. /\ Go(s, g, u) /\ migrated' = migrated
      /\ snapshot' = snapshot /\ mirror' = mirror
  BY DEF Commit
<1>7. \A r \in Station : \A req \in pending'[r] :
        \/ req \in pending[r]
        \/ req \in Request /\ req.op # "rows"
  <2>1. Pull \in Request /\ Pull.op # "rows"
    BY DEF Pull, Request
  <2> QED BY <2>1 DEF Commit, Notified
<1> HIDE DEF u, new, logged
<1>8. /\ task'[s][g] = u
      /\ \A r \in Station, h \in Engine :
           r # s \/ h # g => task'[r][h] = task[r][h]
  BY <1>6, GoIs
<1>9. \A e \in task'[s][g].refs : e \in Entity /\ rows'[e].ver # 0
  <2> HIDE DEF t
  <2> QED BY <1>t, <1>1, <1>5, <1>8
<1>10. TaskSpares(s, task[s][g])'
  <2>1. \A e \in task'[s][g].refs : ~Bare(e)'
    BY <1>9 DEF Bare, OfKind
  <2>2. task'[s][g].step = "ack"
    BY <1>5, <1>8
  <2> QED BY <1>9, <2>1, <2>2 DEF TaskSpares, Spares, HaveRows
<1> HIDE DEF t
<1>11. \A e \in Entity : rows'[e] = rows[e] \/ rows'[e].ver # 0
  BY <1>1
<1>12. \A r \in Station, h \in Engine :
         \/ task'[r][h] = task[r][h]
         \/ TaskSpares(r, task[r][h])'
  BY <1>8, <1>10
<1> QED BY <1>4, <1>6, <1>7, <1>11, <1>12, BlobMoves

\* The other steps of a save.
LEMMA SavesSpare ==
  ASSUME TypeInv, TypeInv', HistoryInv, BlobInv, NEW s \in Station,
         NEW g \in Engine, SaveStep(s, g) \/ LoseLink(s, g)
  PROVE  BlobInv'
<1> USE DEF remoteVars, localVars, linkVars, bounds
<1> DEFINE t == task[s][g]
<1>t. t \in Task /\ TaskSpares(s, t)
  BY DEF TypeInv, TypeOK, BlobInv
<1>h. t.op = "save" => \A e \in t.refs : e \in Entity /\ rows[e].ver # 0
  BY <1>t DEF Task, TaskSpares, HaveRows
<1> HIDE DEF t
<1>1. ASSUME NEW e \in Entity, ExecStatement(s, g, e)
      PROVE  BlobInv'
  <2>1. PICK entries :
          Go(s, g, [t EXCEPT !.todo = @ \ {e}, !.held = @ \cup {e},
                             !.entries = entries])
    <3> DEFINE entry == [id |-> nextId, entity |-> e, ver |-> rows[e].ver + 1,
                         late |-> FALSE]
               entries == IF Logged(s, e) THEN t.entries \cup {entry}
                                          ELSE t.entries
    <3>1. Go(s, g, [t EXCEPT !.todo = @ \ {e}, !.held = @ \cup {e},
                             !.entries = entries])
      BY <1>1 DEF ExecStatement, t
    <3> HIDE DEF entries
    <3> QED BY <3>1
  <2> DEFINE u == [t EXCEPT !.todo = @ \ {e}, !.held = @ \cup {e},
                            !.entries = entries]
  <2>2. t.step = "exec"
    BY <1>1 DEF ExecStatement, IsNext, At, t
  <2>3. u.step = t.step /\ u.refs = t.refs /\ u.op = t.op
    BY <1>t DEF Task
  <2>4. Go(s, g, u)
    BY <2>1
  <2> HIDE DEF u
  <2>5. TaskSpares(s, u)
    BY <1>t, <2>2, <2>3 DEF TaskSpares, Spares
  <2>6. rows' = rows /\ log' = log /\ migrated' = migrated
        /\ pending' = pending /\ snapshot' = snapshot /\ mirror' = mirror
    BY <1>1 DEF ExecStatement
  <2> QED BY <2>4, <2>5, <2>6, BlobRests
<1>2. ASSUME NEW why, RollBack(s, g, why)
      PROVE  BlobInv'
  <2>1. rows' = rows /\ log' = log /\ migrated' = migrated /\ Go(s, g, Idle)
        /\ pending' = pending /\ snapshot' = snapshot /\ mirror' = mirror
    BY <1>2 DEF RollBack
  <2> QED BY <2>1, EndSpares, BlobRests
<1>3. ASSUME NEW e \in Entity, Conflict(s, g, e)
      PROVE  BlobInv'
  BY <1>2, <1>3 DEF Conflict
<1>4. CASE Deadlock(s, g) \/ LoseLink(s, g)
  BY <1>2, <1>4 DEF Deadlock, LoseLink
<1>5. CASE Commit(s, g)
  BY <1>5, CommitSpares
<1>6. CASE Acknowledge(s, g)
  <2> DEFINE u == [t EXCEPT !.step = "mirror"]
             new == [e \in Entity |-> IF e \in t.refs THEN t.got[e]
                                                      ELSE snapshot[s][e]]
  <2>1. /\ Go(s, g, u) /\ t.step = "ack"
        /\ snapshot' = [snapshot EXCEPT ![s] = new]
    BY <1>6 DEF Acknowledge, Swapped, At, t
  <2>2. rows' = rows /\ log' = log /\ migrated' = migrated
        /\ pending' = pending /\ mirror' = mirror
    BY <1>6 DEF Acknowledge
  <2>3. u.step = "mirror" /\ u.refs = t.refs /\ u.op = t.op
    BY <1>t DEF Task
  <2> HIDE DEF u
  <2>4. TaskSpares(s, u)
    BY <1>t, <2>1, <2>3 DEF TaskSpares, Spares
  <2>5. s \notin Fresh => FromBlob(new)
    <3>1. s \notin Fresh => FromBlob(snapshot[s])
      BY DEF BlobInv, CopiesSpared
    <3>2. s \notin Fresh => \A e \in t.refs : ~Bare(e)
      BY <1>t, <2>1 DEF TaskSpares, Spares
    <3> QED BY <3>1, <3>2, MixSpares
  <2> HIDE DEF new
  <2>6. \A r \in Station : snapshot'[r] = IF r = s THEN new ELSE snapshot[r]
    BY <2>1 DEF TypeInv, TypeOK
  <2>7. \A r \in Station \ Fresh :
          snapshot'[r] = snapshot[r] \/ FromBlob(snapshot'[r])
    BY <2>5, <2>6
  <2> QED BY <2>1, <2>2, <2>4, <2>7, BlobRests
<1>7. CASE Nudge(s, g)
  <2>1. t.op = "save"
    BY <1>7, <1>t DEF Nudge, At, TaskSpares, t
  <2>2. \A r \in Station : \A req \in pending'[r] :
          \/ req \in pending[r]
          \/ req \in Request /\ (req.op = "rows" => HaveRows(req.refs))
    <3> DEFINE ids == t.refs \cap Exempt
               kinds == {e \in Entity : \E d \in ids : KindOf[d] = KindOf[e]}
    <3>1. /\ [op |-> "rows", refs |-> ids] \in Request
          /\ [op |-> "kinds", refs |-> kinds] \in Request
      BY ConstantsOK DEF Request
    <3>2. HaveRows(ids)
      BY <1>h, <2>1 DEF HaveRows
    <3>3. \/ \E req \in {[op |-> "rows", refs |-> ids],
                         [op |-> "kinds", refs |-> kinds]} :
               pending' = Notified(req)
          \/ pending' = pending
      BY <1>7 DEF Nudge, t
    <3> HIDE DEF ids, kinds
    <3>4. \A req \in {[op |-> "rows", refs |-> ids],
                      [op |-> "kinds", refs |-> kinds]} :
            req \in Request /\ (req.op = "rows" => HaveRows(req.refs))
      BY <3>1, <3>2
    <3> QED BY <3>3, <3>4 DEF Notified
  <2>3. rows' = rows /\ log' = log /\ migrated' = migrated /\ Go(s, g, Idle)
        /\ snapshot' = snapshot /\ mirror' = mirror
    BY <1>7 DEF Nudge
  <2>4. /\ task'[s][g] = Idle
        /\ \A r \in Station, h \in Engine :
             r # s \/ h # g => task'[r][h] = task[r][h]
    BY <2>3, GoIs
  <2>5. task'[s][g] \in Task
    BY DEF TypeInv, TypeOK
  <2> QED BY <2>2, <2>3, <2>4, <2>5, EndSpares, BlobMoves
<1> QED BY <1>1, <1>3, <1>4, <1>5, <1>6, <1>7 DEF SaveStep

\* Attachment, the channel, the timers and crashes; an edit.
LEMMA OthersSpare ==
  ASSUME TypeInv, TypeInv', BlobInv, NEW s \in Station,
         BeginEdit(s) \/ LinkStep(s) \/ Restart(s)
  PROVE  BlobInv'
<1> USE DEF remoteVars, localVars, linkVars, bounds
<1>p. Pull \in Request /\ Pull.op # "rows"
  BY DEF Pull, Request
<1>0. rows' = rows /\ log' = log /\ migrated' = migrated /\ mirror' = mirror
  BY DEF BeginEdit, LinkStep, Attach, Detach, ChannelOpen, ChannelDrop,
         Relisten, Restart
<1>1. \A r \in Station : \A req \in pending'[r] :
        req \in pending[r] \/ req = Pull
  <2>1. \/ pending' = pending
        \/ \E lost : pending' = [pending EXCEPT ![s] = @ \ lost]
        \/ pending' = [pending EXCEPT ![s] = {}]
        \/ pending' = [pending EXCEPT ![s] = @ \cup {Pull}]
    BY DEF BeginEdit, LinkStep, Attach, Detach, ChannelOpen, ChannelDrop,
           Relisten, Restart
  <2>2. pending \in [Station -> SUBSET Request]
    BY DEF TypeInv, TypeOK
  <2>3. CASE \E lost : pending' = [pending EXCEPT ![s] = @ \ lost]
    BY <2>2, <2>3
  <2>4. CASE pending' = [pending EXCEPT ![s] = {}]
    BY <2>2, <2>4
  <2>5. CASE pending' = [pending EXCEPT ![s] = @ \cup {Pull}]
    BY <2>2, <2>5
  <2> QED BY <2>1, <2>3, <2>4, <2>5
<1>2. CASE Attach(s)
  <2>1. current[s] \in Engine
    BY DEF TypeInv, TypeOK
  <2>2. 3 - current[s] \in Engine
    BY <2>1 DEF Engine
  <2>3. PICK g \in Engine : Go(s, g, Sweep(s, "sweep", Entity))
    BY <1>2, <2>2 DEF Attach, Begin
  <2>4. TaskSpares(s, Sweep(s, "sweep", Entity))
    BY SweepSpares
  <2>5. /\ task'[s][g] = Sweep(s, "sweep", Entity)
        /\ \A r \in Station, h \in Engine :
             r # s \/ h # g => task'[r][h] = task[r][h]
    BY <2>3, GoIs
  <2>6. task'[s][g] \in Task /\ snapshot' = snapshot
    BY <1>2 DEF Attach, TypeInv, TypeOK
  <2> QED BY <1>0, <1>1, <1>p, <2>4, <2>5, <2>6, BlobMoves
<1>3. CASE Restart(s)
  <2>1. \A r \in Station, h \in Engine :
          task'[r][h] = Idle \/ task'[r][h] = task[r][h]
    BY <1>3 DEF Restart, TypeInv, TypeOK
  <2>2. \A r \in Station : snapshot'[r] = mirror[r] \/ snapshot'[r] = snapshot[r]
    BY <1>3 DEF Restart, TypeInv, TypeOK
  <2>3. \A r \in Station \ Fresh : FromBlob(mirror[r])
    BY DEF BlobInv, CopiesSpared
  <2>4. \A r \in Station, h \in Engine : task'[r][h] \in Task
    BY DEF TypeInv, TypeOK
  <2> QED BY <1>0, <1>1, <1>p, <2>1, <2>2, <2>3, <2>4, EndSpares, BlobMoves
<1>4. CASE BeginEdit(s) \/ Detach(s) \/ ChannelOpen(s) \/ ChannelDrop(s)
           \/ Relisten(s)
  <2>1. task' = task /\ snapshot' = snapshot
    BY <1>4 DEF BeginEdit, Detach, ChannelOpen, ChannelDrop, Relisten
  <2> QED BY <1>0, <1>1, <1>p, <2>1, BlobMoves
<1> QED BY <1>2, <1>3, <1>4 DEF LinkStep

\* A migration leaves the marker of its kind, and writes rows of that kind.
LEMMA MigrateSpares ==
  ASSUME TypeInv, BlobInv, NEW k \in Kind, Migrate(k)
  PROVE  BlobInv'
<1> DEFINE blob == {e \in OfKind(k) : Plant[e] # NoValue}
<1>1. /\ \A e \in Entity : rows'[e] = rows[e] \/ rows'[e].ver = 1
      /\ \A e \in blob : rows'[e].ver = 1
  BY DEF Migrate, OfKind
<1>2. \A c \in log' : c \in log \/ c.entity \in blob
  BY DEF Migrate
<1>3. migrated \subseteq migrated' /\ task' = task
      /\ snapshot' = snapshot /\ mirror' = mirror
  BY DEF Migrate, localVars
<1>4. \A r \in Station : \A req \in pending'[r] :
        \/ req \in pending[r]
        \/ req \in Request /\ req.op # "rows"
  <2>1. Pull \in Request /\ Pull.op # "rows"
    BY DEF Pull, Request
  <2> QED BY <2>1 DEF Migrate, Notified
<1> HIDE DEF blob
<1> QED BY <1>1, <1>2, <1>3, <1>4, BlobMoves

\* The plant starts with the blobs of the bare kinds on the disk of every
\* station that is not fresh.
LEMMA BlobInit == Init => BlobInv
<1> SUFFICES ASSUME Init PROVE BlobInv
  OBVIOUS
<1>1. rows = [e \in Entity |-> FirstRow(e)] /\ migrated = Rowed
  BY DEF Init
<1>2. \A e \in Entity : rows[e].ver = 0 => rows[e] = NoItem
  BY <1>1 DEF FirstRow
<1>3. \A c \in log : rows[c.entity].ver # 0
  <2>1. PICK ids : log = {[id |-> ids[e], entity |-> e, ver |-> 1,
                           late |-> FALSE] : e \in Logged0}
    BY DEF Init
  <2>2. \A e \in Logged0 : e \in Entity /\ FirstRow(e).ver = 1
    BY DEF Logged0, FirstRow, Held, NoItem
  <2>3. \A c \in log : c.entity \in Logged0
    BY <2>1
  <2> QED BY <1>1, <2>2, <2>3
<1>4. \A s \in Station, g \in Engine : pending[s] = {} /\ task[s][g] = Idle
  BY DEF Init
<1>5. CopiesSpared
  <2>1. \A s \in Station \ Fresh :
          /\ mirror[s] = [e \in Entity |-> Rehomed(e)]
          /\ snapshot[s] = mirror[s]
    BY DEF Init
  <2> QED BY <2>1 DEF CopiesSpared, FromBlob
<1>6. \A s \in Station, g \in Engine : TaskSpares(s, task[s][g])
  BY <1>4, EndSpares
<1>7. RowsExist
  <2>1. \A s \in Station : \A req \in pending[s] :
          req.op = "rows" => HaveRows(req.refs)
    <3>1. \A s \in Station : pending[s] = {}
      BY DEF Init
    <3> QED BY <3>1
  <2>2. Rowed \subseteq migrated
    BY <1>1
  <2> QED BY <1>2, <1>3, <2>1, <2>2, Zenon DEF RowsExist
<1> QED BY <1>5, <1>6, <1>7 DEF BlobInv

\* Every step spares the rows of the bare kinds.
LEMMA BlobNext ==
  ASSUME TypeInv, TypeInv', HistoryInv, BlobInv, [Next]_vars
  PROVE  BlobInv'
<1>1. ASSUME NEW s \in Station, NEW g \in Engine, SyncStep(s, g)
      PROVE  BlobInv'
  BY <1>1, ReadsSpare, WritesSpare DEF SyncStep, WritingStep
<1>2. CASE Next
  BY <1>1, <1>2, StartsSpare, WritesSpare, SavesSpare, OthersSpare,
     MigrateSpares DEF Next, WritingStep
<1>3. CASE UNCHANGED vars
  <2>1. rows' = rows /\ log' = log /\ migrated' = migrated /\ task' = task
        /\ pending' = pending /\ snapshot' = snapshot /\ mirror' = mirror
    BY <1>3 DEF vars, remoteVars, localVars
  <2> QED BY <2>1, BlobMoves
<1> QED BY <1>2, <1>3

\* The invariant behind the theorem, in every reachable state.
LEMMA BlobInvariant == Spec => []BlobInv
<1>1. TypeInv /\ TypeInv' /\ HistoryInv /\ BlobInv /\ [Next]_vars => BlobInv'
  BY BlobNext
<1> QED BY <1>1, BlobInit, TypesInvariant, HistoryInvariant, PTL DEF Spec

\* Until the remote gets a row or the marker of a kind, no sweep, no pull, no
\* nudge, no detached engine and no crash takes the rows of that kind off the
\* disk of a station that was started with them (_refusedKinds and
\* _remoteIsMigrated of config_sync.dart, which keep a remote that is not
\* migrated yet from being read as one whose rows were all deleted).
THEOREM UnmigratedStaysKept == Spec => []UnmigratedKept
<1>1. BlobInv => UnmigratedKept
  BY DEF BlobInv, CopiesSpared, FromBlob, Bare, UnmigratedKept, OfKind
<1> QED BY <1>1, BlobInvariant, PTL
=============================================================================
