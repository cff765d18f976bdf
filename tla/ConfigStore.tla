---------------------------- MODULE ConfigStore ----------------------------
(***************************************************************************)
(* The relational configuration store of packages/tfc_dart: stations that  *)
(* share the plant's configuration through one Postgres, each serving it   *)
(* from a snapshot in memory and a mirror in local SQLite.                 *)
(*                                                                         *)
(* A save (config_store.dart, _writeItems) is one Postgres transaction of  *)
(* compare-and-swap statements, each with its config_change row.  The sync *)
(* engine (config_sync.dart, _ConfigSync) brings the changes of the other  *)
(* stations back: a NOTIFY starts a pull of the change log above the       *)
(* watermark, and a timer starts a sweep of every revision.  A step of     *)
(* this module is the code between two awaits, so everything another       *)
(* station, another statement or a crash can do in between may happen.     *)
(*                                                                         *)
(* An entity is one shared (kind, id); the content of its row is a member  *)
(* of Value.  The pool of a station is one connection.                     *)
(***************************************************************************)
EXTENDS Integers, FiniteSets, FiniteSetsExt, Sequences

CONSTANTS
  Station,     \* the processes that share the plant
  Entity,      \* the shared (kind, id) pairs
  Kind,        \* the kinds under sync, kSharedConfigKinds
  KindOf,      \* the kind of each entity
  Rank,        \* their order, by kind and then by id
  Exempt,      \* the entities historyExempt() answers yes for
  Value,       \* what the payload and position of a row may be
  NoValue,     \* the content of an entity that has no row
  Plant,       \* the configuration the plant starts from
  Rowed,       \* the kinds whose blob is already in rows at the start
  Fresh,       \* the stations that have never been attached
  Editor,      \* the stations somebody edits at
  Sweeper,     \* the stations whose sweep timer fires
  Wish,        \* bound: the configurations operators ask for
  Author,      \* the station whose operator creates an entity (see MayCreate)
  Reuse,       \* may an id be used again after its row was deleted?
  Faults,      \* what may go wrong in this instance
  MaxEdits,    \* bound: the edits operators begin
  MaxFaults    \* bound: the things that go wrong

FaultKind == {"read", "link", "mirror", "channel", "crash", "detach"}

ASSUME ConstantsOK ==
  /\ IsFiniteSet(Station) /\ IsFiniteSet(Entity)
  /\ KindOf \in [Entity -> Kind]
  /\ Rank \in [Entity -> Nat]
  /\ \A d, e \in Entity : Rank[d] = Rank[e] => d = e
  /\ Exempt \subseteq Entity
  /\ NoValue \notin Value
  /\ Plant \in [Entity -> Value \cup {NoValue}]
  /\ Rowed \subseteq Kind
  /\ Fresh \subseteq Station /\ Editor \subseteq Station
  /\ Sweeper \subseteq Station
  /\ Wish \subseteq [Entity -> Value \cup {NoValue}]
  /\ Author \in [Entity -> Station]
  /\ Reuse \in BOOLEAN
  /\ Faults \subseteq FaultKind
  /\ MaxEdits \in Nat /\ MaxFaults \in Nat

VARIABLES
  \* Postgres
  rows,       \* config_item: the row of each entity
  log,        \* config_change: the change rows that are committed
  nextId,     \* the next value of the SERIAL config_change.id
  migrated,   \* the kinds whose migration marker is present
  \* A station
  snapshot,   \* _snapshot
  mirror,     \* the shared rows of config.sqlite
  dirty,      \* _mirrorDirty
  watermark,  \* _watermark
  persisted,  \* the watermark row of config.sqlite
  attached,   \* is there a remote?
  current,    \* which of its two engines the station's chain belongs to
  chan,       \* the LISTEN channel of the attached engine
  pending,    \* sync tasks on the chain, or on the wire to it
  task,       \* what each engine is in the middle of
  localQ,     \* the mirror writes in the order they were issued
  draft,      \* the operator's edit
  view,       \* the content the listeners of the change stream work from
  \* Bounds
  edits, faults

remoteVars == <<rows, log, nextId, migrated>>
localVars  == <<mirror, dirty, persisted>>
linkVars   == <<attached, current, chan>>
bounds     == <<edits, faults>>
vars == <<remoteVars, snapshot, localVars, watermark, linkVars, pending,
          task, localQ, draft, view, bounds>>

-----------------------------------------------------------------------------
(* Data.                                                                   *)

Content == Value \cup {NoValue}

\* A row as it is stored: content, rev, and (read by no guard) the number of
\* writes its entity has had, which tells two rows of one revision apart.
Item == [val : Content, rev : Nat, ver : Nat]
NoItem == [val |-> NoValue, rev |-> 0, ver |-> 0]
Held(item) == item.val # NoValue

\* A change row.  Its values are not modelled: no reader trusts them.  ver is
\* the version its write made; late says (read by no guard) that a higher id
\* was already visible when it was committed.
ChangeRow == [id : Nat, entity : Entity, ver : Nat, late : BOOLEAN]

\* An attachment is an engine.  A station has two of them: the attached one,
\* and the last one it let go of, whose task may still be in flight.
Engine == {1, 2}

Request == [op : {"pull", "rows", "kinds"}, refs : SUBSET Entity]
Pull  == [op |-> "pull", refs |-> {}]

Op == {"none", "pull", "rows", "kinds", "sweep", "save"}
Step == {"idle", "log", "kinds", "repair", "max", "revs", "marker", "items",
         "apply", "mirror", "nudge", "advance", "exec", "ack"}
Task == [op : Op, step : Step,
         refs : SUBSET Entity,      \* the rows in play
         upTo : Nat,                \* how far the watermark may move
         suspect : SUBSET Kind,     \* kinds whose marker has to be asked for
         refused : SUBSET Kind,     \* kinds the remote does not own yet
         got : [Entity -> Item],    \* the rows read, or written
         todo : SUBSET Entity,      \* statements of the save still to run
         held : SUBSET Entity,      \* rows its transaction has written
         entries : SUBSET ChangeRow, \* change rows it has inserted
         told : SUBSET Entity]      \* what the change stream is to announce

Idle == [op |-> "none", step |-> "idle", refs |-> {}, upTo |-> 0,
         suspect |-> {}, refused |-> {}, got |-> [e \in Entity |-> NoItem],
         todo |-> {}, held |-> {}, entries |-> {}, told |-> {}]

DraftState == {"none", "open", "running", "saved", "conflict", "offline",
               "failed"}
Draft == [state : DraftState, base : [Entity -> Item],
          want : [Entity -> Content]]
NoDraft == [state |-> "none", base |-> [e \in Entity |-> NoItem],
            want |-> [e \in Entity |-> NoValue]]

OfKind(k) == {e \in Entity : KindOf[e] = k}
HeldKinds(items) == {KindOf[e] : e \in {e \in Entity : Held(items[e])}}

-----------------------------------------------------------------------------
(* The state the plant starts in: every kind of Rowed is in rows, with a   *)
(* change row for each row that is not exempt; every other kind is still a *)
(* blob, which open() has decomposed into mirror rows of revision 0.  A    *)
(* fresh station has never seen any of it.                                 *)

FirstRow(e) ==
  IF KindOf[e] \in Rowed /\ Plant[e] # NoValue
    THEN [val |-> Plant[e], rev |-> 1, ver |-> 1] ELSE NoItem
Rehomed(e) ==
  IF KindOf[e] \in Rowed THEN FirstRow(e)
                         ELSE [val |-> Plant[e], rev |-> 0, ver |-> 0]
Logged0 == {e \in Entity \ Exempt : Held(FirstRow(e))}

Init ==
  /\ rows = [e \in Entity |-> FirstRow(e)]
  /\ \E ids \in [Logged0 -> 1..Cardinality(Logged0)] :
       /\ \A d, e \in Logged0 : ids[d] = ids[e] => d = e
       /\ log = {[id |-> ids[e], entity |-> e, ver |-> 1, late |-> FALSE] :
                   e \in Logged0}
  /\ nextId = Cardinality(Logged0) + 1
  /\ migrated = Rowed
  /\ mirror = [s \in Station |-> [e \in Entity |->
                 IF s \in Fresh THEN NoItem ELSE Rehomed(e)]]
  /\ persisted = [s \in Station |-> IF s \in Fresh THEN 0 ELSE nextId - 1]
  /\ snapshot = mirror
  /\ watermark = persisted
  /\ dirty = [s \in Station |-> {}]
  /\ attached = [s \in Station |-> FALSE]
  /\ current = [s \in Station |-> 1]
  /\ chan = [s \in Station |-> "off"]
  /\ pending = [s \in Station |-> {}]
  /\ task = [s \in Station |-> [g \in Engine |-> Idle]]
  /\ localQ = [s \in Station |-> <<>>]
  /\ draft = [s \in Station |-> NoDraft]
  /\ view = [s \in Station |-> [e \in Entity |-> snapshot[s][e].val]]
  /\ edits = 0
  /\ faults = 0

-----------------------------------------------------------------------------
(* Shared helpers.                                                         *)

Go(s, g, t) == task' = [task EXCEPT ![s][g] = t]
At(s, g, step) == task[s][g].step = step

\* The engine was stopped by a detach or a re-attach (_stopped).
Stopped(s, g) == ~attached[s] \/ g # current[s]

\* Something goes wrong, of a kind this instance allows.
Fault(kind) ==
  /\ kind \in Faults
  /\ faults < MaxFaults
  /\ faults' = faults + 1

\* The notification a commit sends reaches every channel that is open.
Notified(req) ==
  [s \in Station |-> IF chan[s] = "on" THEN pending[s] \cup {req}
                                       ELSE pending[s]]

\* A slip AfterApply avoids: the end of the log is read after the rows were.
AfterApplyReadingLast(s, g, t) ==
  [Idle EXCEPT !.op = t.op, !.step = "advance",
               !.upTo = IF log = {} THEN 0 ELSE Max({c.id : c \in log})]

\* What follows an apply: a pull and a full sweep record how far they read,
\* unless a kind was refused; only the pull asks whether it was stopped.
AfterApply(s, g, t) ==
  IF \/ t.op \notin {"pull", "sweep"}
     \/ t.refused # {}
     \/ t.op = "pull" /\ Stopped(s, g)
    THEN Idle
    ELSE [Idle EXCEPT !.op = t.op, !.step = "advance", !.upTo = t.upTo]

-----------------------------------------------------------------------------
(* The chain of the attached engine.                                       *)

\* _reconcileKinds up to its first await.  It begins with the mirror: the rows
\* noted as dirty are written again as the snapshot has them now.  One of
\* every kind then asks for the end of the log, one a nudge asked for does not.
ReadStep(op) == IF op = "sweep" THEN "max" ELSE "revs"

\* A slip Sweep avoids: the sweep of the kinds of a nudge claims the log.
SweepClaiming(s, op, refs) ==
  [Idle EXCEPT !.op = "sweep", !.refs = refs, !.step = "max"]

Sweep(s, op, refs) ==
  LET t == [Idle EXCEPT !.op = op, !.refs = refs, !.step = ReadStep(op)] IN
  IF dirty[s] = {} THEN t
    ELSE [t EXCEPT !.step = "repair", !.told = dirty[s], !.got = snapshot[s]]

\* Engine g of s takes on t; its mirror write, if t begins with one, queues up.
Begin(s, g, t) ==
  /\ Go(s, g, t)
  /\ localQ' = IF t.step = "repair"
                 THEN [localQ EXCEPT ![s] = Append(@, g)] ELSE localQ

\* A task of the chain runs when the one before it has ended.
StartSync(s, req) ==
  /\ attached[s]
  /\ req \in pending[s]
  /\ At(s, current[s], "idle")
  /\ pending' = [pending EXCEPT ![s] = @ \ {req}]
  /\ Begin(s, current[s],
       CASE req.op = "pull" ->
              [Idle EXCEPT !.op = "pull", !.step = "log", !.upTo = watermark[s]]
         [] req.op = "rows" ->
              [Idle EXCEPT !.op = "rows", !.step = "items", !.refs = req.refs]
         [] OTHER -> Sweep(s, "kinds", req.refs))
  /\ UNCHANGED <<remoteVars, snapshot, localVars, watermark, linkVars,
                 draft, view, bounds>>

\* The five-minute timer, or resync(): a full sweep, when its turn comes.
StartSweep(s) ==
  /\ s \in Sweeper
  /\ attached[s]
  /\ At(s, current[s], "idle")
  /\ Begin(s, current[s], Sweep(s, "sweep", Entity))
  /\ UNCHANGED <<remoteVars, snapshot, localVars, watermark, linkVars,
                 pending, draft, view, bounds>>

\* _pull: the entities of the change rows above the watermark.
PullLog(s, g) ==
  LET t == task[s][g]
      new == {c \in log : c.id > t.upTo}
  IN
  /\ At(s, g, "log")
  /\ Go(s, g, IF new = {} THEN Idle
              ELSE [t EXCEPT !.step = "kinds",
                             !.refs = {c.entity : c \in new},
                             !.upTo = Max({c.id : c \in new})])
  /\ UNCHANGED <<remoteVars, snapshot, localVars, watermark, linkVars,
                 pending, localQ, draft, view, bounds>>

\* A slip Suspects avoids: an absent row is always a deleted row.
SuspectNothing(s, kinds) == {}

\* The kinds that "the remote holds nothing" may be said of too early: none
\* of their rows on the remote, some of them held here.
Suspects(s, kinds) == (kinds \ HeldKinds(rows)) \cap HeldKinds(snapshot[s])

\* _remoteHoldsRowsOf, and the part of _refusedKinds before its query.
PullKinds(s, g) ==
  LET t == task[s][g]
      suspect == Suspects(s, {KindOf[e] : e \in t.refs})
  IN
  /\ At(s, g, "kinds")
  /\ Go(s, g, [t EXCEPT !.suspect = suspect,
                        !.step = IF suspect = {} THEN "items" ELSE "marker"])
  /\ UNCHANGED <<remoteVars, snapshot, localVars, watermark, linkVars,
                 pending, localQ, draft, view, bounds>>

\* A slip Differing avoids: a row the remote no longer has is left alone.
DifferingHeld(s, refs, revs) ==
  {e \in refs : Held(revs[e]) /\ revs[e].rev # snapshot[s][e].rev}

\* The candidates of a sweep: the entities whose revision differs from the one
\* held now, or that only one side has.
Differing(s, refs, revs) ==
  {e \in refs : \/ Held(revs[e]) # Held(snapshot[s][e])
                \/ revs[e].rev # snapshot[s][e].rev}

\* _remoteIsMigrated for each suspect: without its marker a kind is refused.
\* A sweep works out its candidates after that, from the revisions it has.
ReadMarkers(s, g) ==
  LET t == task[s][g]
      refused == t.suspect \ migrated
      owned == {e \in t.refs : KindOf[e] \notin refused}
      refs == IF t.op = "pull" THEN owned ELSE Differing(s, owned, t.got)
      next == [t EXCEPT !.suspect = {}, !.refused = refused, !.refs = refs,
                        !.got = Idle.got, !.step = "items"]
  IN
  /\ At(s, g, "marker")
  /\ Go(s, g, IF t.op # "pull" /\ refs = {} THEN AfterApply(s, g, next)
                                            ELSE next)
  /\ UNCHANGED <<remoteVars, snapshot, localVars, watermark, linkVars,
                 pending, localQ, draft, view, bounds>>

\* The next write of the local database is that of g.
Served(s, g) == localQ[s] # <<>> /\ Head(localQ[s]) = g

\* A slip Write avoids: it upserts and never deletes.
WriteUpserts(s, refs, got) ==
  mirror' = [mirror EXCEPT ![s] = [e \in Entity |->
               IF e \in refs /\ Held(got[e]) THEN got[e] ELSE @[e]]]

\* The local database writes what a task has for these rows.
Write(s, refs, got) ==
  mirror' = [mirror EXCEPT ![s] = [e \in Entity |->
               IF e \in refs THEN got[e] ELSE @[e]]]

\* _repairMirror: the rows land and every note is cleared, or none does.
RepairMirror(s, g) ==
  LET t == task[s][g] IN
  /\ At(s, g, "repair")
  /\ Served(s, g)
  /\ localQ' = [localQ EXCEPT ![s] = Tail(@)]
  /\ \/ /\ Write(s, t.told, t.got)
        /\ dirty' = [dirty EXCEPT ![s] = {}]
        /\ UNCHANGED faults
     \/ /\ Fault("mirror")
        /\ UNCHANGED <<mirror, dirty>>
  /\ Go(s, g, [t EXCEPT !.step = ReadStep(t.op), !.told = {},
                        !.got = Idle.got])
  /\ UNCHANGED <<remoteVars, snapshot, persisted, watermark, linkVars,
                 pending, draft, view, edits>>

\* _maxChangeId: read before the revisions.
SweepMax(s, g) ==
  /\ At(s, g, "max")
  /\ Go(s, g, [task[s][g] EXCEPT
                 !.step = "revs",
                 !.upTo = IF log = {} THEN watermark[s]
                                      ELSE Max({c.id : c \in log})])
  /\ UNCHANGED <<remoteVars, snapshot, localVars, watermark, linkVars,
                 pending, localQ, draft, view, bounds>>

\* _remoteRevisions, and _refusedKinds up to its query; with no suspect there
\* is no query, and the candidates follow at once.
SweepRevs(s, g) ==
  LET t == task[s][g]
      suspect == Suspects(s, {KindOf[e] : e \in t.refs})
      refs == Differing(s, t.refs, rows)
  IN
  /\ At(s, g, "revs")
  /\ Go(s, g,
       IF suspect # {} THEN [t EXCEPT !.suspect = suspect, !.got = rows,
                                      !.step = "marker"]
       ELSE IF refs = {} THEN AfterApply(s, g, t)
       ELSE [t EXCEPT !.refs = refs, !.step = "items"])
  /\ UNCHANGED <<remoteVars, snapshot, localVars, watermark, linkVars,
                 pending, localQ, draft, view, bounds>>

\* _readItems.
ReadItems(s, g) ==
  LET t == task[s][g] IN
  /\ At(s, g, "items")
  /\ Go(s, g, [t EXCEPT !.step = "apply",
                        !.got = [e \in Entity |->
                                   IF e \in t.refs THEN rows[e] ELSE NoItem]])
  /\ UNCHANGED <<remoteVars, snapshot, localVars, watermark, linkVars,
                 pending, localQ, draft, view, bounds>>

\* What the apply takes (fresh and removedRefs): rows that came back with
\* another revision or other content, and rows held that did not come back.
Taken(s, t) ==
  {e \in t.refs : IF Held(t.got[e])
                    THEN \/ t.got[e].val # snapshot[s][e].val
                         \/ t.got[e].rev # snapshot[s][e].rev
                    ELSE Held(snapshot[s][e])}

\* _apply after its read, and _applyRemoteState up to the mirror write.
Apply(s, g) ==
  LET t == task[s][g]
      fresh == Taken(s, t)
      told == {e \in fresh : t.got[e].val # snapshot[s][e].val}
  IN
  /\ At(s, g, "apply")
  /\ IF fresh = {} \/ Stopped(s, g)
       THEN /\ Go(s, g, AfterApply(s, g, t))
            /\ UNCHANGED <<snapshot, localQ>>
       ELSE /\ snapshot' = [snapshot EXCEPT ![s] = [e \in Entity |->
                              IF e \in fresh THEN t.got[e] ELSE @[e]]]
            /\ Go(s, g, [t EXCEPT !.step = "mirror", !.refs = fresh,
                                  !.told = told])
            /\ localQ' = [localQ EXCEPT ![s] = Append(@, g)]
  /\ UNCHANGED <<remoteVars, localVars, watermark, linkVars, pending, draft,
                 view, bounds>>

\* A slip Announce avoids: a removal is not announced.
AnnounceHeld(s, told) ==
  view' = [view EXCEPT ![s] = [e \in Entity |->
             IF e \in told /\ Held(snapshot[s][e])
               THEN snapshot[s][e].val ELSE @[e]]]

\* The change stream announces what moved; its listeners read the snapshot.
Announce(s, told) ==
  view' = [view EXCEPT ![s] = [e \in Entity |->
             IF e \in told THEN snapshot[s][e].val ELSE @[e]]]

\* A slip NoteDirty avoids: a mirror write that fails is only logged.
NoteNothing(s, refs) == dirty' = dirty

\* _markMirrorDirty: the rows to write again at the next sweep.
NoteDirty(s, refs) == dirty' = [dirty EXCEPT ![s] = @ \cup refs]

\* _writeMirror, or _markMirrorDirty when the local transaction fails; then
\* the event, which a save sends only after its nudge.
WriteMirror(s, g) ==
  LET t == task[s][g]
      nudge == t.op = "save" /\ t.refs \cap Exempt # {}
  IN
  /\ At(s, g, "mirror")
  /\ Served(s, g)
  /\ localQ' = [localQ EXCEPT ![s] = Tail(@)]
  /\ \/ Write(s, t.refs, t.got) /\ UNCHANGED <<dirty, faults>>
     \/ /\ Fault("mirror")
        /\ NoteDirty(s, t.refs)
        /\ UNCHANGED mirror
  /\ IF nudge
       THEN /\ Go(s, g, [t EXCEPT !.step = "nudge"])
            /\ UNCHANGED <<draft, view>>
       ELSE /\ Go(s, g, AfterApply(s, g, t))
            /\ Announce(s, t.told)
            /\ draft' = IF t.op = "save"
                          THEN [draft EXCEPT ![s].state = "saved"] ELSE draft
  /\ UNCHANGED <<remoteVars, snapshot, persisted, watermark, linkVars,
                 pending, edits>>

\* _advanceWatermark: never backwards; a row write that fails is dropped.  The
\* row is written behind the mirror writes that were issued before it.
Advance(s, g) ==
  LET upTo == task[s][g].upTo IN
  /\ At(s, g, "advance")
  /\ localQ[s] = <<>>
  /\ IF upTo <= watermark[s]
       THEN UNCHANGED <<watermark, persisted, faults>>
       ELSE /\ watermark' = [watermark EXCEPT ![s] = upTo]
            /\ \/ /\ persisted' = [persisted EXCEPT ![s] = upTo]
                  /\ UNCHANGED faults
               \/ /\ Fault("mirror")
                  /\ UNCHANGED persisted
  /\ Go(s, g, Idle)
  /\ UNCHANGED <<remoteVars, snapshot, mirror, dirty, linkVars, pending,
                 localQ, draft, view, edits>>

\* Slips Dropped avoids: the error poisons the chain; the attempt that failed
\* still claims the log.
DroppedPoisoned(t) == [Idle EXCEPT !.step = "mirror"]
DroppedClaiming(t) == [Idle EXCEPT !.op = t.op, !.step = "advance",
                                   !.upTo = t.upTo]

\* What is left of an attempt whose remote read failed.
Dropped(t) == Idle

\* A remote read throws: the attempt is dropped.
Abandon(s, g) ==
  /\ task[s][g].step \in {"log", "kinds", "max", "revs", "marker", "items"}
  /\ Fault("read")
  /\ Go(s, g, Dropped(task[s][g]))
  /\ UNCHANGED <<remoteVars, snapshot, localVars, watermark, linkVars,
                 pending, localQ, draft, view, edits>>

-----------------------------------------------------------------------------
(* Saves.                                                                  *)

\* An operator may create an entity again after it was deleted when its name
\* is the operator's to choose (a mapping key, a page path, a preference).
\* A generated id is new, and is made once, by one station.
MayCreate(s, e) ==
  \/ Reuse
  \/ Author[e] = s /\ Plant[e] = NoValue /\ rows[e].ver = 0

\* A caller reads the snapshot (derivedFrom) and builds wanted from it.
BeginEdit(s) ==
  /\ s \in Editor
  /\ draft[s].state # "running"
  /\ draft[s].state # "open"
  /\ edits < MaxEdits
  /\ edits' = edits + 1
  /\ \E want \in Wish :
       /\ \E e \in Entity : want[e] # snapshot[s][e].val
       /\ \A e \in Entity :
            ~Held(snapshot[s][e]) /\ want[e] # NoValue => MayCreate(s, e)
       /\ draft' = [draft EXCEPT ![s] = [state |-> "open", want |-> want,
                                         base |-> snapshot[s]]]
  /\ UNCHANGED <<remoteVars, snapshot, localVars, watermark, linkVars,
                 pending, task, localQ, view, faults>>

\* diffConfigItems(stored: base, wanted: want).
Diff(d) == {e \in Entity : d.want[e] # d.base[e].val}

\* writeItems on the chain, up to the transaction.
StartSave(s) ==
  /\ draft[s].state = "open"
  /\ attached[s]
  /\ At(s, current[s], "idle")
  /\ draft' = [draft EXCEPT ![s].state = "running"]
  /\ Go(s, current[s], [Idle EXCEPT !.op = "save", !.step = "exec",
                                    !.todo = Diff(draft[s])])
  /\ UNCHANGED <<remoteVars, snapshot, localVars, watermark, linkVars,
                 pending, localQ, view, bounds>>

\* No remote: ConfigStoreOfflineException before any work.
RefuseOffline(s) ==
  /\ draft[s].state = "open"
  /\ ~attached[s]
  /\ draft' = [draft EXCEPT ![s].state = "offline"]
  /\ UNCHANGED <<remoteVars, snapshot, localVars, watermark, linkVars,
                 pending, task, localQ, view, bounds>>

\* The order of the statements: the inserts, the updates, the deletes, each
\* by kind and id.
Phase(d, e) == CASE ~Held(d.base[e]) -> 1
                 [] Held(d.base[e]) /\ d.want[e] # NoValue -> 2
                 [] OTHER -> 3
Before(d, e, f) == \/ Phase(d, e) < Phase(d, f)
                   \/ Phase(d, e) = Phase(d, f) /\ Rank[e] < Rank[f]
IsNext(s, g, e) ==
  /\ At(s, g, "exec")
  /\ e \in task[s][g].todo
  /\ \A f \in task[s][g].todo \ {e} : Before(draft[s], e, f)

\* A row written by a transaction that has not ended.
LockedBy(s, g, e) == At(s, g, "exec") /\ e \in task[s][g].held
Blocked(s, g, e) ==
  \E r \in Station, h \in Engine : <<r, h>> # <<s, g>> /\ LockedBy(r, h, e)

\* A slip Wins avoids: the revision of the live snapshot instead of the one
\* the edit was derived from.
WinsLive(s, e) == IF ~Held(draft[s].base[e])
                    THEN ~Held(rows[e])
                    ELSE Held(rows[e]) /\ rows[e].rev = snapshot[s][e].rev

\* Another: an update or a delete that compares nothing.
WinsUnguarded(s, e) == Held(draft[s].base[e]) <=> Held(rows[e])

\* What each statement asks of the stored row: an insert that there is none,
\* an update and a delete that it is still at the revision that was read.
Wins(s, e) == IF ~Held(draft[s].base[e])
                THEN ~Held(rows[e])
                ELSE Held(rows[e]) /\ rows[e].rev = draft[s].base[e].rev

\* A slip Logged avoids: a delete leaves no change row.
LoggedUnlessDeleted(s, e) == e \notin Exempt /\ draft[s].want[e] # NoValue

\* _appendChange: the rows that leave a change row.
Logged(s, e) == e \notin Exempt

\* One statement, and its change row, which takes the next id.
ExecStatement(s, g, e) ==
  LET t == task[s][g]
      logged == Logged(s, e)
      entry == [id |-> nextId, entity |-> e, ver |-> rows[e].ver + 1,
                late |-> FALSE]
  IN
  /\ IsNext(s, g, e)
  /\ Wins(s, e)
  /\ ~Blocked(s, g, e)
  /\ nextId' = IF logged THEN nextId + 1 ELSE nextId
  /\ Go(s, g, [t EXCEPT !.todo = @ \ {e}, !.held = @ \cup {e},
                        !.entries = IF logged THEN @ \cup {entry} ELSE @])
  /\ UNCHANGED <<rows, log, migrated, snapshot, localVars, watermark,
                 linkVars, pending, localQ, draft, view, bounds>>

\* The error ends in the catch: the caller waits for ever.
RollBackUntold(s, g, why) ==
  /\ Go(s, g, Idle)
  /\ UNCHANGED <<remoteVars, snapshot, localVars, watermark, linkVars,
                 pending, localQ, draft, view, edits>>

\* The transaction rolls back, and the caller is told why.
RollBack(s, g, why) ==
  /\ Go(s, g, Idle)
  /\ draft' = [draft EXCEPT ![s].state = why]
  /\ UNCHANGED <<remoteVars, snapshot, localVars, watermark, linkVars,
                 pending, localQ, view, edits>>

\* ConfigConflict: the row is not the one that was read.  An insert asks
\* before it inserts; a row that appears in between is a unique violation.
Conflict(s, g, e) ==
  /\ IsNext(s, g, e)
  /\ ~Wins(s, e)
  /\ \E why \in {"conflict", "failed"} :
       /\ Held(draft[s].base[e]) => why = "conflict"
       /\ RollBack(s, g, why)
  /\ UNCHANGED faults

\* Postgres breaks a cycle of transactions that wait for each other.
Deadlock(s, g) ==
  /\ \E r \in Station, h \in Engine : \E d, e \in Entity :
       /\ IsNext(s, g, d) /\ LockedBy(r, h, d)
       /\ IsNext(r, h, e) /\ LockedBy(s, g, e)
  /\ RollBack(s, g, "failed")
  /\ UNCHANGED faults

\* Slips Written avoids: an update keeps the revision; a delete leaves -1.
WrittenUnbumped(d, e) ==
  [val |-> d.want[e], ver |-> rows[e].ver + 1,
   rev |-> IF d.want[e] = NoValue THEN 0 ELSE 1]
WrittenTombstone(d, e) ==
  [val |-> d.want[e], ver |-> rows[e].ver + 1,
   rev |-> IF d.want[e] = NoValue THEN -1 ELSE d.base[e].rev + 1]

\* The row a save leaves: rev 1 for an insert, the revision read plus one.
Written(d, e) ==
  [val |-> d.want[e],
   rev |-> CASE d.want[e] = NoValue -> 0
             [] d.want[e] # NoValue /\ ~Held(d.base[e]) -> 1
             [] OTHER -> d.base[e].rev + 1,
   ver |-> rows[e].ver + 1]

\* COMMIT: the rows and their change rows become visible together, and the
\* AFTER INSERT trigger notifies.
Commit(s, g) ==
  LET t == task[s][g]
      new == [e \in Entity |->
                IF e \in t.held THEN Written(draft[s], e) ELSE NoItem]
  IN
  /\ At(s, g, "exec")
  /\ t.todo = {}
  /\ rows' = [e \in Entity |-> IF e \in t.held THEN new[e] ELSE rows[e]]
  /\ log' = log \cup {[c EXCEPT !.late = \E d \in log : d.id > c.id] :
                       c \in t.entries}
  /\ pending' = IF t.entries = {} THEN pending ELSE Notified(Pull)
  /\ Go(s, g, [t EXCEPT !.step = "ack", !.refs = t.held, !.held = {},
                        !.entries = {}, !.told = t.held, !.got = new])
  /\ UNCHANGED <<nextId, migrated, snapshot, localVars, watermark, linkVars,
                 localQ, draft, view, bounds>>

\* A slip Swapped avoids: the new snapshot is made from the rows the edit was
\* derived from.
SwappedStale(s, t) == [e \in Entity |-> IF e \in t.refs THEN t.got[e]
                                                        ELSE draft[s].base[e]]

\* The snapshot, as it is now, with the rows of a task that has read or
\* committed them.
Swapped(s, t) == [e \in Entity |-> IF e \in t.refs THEN t.got[e]
                                                   ELSE snapshot[s][e]]

\* The commit is acknowledged.
Acknowledge(s, g) ==
  LET t == task[s][g] IN
  /\ At(s, g, "ack")
  /\ snapshot' = [snapshot EXCEPT ![s] = Swapped(s, t)]
  /\ Go(s, g, [t EXCEPT !.step = "mirror"])
  /\ localQ' = [localQ EXCEPT ![s] = Append(@, g)]
  /\ UNCHANGED <<remoteVars, localVars, watermark, linkVars, pending, draft,
                 view, bounds>>

\* The connection dies under the save, before COMMIT is executed or before
\* its answer arrives: isConnectionError, ConfigStoreOfflineException.
LoseLink(s, g) ==
  /\ task[s][g].step \in {"exec", "ack"}
  /\ Fault("link")
  /\ RollBack(s, g, "offline")

\* _nudgeExemptKinds: by id, or by kind when the ids do not fit; not sent
\* when the connection fails.  Then the event.
Nudge(s, g) ==
  LET t == task[s][g]
      ids == t.refs \cap Exempt
      kinds == {e \in Entity : \E d \in ids : KindOf[d] = KindOf[e]}
  IN
  /\ At(s, g, "nudge")
  /\ \/ /\ \E req \in {[op |-> "rows", refs |-> ids],
                       [op |-> "kinds", refs |-> kinds]} :
             pending' = Notified(req)
        /\ UNCHANGED faults
     \/ /\ Fault("link")
        /\ UNCHANGED pending
  /\ Announce(s, t.told)
  /\ draft' = [draft EXCEPT ![s].state = "saved"]
  /\ Go(s, g, Idle)
  /\ UNCHANGED <<remoteVars, snapshot, localVars, watermark, linkVars,
                 localQ, edits>>

-----------------------------------------------------------------------------
(* Attachment, the notification channel and the sweep timer.               *)

\* _attach: a new engine, whose chain starts with a full sweep.  Bound: the
\* engine before the last one has ended its task.
Attach(s) ==
  LET g == 3 - current[s] IN
  /\ At(s, g, "idle")
  /\ \/ ~attached[s] /\ UNCHANGED faults
     \/ attached[s] /\ Fault("detach")
  /\ attached' = [attached EXCEPT ![s] = TRUE]
  /\ current' = [current EXCEPT ![s] = g]
  /\ chan' = [chan EXCEPT ![s] = "opening"]
  /\ pending' = [pending EXCEPT ![s] = {}]
  /\ Begin(s, g, Sweep(s, "sweep", Entity))
  /\ UNCHANGED <<remoteVars, snapshot, localVars, watermark, draft, view,
                 edits>>

\* detachRemote: what is in flight goes on, what is queued never runs.
Detach(s) ==
  /\ attached[s]
  /\ Fault("detach")
  /\ attached' = [attached EXCEPT ![s] = FALSE]
  /\ chan' = [chan EXCEPT ![s] = "off"]
  /\ pending' = [pending EXCEPT ![s] = {}]
  /\ UNCHANGED <<remoteVars, snapshot, localVars, watermark, current, task,
                 localQ, draft, view, edits>>

\* LISTEN takes effect some time after the subscription was asked for.
ChannelOpen(s) ==
  /\ chan[s] = "opening"
  /\ chan' = [chan EXCEPT ![s] = "on"]
  /\ UNCHANGED <<remoteVars, snapshot, localVars, watermark, attached,
                 current, pending, task, localQ, draft, view, bounds>>

\* The notification connection dies, with what was on the wire.
ChannelDrop(s) ==
  /\ chan[s] \in {"opening", "on"}
  /\ Fault("channel")
  /\ chan' = [chan EXCEPT ![s] = "off"]
  /\ \E lost \in SUBSET pending[s] :
       pending' = [pending EXCEPT ![s] = @ \ lost]
  /\ UNCHANGED <<remoteVars, snapshot, localVars, watermark, attached,
                 current, task, localQ, draft, view, edits>>

\* The re-listen timer: open the channel again, and pull.
Relisten(s) ==
  /\ attached[s]
  /\ chan[s] = "off"
  /\ chan' = [chan EXCEPT ![s] = "opening"]
  /\ pending' = [pending EXCEPT ![s] = @ \cup {Pull}]
  /\ UNCHANGED <<remoteVars, snapshot, localVars, watermark, attached,
                 current, task, localQ, draft, view, bounds>>

-----------------------------------------------------------------------------
(* Crashes and the migration.                                              *)

\* The process dies and starts again: open() fills the snapshot and the
\* watermark from config.sqlite; what was not committed is rolled back.
Restart(s) ==
  /\ Fault("crash")
  /\ snapshot' = [snapshot EXCEPT ![s] = mirror[s]]
  /\ watermark' = [watermark EXCEPT ![s] = persisted[s]]
  /\ dirty' = [dirty EXCEPT ![s] = {}]
  /\ attached' = [attached EXCEPT ![s] = FALSE]
  /\ chan' = [chan EXCEPT ![s] = "off"]
  /\ pending' = [pending EXCEPT ![s] = {}]
  /\ task' = [task EXCEPT ![s] = [g \in Engine |-> Idle]]
  /\ localQ' = [localQ EXCEPT ![s] = <<>>]
  /\ draft' = [draft EXCEPT ![s] = NoDraft]
  /\ view' = [view EXCEPT ![s] = [e \in Entity |-> mirror[s][e].val]]
  /\ UNCHANGED <<remoteVars, mirror, persisted, current, edits>>

\* copyBlobIntoRowsLocked, run by a station on its way to an attach: the rows
\* of the blob, their change rows, and last the marker, in one transaction.
\* Bound: no row of the kind has been written yet.
Migrate(k) ==
  LET blob == {e \in OfKind(k) : Plant[e] # NoValue}
      logged == blob \ Exempt
  IN
  /\ k \notin migrated
  /\ \A e \in OfKind(k) :
       /\ rows[e].ver = 0
       /\ ~\E s \in Station, g \in Engine : LockedBy(s, g, e)
  /\ rows' = [e \in Entity |->
                IF e \in blob THEN [val |-> Plant[e], rev |-> 1, ver |-> 1]
                              ELSE rows[e]]
  /\ \E ids \in [logged -> nextId..(nextId + Cardinality(logged) - 1)] :
       /\ \A d, e \in logged : ids[d] = ids[e] => d = e
       /\ log' = log \cup
            {[id |-> ids[e], entity |-> e, ver |-> 1, late |-> FALSE] :
               e \in logged}
  /\ nextId' = nextId + Cardinality(logged)
  /\ migrated' = migrated \cup {k}
  /\ pending' = IF logged = {} THEN pending ELSE Notified(Pull)
  /\ UNCHANGED <<snapshot, localVars, watermark, linkVars, task, localQ,
                 draft, view, bounds>>

-----------------------------------------------------------------------------
\* The steps of a task, one after another until it ends.
SyncStep(s, g) ==
  \/ PullLog(s, g) \/ PullKinds(s, g) \/ ReadMarkers(s, g)
  \/ RepairMirror(s, g) \/ SweepMax(s, g) \/ SweepRevs(s, g)
  \/ ReadItems(s, g) \/ Apply(s, g) \/ WriteMirror(s, g) \/ Advance(s, g)
SaveStep(s, g) ==
  \/ \E e \in Entity : ExecStatement(s, g, e) \/ Conflict(s, g, e)
  \/ Deadlock(s, g) \/ Commit(s, g) \/ Acknowledge(s, g) \/ Nudge(s, g)
StartStep(s) ==
  \/ \E req \in pending[s] : StartSync(s, req)
  \/ StartSweep(s) \/ StartSave(s) \/ RefuseOffline(s)
LinkStep(s) ==
  Attach(s) \/ Detach(s) \/ ChannelOpen(s) \/ ChannelDrop(s)
  \/ Relisten(s)

Next ==
  \/ \E s \in Station :
       \/ BeginEdit(s) \/ StartStep(s) \/ LinkStep(s) \/ Restart(s)
       \/ \E g \in Engine : \/ SyncStep(s, g) \/ SaveStep(s, g)
                            \/ Abandon(s, g) \/ LoseLink(s, g)
  \/ \E k \in Kind : Migrate(k)

Spec == Init /\ [][Next]_vars

\* What the scheduler gives.  A step of a running task ends; a queued task
\* runs after the ones before it (the chain is a queue, hence strong fairness
\* for a start that needs the chain idle); timers fire.  Nobody has to edit,
\* to attach or to migrate, and nothing has to fail.
Fairness ==
  \A s \in Station :
    /\ WF_vars(ChannelOpen(s) \/ Relisten(s))
    /\ SF_vars(StartSync(s, Pull)) /\ SF_vars(StartSweep(s))
    /\ SF_vars(StartSave(s) \/ RefuseOffline(s))
    /\ \A g \in Engine : WF_vars(SyncStep(s, g) \/ SaveStep(s, g))

FairSpec == Spec /\ Fairness

-----------------------------------------------------------------------------
(* Properties.                                                             *)

\* Every variable has its type.
TypeOK ==
  /\ rows \in [Entity -> Item]
  /\ log \subseteq ChangeRow
  /\ nextId \in Nat
  /\ migrated \subseteq Kind
  /\ snapshot \in [Station -> [Entity -> Item]]
  /\ mirror \in [Station -> [Entity -> Item]]
  /\ dirty \in [Station -> SUBSET Entity]
  /\ watermark \in [Station -> Nat]
  /\ persisted \in [Station -> Nat]
  /\ attached \in [Station -> BOOLEAN]
  /\ current \in [Station -> Engine]
  /\ chan \in [Station -> {"off", "opening", "on"}]
  /\ pending \in [Station -> SUBSET Request]
  /\ task \in [Station -> [Engine -> Task]]
  /\ localQ \in [Station -> Seq(Engine)]
  /\ draft \in [Station -> Draft]
  /\ view \in [Station -> [Entity -> Content]]
  /\ edits \in Nat /\ faults \in Nat

\* A transaction commits only over the very rows its author read: what a
\* save has replaced or deleted so far is, until it ends, the version that
\* was in the snapshot its edit was derived from.  The compare-and-swap of
\* each statement and the row locks together give this; it is what "the lost
\* write the CAS exists to refuse" (config_store.dart, _writeItems) means.
NoLostUpdate ==
  \A s \in Station, g \in Engine : \A e \in Entity :
    LockedBy(s, g, e) /\ Held(draft[s].base[e])
      => rows[e].ver = draft[s].base[e].ver

\* A revision names one content: a row held by a station at the revision the
\* remote has is the remote's row.  The sweep (which compares revisions and
\* reads nothing else) and the compare-and-swap both rest on it.
RevTellsRowsApart ==
  \A s \in Station, e \in Entity :
    Held(rows[e]) /\ Held(snapshot[s][e]) /\ rows[e].rev = snapshot[s][e].rev
      => rows[e].val = snapshot[s][e].val

\* These items of a station are at least as new as the write of this change
\* row; a row that is gone on both sides has nothing newer to it.
Reflects(items, c) ==
  \/ items[c.entity].ver >= c.ver
  \/ ~Held(items[c.entity]) /\ ~Held(rows[c.entity])

\* The watermark claims only what was applied: every change row it has passed
\* is in the snapshot, the rows that were committed out of order aside, which
\* no watermark can see.
WatermarkClaimsApplied ==
  \A s \in Station : \A c \in log :
    c.id <= watermark[s] /\ ~c.late => Reflects(snapshot[s], c)

\* A crash does not lose what the next boot will not ask for again: a change
\* row the watermark row of config.sqlite has passed is in the mirror, or
\* noted for repair.
PersistedClaimsMirrored ==
  \A s \in Station : \A c \in log :
    c.id <= persisted[s] /\ ~c.late
      => Reflects(mirror[s], c) \/ c.entity \in dirty[s]

\* The mirror is the snapshot, except for rows noted as dirty and rows whose
\* write is on its way.
MirrorOrDirty ==
  \A s \in Station, e \in Entity :
    \/ mirror[s][e] = snapshot[s][e]
    \/ e \in dirty[s]
    \/ \E g \in Engine : At(s, g, "mirror") /\ e \in task[s][g].refs

\* Every content change the snapshot took was announced: what the listeners
\* work from is what the store serves, the event that is on its way aside.
EveryChangeAnnounced ==
  \A s \in Station, e \in Entity :
    \/ view[s][e] = snapshot[s][e].val
    \/ \E g \in Engine : /\ task[s][g].step \in {"mirror", "nudge"}
                          /\ e \in task[s][g].told

\* The history is complete and exact: an entity that is not exempt has one
\* change row for each write of its row, and no other.
HistoryComplete ==
  \A e \in Entity \ Exempt :
    {c.ver : c \in {c \in log : c.entity = e}} = 1..rows[e].ver

\* An empty remote that was never migrated empties no station: until a row of
\* the kind is written to the remote or its marker is, every station keeps
\* on disk the rows of the kind it was started with.
UnmigratedKept ==
  \A k \in Kind \ migrated :
    (\A e \in OfKind(k) : rows[e].ver = 0)
      => \A s \in Station \ Fresh, e \in OfKind(k) : mirror[s][e] = Rehomed(e)

\* "In every one of those cases nothing is committed anywhere" (writeItems in
\* config_store.dart): a save that is refused was not committed.
RefusedMeansNothingCommitted ==
  [][\A s \in Station :
       /\ draft[s].state = "running"
       /\ draft'[s].state \in {"conflict", "offline", "failed"}
       => ~\E g \in Engine : At(s, g, "ack")]_vars

\* A station that stays attached ends up serving what the remote holds, from
\* memory, in its mirror and to its listeners.
Agrees(s) == \A e \in Entity :
  /\ snapshot[s][e].val = rows[e].val
  /\ mirror[s][e] = snapshot[s][e]
  /\ view[s][e] = rows[e].val
Converges == \A s \in Station : <>[]attached[s] => <>[]Agrees(s)

\* A save that was asked for is answered: no station waits for ever behind a
\* task of its chain that failed, or behind a lock of another station's save.
SavesEnd == \A s \in Station :
  draft[s].state \in {"open", "running"} ~>
    draft[s].state \notin {"open", "running"}

-----------------------------------------------------------------------------
(* The promise.                                                            *)
Abstract == INSTANCE ReplicatedConfig WITH
  head <- [e \in Entity |-> rows[e].ver],
  seen <- [s \in Station |-> [e \in Entity |-> snapshot[s][e].ver]],
  kept <- [s \in Station |-> [e \in Entity |-> mirror[s][e].ver]]

\* Whatever the stations, the notifications and the crashes do, the store is
\* a set of replicas that only move forward and only write what they have
\* seen the newest of.
KeepsThePromise == Abstract!Spec
=============================================================================
