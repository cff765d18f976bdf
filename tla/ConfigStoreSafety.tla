------------------------- MODULE ConfigStoreSafety -------------------------
(***************************************************************************)
(* No save of a station overwrites a write it has not seen, and a revision *)
(* names one content, for any number of stations, entities, edits and      *)
(* faults: the invariants NoLostUpdate and RevTellsRowsApart of            *)
(* ConfigStore, on the condition that an id is not used again after its    *)
(* row was deleted.                                                        *)
(*                                                                         *)
(* The argument.  A revision counts the writes of its entity, in the row   *)
(* and in every copy of it that a station, its mirror, its edit or a task  *)
(* in flight holds (RowsCount, CopiesEverywhere).  So the compare-and-swap *)
(* of a statement compares counts of writes, and the lock it takes keeps   *)
(* the count until the transaction ends (LocksExclude).  A row is created  *)
(* once, by one station (CreatedOnce), hence it does begin at revision 1.  *)
(***************************************************************************)
EXTENDS ConfigStoreProofs

\* A held row was written, and its revision counts the writes of its entity.
RowsCount ==
  \A e \in Entity :
    Held(rows[e]) => rows[e].rev = rows[e].ver /\ rows[e].ver > 0

\* An item that somebody holds of an entity was its row, or the first content
\* of a kind that was still a blob: it is not newer than the row, it has the
\* content of the row when it is as new, and its revision counts writes too.
Copy(item, e) ==
  Held(item) =>
    /\ item.rev = item.ver
    /\ item.ver <= rows[e].ver
    /\ Held(rows[e]) /\ item.ver = rows[e].ver => item.val = rows[e].val
    /\ item.ver = 0 => Plant[e] # NoValue
Copies(items) == \A e \in Entity : Copy(items[e], e)

CopiesEverywhere ==
  \A s \in Station :
    /\ Copies(snapshot[s]) /\ Copies(mirror[s]) /\ Copies(draft[s].base)
    /\ \A g \in Engine : Copies(task[s][g].got)

\* A station has at most one save under way, that of its running edit.
OneSave ==
  \A s \in Station, g \in Engine :
    /\ task[s][g].step \in {"exec", "ack", "nudge"} => task[s][g].op = "save"
    /\ task[s][g].op = "save" =>
         /\ task[s][g].step \in {"exec", "ack", "mirror", "nudge"}
         /\ draft[s].state = "running"
         /\ \A h \in Engine : task[s][h].op = "save" => g = h

\* No two transactions have written the same row.
LocksExclude ==
  \A s, r \in Station, g, h \in Engine, e \in Entity :
    LockedBy(s, g, e) /\ LockedBy(r, h, e) => s = r /\ g = h

\* An entity that s may create.
Uncreated(s, e) == Author[e] = s /\ Plant[e] = NoValue /\ rows[e].ver = 0

\* What an edit is to create, or a transaction is creating, does not exist.
CreatedOnce ==
  \A s \in Station, e \in Entity : ~Held(draft[s].base[e]) =>
    /\ draft[s].state = "open" /\ draft[s].want[e] # NoValue
         => Uncreated(s, e)
    /\ \A g \in Engine :
         At(s, g, "exec") /\ e \in task[s][g].todo \cup task[s][g].held
           => Uncreated(s, e)

SafeInv ==
  /\ RowsCount /\ CopiesEverywhere /\ OneSave /\ LocksExclude
  /\ CreatedOnce /\ NoLostUpdate

-----------------------------------------------------------------------------
\* Nothing is a copy of every row.
LEMMA NothingIsCopy ==
  ASSUME NEW items, \A e \in Entity : items[e] = NoItem
  PROVE  Copies(items)
BY DEF Copies, Copy, Held, NoItem

\* What follows an apply is no save and holds nothing.
LEMMA AfterApplyIs ==
  ASSUME NEW s, NEW g, NEW t \in Task
  PROVE  /\ AfterApply(s, g, t).op # "save"
         /\ AfterApply(s, g, t).step \in {"idle", "advance"}
         /\ Copies(AfterApply(s, g, t).got)
<1>1. /\ AfterApply(s, g, t).op \in {"none", "pull", "sweep"}
      /\ AfterApply(s, g, t).step \in {"idle", "advance"}
      /\ AfterApply(s, g, t).got = Idle.got
  BY DEF AfterApply, Idle
<1>2. Copies(Idle.got)
  BY NothingIsCopy DEF Idle
<1> QED BY <1>1, <1>2

\* A step of an engine after which it is in no transaction, and which changes
\* no row of the remote, keeps the invariant when what it leaves in memory and
\* on disk are copies.
LEMMA OutsideTransaction ==
  ASSUME TypeInv, TypeInv', SafeInv, rows' = rows,
         NEW s \in Station, NEW g \in Engine,
         \A r \in Station, h \in Engine :
           r # s \/ h # g => task'[r][h] = task[r][h],
         task'[s][g].step # "exec",
         task'[s][g].step \in {"ack", "nudge"} => task'[s][g].op = "save",
         task'[s][g].op = "save" =>
           /\ task[s][g].op = "save"
           /\ task'[s][g].step \in {"ack", "mirror", "nudge"}
           /\ draft' = draft,
         \/ draft' = draft
         \/ /\ task[s][g].op = "save"
            /\ \E x \in DraftState \ {"open"} :
                 draft' = [draft EXCEPT ![s].state = x],
         Copies(task'[s][g].got),
         \A r \in Station : Copies(snapshot'[r]) /\ Copies(mirror'[r])
  PROVE  SafeInv'
<1>1. \A r \in Station :
        /\ draft'[r].base = draft[r].base /\ draft'[r].want = draft[r].want
        /\ \/ draft'[r].state = draft[r].state
           \/ /\ r = s /\ task[s][g].op = "save" /\ task'[s][g].op # "save"
              /\ draft'[r].state # "open"
  <2>1. CASE draft' = draft
    BY <2>1
  <2>2. CASE draft' # draft
    <3>1. task[s][g].op = "save" /\ task'[s][g].op # "save"
      BY <2>2
    <3>2. PICK x \in DraftState \ {"open"} :
            draft' = [draft EXCEPT ![s].state = x]
      BY <2>2
    <3>3. draft \in [Station -> Draft]
      BY DEF TypeInv, TypeOK
    <3> QED BY <3>1, <3>2, <3>3 DEF Draft
  <2> QED BY <2>1, <2>2
<1>2. \A r \in Station, h \in Engine :
        /\ task'[r][h].step = "exec" => /\ r # s \/ h # g
                                        /\ task'[r][h] = task[r][h]
        /\ task'[r][h].op = "save" => task[r][h].op = "save"
  OBVIOUS
<1>3. RowsCount'
  BY DEF SafeInv, RowsCount
<1>4. CopiesEverywhere'
  <2>1. \A r \in Station : Copies(draft'[r].base)
    BY <1>1 DEF SafeInv, CopiesEverywhere
  <2>2. \A r \in Station, h \in Engine : Copies(task'[r][h].got)
    BY DEF SafeInv, CopiesEverywhere
  <2> QED BY <2>1, <2>2 DEF CopiesEverywhere, Copies, Copy
<1>5. OneSave'
  BY <1>1, <1>2 DEF SafeInv, OneSave
<1>6. LocksExclude'
  BY <1>2 DEF SafeInv, LocksExclude, LockedBy, At
<1>7. CreatedOnce'
  BY <1>1, <1>2 DEF SafeInv, CreatedOnce, Uncreated, At
<1>8. NoLostUpdate'
  BY <1>1, <1>2 DEF SafeInv, NoLostUpdate, LockedBy, At
<1> QED BY <1>3, <1>4, <1>5, <1>6, <1>7, <1>8 DEF SafeInv

\* The beginning of a sweep holds copies, and is no save.
LEMMA SweepIs ==
  ASSUME TypeInv, SafeInv, NEW s \in Station, NEW op \in {"kinds", "sweep"},
         NEW refs
  PROVE  /\ Sweep(s, op, refs).op # "save"
         /\ Sweep(s, op, refs).step \in {"repair", "max", "revs"}
         /\ Copies(Sweep(s, op, refs).got)
<1>1. /\ Sweep(s, op, refs).op = op
      /\ Sweep(s, op, refs).step \in {"repair", "max", "revs"}
      /\ Sweep(s, op, refs).got \in {Idle.got, snapshot[s]}
  BY DEF Sweep, ReadStep, Idle
<1>2. Copies(Idle.got) /\ Copies(snapshot[s])
  BY NothingIsCopy DEF Idle, SafeInv, CopiesEverywhere
<1> QED BY <1>1, <1>2

\* An engine begins a pull, the read of a nudge, or a sweep.
LEMMA BeginIsSafe ==
  ASSUME TypeInv, TypeInv', SafeInv, NEW s \in Station, NEW g \in Engine,
         NEW t, Begin(s, g, t), t.op # "save",
         t.step \notin {"exec", "ack", "nudge"}, Copies(t.got),
         rows' = rows, snapshot' = snapshot, mirror' = mirror, draft' = draft
  PROVE  SafeInv'
<1>1. Go(s, g, t)
  BY DEF Begin
<1>2. task'[s][g] = t /\ \A r \in Station, h \in Engine :
        r # s \/ h # g => task'[r][h] = task[r][h]
  BY <1>1, GoIs
<1>3. \A r \in Station : Copies(snapshot'[r]) /\ Copies(mirror'[r])
  BY DEF SafeInv, CopiesEverywhere
<1> QED BY <1>2, <1>3, OutsideTransaction

\* A save begins: nothing is locked yet, and what is to be created is not there.
LEMMA StartSaveIsSafe ==
  ASSUME TypeInv, TypeInv', SafeInv, NEW s \in Station, StartSave(s),
         NEW g \in Engine, g = current[s]
  PROVE  SafeInv'
<1> USE DEF remoteVars, localVars, linkVars, bounds
<1>idle. Copies(Idle.got)
  BY NothingIsCopy DEF Idle
<1>0. task'[s][g] = [Idle EXCEPT !.op = "save", !.step = "exec",
                                  !.todo = Diff(draft[s])]
  BY GoIs DEF StartSave
<1>1. \A r \in Station, h \in Engine :
        r # s \/ h # g => task'[r][h] = task[r][h]
  BY GoIs DEF StartSave
<1>2. /\ task'[s][g].op = "save" /\ task'[s][g].step = "exec"
      /\ task'[s][g].held = {} /\ task'[s][g].todo = Diff(draft[s])
      /\ task'[s][g].got = Idle.got
  BY <1>0 DEF Idle
<1>3. /\ draft[s].state = "open"
      /\ \A r \in Station :
           /\ draft'[r].base = draft[r].base /\ draft'[r].want = draft[r].want
           /\ r # s => draft'[r].state = draft[r].state
      /\ draft'[s].state = "running"
  BY DEF StartSave, TypeInv, TypeOK, Draft
<1>4. rows' = rows /\ snapshot' = snapshot /\ mirror' = mirror
  BY DEF StartSave
<1>5. \A h \in Engine : task[s][h].op # "save"
  BY <1>3 DEF SafeInv, OneSave
<1>6. RowsCount'
  BY <1>4 DEF SafeInv, RowsCount
<1>7. CopiesEverywhere'
  <2>1. \A r \in Station, h \in Engine : Copies(task'[r][h].got)
    BY <1>1, <1>2, <1>idle DEF SafeInv, CopiesEverywhere
  <2>2. \A r \in Station : Copies(draft'[r].base)
    BY <1>3 DEF SafeInv, CopiesEverywhere
  <2> QED BY <1>4, <2>1, <2>2
             DEF SafeInv, CopiesEverywhere, Copies, Copy
<1>8. OneSave'
  BY <1>1, <1>2, <1>3, <1>5 DEF SafeInv, OneSave
<1>9. LocksExclude'
  BY <1>1, <1>2 DEF SafeInv, LocksExclude, LockedBy, At
<1>10. CreatedOnce'
  <2>1. \A e \in Diff(draft[s]) : ~Held(draft[s].base[e])
          => draft[s].want[e] # NoValue
    BY DEF Diff, Held
  <2> QED BY <1>1, <1>2, <1>3, <1>4, <2>1
             DEF SafeInv, CreatedOnce, Uncreated, At
<1>11. NoLostUpdate'
  BY <1>1, <1>2, <1>3, <1>4 DEF SafeInv, NoLostUpdate, LockedBy, At
<1> QED BY <1>6, <1>7, <1>8, <1>9, <1>10, <1>11 DEF SafeInv

\* The starts of the chain.
LEMMA StartsAreSafe ==
  ASSUME TypeInv, TypeInv', SafeInv, NEW s \in Station, StartStep(s)
  PROVE  SafeInv'
<1> USE DEF remoteVars, localVars, linkVars, bounds
<1>g. current[s] \in Engine
  BY DEF TypeInv, TypeOK
<1>idle. Copies(Idle.got)
  BY NothingIsCopy DEF Idle
<1>1. ASSUME NEW req \in pending[s], StartSync(s, req)
      PROVE  SafeInv'
  <2> DEFINE t == CASE req.op = "pull" ->
              [Idle EXCEPT !.op = "pull", !.step = "log", !.upTo = watermark[s]]
         [] req.op = "rows" ->
              [Idle EXCEPT !.op = "rows", !.step = "items", !.refs = req.refs]
         [] OTHER -> Sweep(s, "kinds", req.refs)
  <2>1. t.op # "save" /\ t.step \notin {"exec", "ack", "nudge"}
        /\ Copies(t.got)
    <3>1. CASE req.op = "pull"
      BY <3>1, <1>idle DEF Idle
    <3>2. CASE req.op = "rows"
      BY <3>2, <1>idle DEF Idle
    <3>3. CASE req.op \notin {"pull", "rows"}
      BY <3>3, SweepIs
    <3> QED BY <3>1, <3>2, <3>3
  <2>2. Begin(s, current[s], t) /\ rows' = rows /\ snapshot' = snapshot
        /\ mirror' = mirror /\ draft' = draft
    BY <1>1 DEF StartSync
  <2> HIDE DEF t
  <2> QED BY <1>g, <2>1, <2>2, BeginIsSafe
<1>2. CASE StartSweep(s)
  <2>1. Begin(s, current[s], Sweep(s, "sweep", Entity)) /\ rows' = rows
        /\ snapshot' = snapshot /\ mirror' = mirror /\ draft' = draft
    BY <1>2 DEF StartSweep
  <2>2. LET t == Sweep(s, "sweep", Entity) IN
          t.op # "save" /\ t.step \notin {"exec", "ack", "nudge"}
          /\ Copies(t.got)
    BY SweepIs
  <2> QED BY <1>g, <2>1, <2>2, BeginIsSafe
<1>3. CASE StartSave(s)
  BY <1>3, <1>g, StartSaveIsSafe
<1>4. CASE RefuseOffline(s)
  <2>1. /\ draft[s].state = "open"
        /\ \A r \in Station :
             /\ draft'[r].base = draft[r].base /\ draft'[r].want = draft[r].want
             /\ r # s => draft'[r].state = draft[r].state
        /\ draft'[s].state = "offline"
    BY <1>4 DEF RefuseOffline, TypeInv, TypeOK, Draft
  <2>2. rows' = rows /\ snapshot' = snapshot /\ mirror' = mirror
        /\ task' = task
    BY <1>4 DEF RefuseOffline
  <2>3. RowsCount' /\ LocksExclude'
    BY <2>2 DEF SafeInv, RowsCount, LocksExclude, LockedBy, At
  <2>4. CopiesEverywhere'
    BY <2>1, <2>2 DEF SafeInv, CopiesEverywhere, Copies, Copy
  <2>5. OneSave'
    BY <2>1, <2>2 DEF SafeInv, OneSave
  <2>6. CreatedOnce' /\ NoLostUpdate'
    BY <2>1, <2>2
       DEF SafeInv, CreatedOnce, Uncreated, NoLostUpdate, LockedBy, At
  <2> QED BY <2>3, <2>4, <2>5, <2>6 DEF SafeInv
<1> QED BY <1>1, <1>2, <1>3, <1>4 DEF StartStep

-----------------------------------------------------------------------------
(* The steps of a task of the chain.                                       *)

\* A step that only reads, and leaves a task that is no save.
LEMMA ReadIsSafe ==
  ASSUME TypeInv, TypeInv', SafeInv, NEW s \in Station, NEW g \in Engine,
         NEW t, Go(s, g, t), t.op # "save",
         t.step \notin {"exec", "ack", "nudge"}, Copies(t.got),
         rows' = rows, snapshot' = snapshot, mirror' = mirror, draft' = draft
  PROVE  SafeInv'
<1>1. task'[s][g] = t /\ \A r \in Station, h \in Engine :
        r # s \/ h # g => task'[r][h] = task[r][h]
  BY GoIs
<1>2. \A r \in Station : Copies(snapshot'[r]) /\ Copies(mirror'[r])
  BY DEF SafeInv, CopiesEverywhere
<1> QED BY <1>1, <1>2, OutsideTransaction

\* A task that has not got to its mirror write is no save.
LEMMA ReaderIsNoSave ==
  ASSUME SafeInv, NEW s \in Station, NEW g \in Engine,
         task[s][g].step \notin {"exec", "ack", "mirror", "nudge"}
  PROVE  task[s][g].op # "save"
BY DEF SafeInv, OneSave

\* The rows themselves are copies.
LEMMA RowsAreCopies ==
  ASSUME TypeInv, SafeInv, NEW refs, NEW items,
         \A e \in Entity : items[e] = IF e \in refs THEN rows[e] ELSE NoItem
  PROVE  Copies(items)
<1>1. \A e \in Entity : rows[e].ver \in Nat
  BY DEF TypeInv, TypeOK, Item
<1>2. \A e \in Entity : Copy(rows[e], e)
  BY <1>1 DEF SafeInv, RowsCount, Copy
<1>3. \A e \in Entity : Copy(NoItem, e)
  BY DEF Copy, Held, NoItem
<1> QED BY <1>2, <1>3 DEF Copies

\* A snapshot or mirror that takes some copies stays one of copies.
LEMMA TakingCopies ==
  ASSUME NEW f, \A r \in Station : Copies(f[r]), NEW got, Copies(got), NEW f1,
         \A r \in Station, e \in Entity : f1[r][e] \in {f[r][e], got[e]}
  PROVE  \A r \in Station : Copies(f1[r])
BY DEF Copies

\* The steps that only read.
LEMMA ReadsAreSafe ==
  ASSUME TypeInv, TypeInv', SafeInv, NEW s \in Station, NEW g \in Engine,
         \/ PullLog(s, g) \/ PullKinds(s, g) \/ ReadMarkers(s, g)
         \/ SweepMax(s, g) \/ SweepRevs(s, g) \/ ReadItems(s, g)
         \/ Advance(s, g) \/ Abandon(s, g)
  PROVE  SafeInv'
<1> USE DEF remoteVars, localVars, linkVars, bounds, At
<1> DEFINE t == task[s][g]
<1>t. t \in Task /\ Copies(t.got)
  BY DEF TypeInv, TypeOK, SafeInv, CopiesEverywhere
<1>idle. Idle.op # "save" /\ Idle.step = "idle" /\ Copies(Idle.got)
  BY NothingIsCopy DEF Idle
<1> HIDE DEF t
<1>go. ASSUME NEW u, Go(s, g, u), u.op # "save",
              u.step \notin {"exec", "ack", "nudge"}, Copies(u.got),
              rows' = rows, snapshot' = snapshot, mirror' = mirror,
              draft' = draft
       PROVE  SafeInv'
  BY <1>go, ReadIsSafe
<1>1. CASE PullLog(s, g)
  <2>1. t.op # "save"
    BY <1>1, ReaderIsNoSave DEF PullLog, t
  <2>2. PICK refs, upTo :
          Go(s, g, IF {c \in log : c.id > t.upTo} = {} THEN Idle
                   ELSE [t EXCEPT !.step = "kinds", !.refs = refs,
                                  !.upTo = upTo])
    BY <1>1 DEF PullLog, t
  <2>3. PICK u : Go(s, g, u) /\ u \in {Idle, [t EXCEPT !.step = "kinds",
                                      !.refs = refs, !.upTo = upTo]}
    BY <2>2
  <2>4. u.op # "save" /\ u.step \notin {"exec", "ack", "nudge"}
        /\ Copies(u.got)
    BY <1>t, <1>idle, <2>1, <2>3 DEF Task
  <2> QED BY <1>1, <2>3, <2>4, <1>go DEF PullLog
<1>2. CASE PullKinds(s, g)
  <2>1. t.op # "save"
    BY <1>2, ReaderIsNoSave DEF PullKinds, t
  <2> DEFINE suspect == Suspects(s, {KindOf[e] : e \in t.refs})
             u == [t EXCEPT !.suspect = suspect,
                            !.step = IF suspect = {} THEN "items"
                                                     ELSE "marker"]
  <2>2. Go(s, g, u)
    BY <1>2 DEF PullKinds, t
  <2>3. u.op # "save" /\ u.step \notin {"exec", "ack", "nudge"}
        /\ Copies(u.got)
    <3> HIDE DEF suspect
    <3> QED BY <1>t, <2>1 DEF Task
  <2> HIDE DEF u
  <2> QED BY <1>2, <2>2, <2>3, <1>go DEF PullKinds
<1>3. CASE ReadMarkers(s, g)
  <2>1. t.op # "save"
    BY <1>3, ReaderIsNoSave DEF ReadMarkers, t
  <2> DEFINE refused == t.suspect \ migrated
             owned == {e \in t.refs : KindOf[e] \notin refused}
             refs == IF t.op = "pull" THEN owned
                                      ELSE Differing(s, owned, t.got)
             next == [t EXCEPT !.suspect = {}, !.refused = refused,
                               !.refs = refs, !.got = Idle.got,
                               !.step = "items"]
             u == IF t.op # "pull" /\ refs = {} THEN AfterApply(s, g, next)
                                                ELSE next
  <2>2. next \in Task /\ next.op = t.op /\ next.step = "items"
        /\ next.got = Idle.got
    <3>1. /\ refused \in SUBSET Kind /\ refs \in SUBSET Entity
          /\ Idle.got \in [Entity -> Item] /\ t \in Task
      BY <1>t, RestingTypes DEF Differing, Task
    <3> HIDE DEF refused, refs, t
    <3> QED BY <3>1 DEF Task, Step
  <2>3. u.op # "save" /\ u.step \notin {"exec", "ack", "nudge"}
        /\ Copies(u.got)
    <3> HIDE DEF next, refs
    <3>1. /\ AfterApply(s, g, next).op # "save"
          /\ AfterApply(s, g, next).step \in {"idle", "advance"}
          /\ Copies(AfterApply(s, g, next).got)
      BY <2>2, AfterApplyIs
    <3> QED BY <1>idle, <2>1, <2>2, <3>1
  <2>4. Go(s, g, u)
    BY <1>3 DEF ReadMarkers, t
  <2> HIDE DEF u
  <2> QED BY <1>3, <2>3, <2>4, <1>go DEF ReadMarkers
<1>4. CASE SweepMax(s, g)
  <2>1. t.op # "save"
    BY <1>4, ReaderIsNoSave DEF SweepMax, t
  <2>2. PICK upTo : Go(s, g, [t EXCEPT !.step = "revs", !.upTo = upTo])
    BY <1>4 DEF SweepMax, t
  <2> DEFINE u == [t EXCEPT !.step = "revs", !.upTo = upTo]
  <2>3. u.op # "save" /\ u.step \notin {"exec", "ack", "nudge"}
        /\ Copies(u.got)
    BY <1>t, <2>1 DEF Task
  <2>4. Go(s, g, u)
    BY <2>2
  <2> HIDE DEF u
  <2> QED BY <1>4, <2>3, <2>4, <1>go DEF SweepMax
<1>5. CASE SweepRevs(s, g)
  <2>1. t.op # "save"
    BY <1>5, ReaderIsNoSave DEF SweepRevs, t
  <2>2. Copies(rows)
    BY RowsAreCopies
  <2>3. PICK refs, suspect :
          Go(s, g, IF suspect # {}
                     THEN [t EXCEPT !.suspect = suspect, !.got = rows,
                                    !.step = "marker"]
                   ELSE IF refs = {} THEN AfterApply(s, g, t)
                   ELSE [t EXCEPT !.refs = refs, !.step = "items"])
    BY <1>5 DEF SweepRevs, t
  <2>4. PICK u : /\ Go(s, g, u)
                 /\ u \in {[t EXCEPT !.suspect = suspect, !.got = rows,
                                     !.step = "marker"],
                           AfterApply(s, g, t),
                           [t EXCEPT !.refs = refs, !.step = "items"]}
    BY <2>3
  <2>5. u.op # "save" /\ u.step \notin {"exec", "ack", "nudge"}
        /\ Copies(u.got)
    <3>1. CASE u = [t EXCEPT !.suspect = suspect, !.got = rows,
                             !.step = "marker"]
      BY <1>t, <2>1, <2>2, <3>1 DEF Task
    <3>2. CASE u = AfterApply(s, g, t)
      <4>1. /\ AfterApply(s, g, t).op # "save"
            /\ AfterApply(s, g, t).step \in {"idle", "advance"}
            /\ Copies(AfterApply(s, g, t).got)
        BY <1>t, AfterApplyIs
      <4> QED BY <3>2, <4>1
    <3>3. CASE u = [t EXCEPT !.refs = refs, !.step = "items"]
      BY <1>t, <2>1, <3>3 DEF Task
    <3> QED BY <2>4, <3>1, <3>2, <3>3
  <2> QED BY <1>5, <2>4, <2>5, <1>go DEF SweepRevs
<1>6. CASE ReadItems(s, g)
  <2>1. t.op # "save"
    BY <1>6, ReaderIsNoSave DEF ReadItems, t
  <2> DEFINE got == [e \in Entity |-> IF e \in t.refs THEN rows[e]
                                                      ELSE NoItem]
             u == [t EXCEPT !.step = "apply", !.got = got]
  <2>2. Copies(got)
    <3>1. \A e \in Entity :
            got[e] = IF e \in t.refs THEN rows[e] ELSE NoItem
      OBVIOUS
    <3> HIDE DEF got
    <3> QED BY <3>1, RowsAreCopies
  <2>3. u.op # "save" /\ u.step \notin {"exec", "ack", "nudge"}
        /\ Copies(u.got)
    <3> HIDE DEF got
    <3> QED BY <1>t, <2>1, <2>2 DEF Task
  <2>4. Go(s, g, u)
    BY <1>6 DEF ReadItems, t
  <2> HIDE DEF u
  <2> QED BY <1>6, <2>3, <2>4, <1>go DEF ReadItems
<1>7. CASE Advance(s, g)
  <2>1. Go(s, g, Idle)
    BY <1>7 DEF Advance
  <2>2. rows' = rows /\ snapshot' = snapshot /\ mirror' = mirror
        /\ draft' = draft
    BY <1>7 DEF Advance
  <2> QED BY <1>idle, <2>1, <2>2, <1>go
<1>8. CASE Abandon(s, g)
  <2>1. Go(s, g, Idle)
    BY <1>8 DEF Abandon, Dropped
  <2>2. rows' = rows /\ snapshot' = snapshot /\ mirror' = mirror
        /\ draft' = draft
    BY <1>8 DEF Abandon
  <2> QED BY <1>idle, <2>1, <2>2, <1>go
<1> QED BY <1>1, <1>2, <1>3, <1>4, <1>5, <1>6, <1>7, <1>8

\* The steps that write the mirror, the snapshot or both.
LEMMA WritesAreSafe ==
  ASSUME TypeInv, TypeInv', SafeInv, NEW s \in Station, NEW g \in Engine,
         RepairMirror(s, g) \/ Apply(s, g) \/ WriteMirror(s, g)
  PROVE  SafeInv'
<1> USE DEF remoteVars, localVars, linkVars, bounds, At
<1> DEFINE t == task[s][g]
<1>t. t \in Task /\ Copies(t.got)
  BY DEF TypeInv, TypeOK, SafeInv, CopiesEverywhere
<1>idle. Idle.op # "save" /\ Idle.step = "idle" /\ Copies(Idle.got)
  BY NothingIsCopy DEF Idle
<1>c. /\ \A r \in Station : Copies(snapshot[r]) /\ Copies(mirror[r])
      /\ snapshot \in [Station -> [Entity -> Item]]
      /\ mirror \in [Station -> [Entity -> Item]]
  BY DEF TypeInv, TypeOK, SafeInv, CopiesEverywhere
<1> HIDE DEF t
<1>write. ASSUME NEW refs, Write(s, refs, t.got) \/ UNCHANGED mirror
          PROVE  \A r \in Station : Copies(mirror'[r])
  <2>1. CASE Write(s, refs, t.got)
    <3>1. \A r \in Station, e \in Entity :
            mirror'[r][e] \in {mirror[r][e], t.got[e]}
      BY <1>c, <2>1 DEF Write
    <3> QED BY <1>t, <1>c, <3>1, TakingCopies
  <2>2. CASE UNCHANGED mirror
    BY <1>c, <2>2
  <2> QED BY <1>write, <2>1, <2>2
<1>1. CASE RepairMirror(s, g)
  <2> DEFINE u == [t EXCEPT !.step = ReadStep(t.op), !.told = {},
                            !.got = Idle.got]
  <2>1. u.op # "save" /\ u.step \in {"max", "revs"} /\ Copies(u.got)
    <3>1. t.op # "save"
      BY <1>1, ReaderIsNoSave DEF RepairMirror, t
    <3> QED BY <1>t, <1>idle, <3>1 DEF Task, ReadStep
  <2>2. Go(s, g, u) /\ rows' = rows /\ snapshot' = snapshot /\ draft' = draft
    BY <1>1 DEF RepairMirror, t
  <2>3. \A r \in Station : Copies(snapshot'[r]) /\ Copies(mirror'[r])
    BY <1>1, <1>c, <1>write, <2>2 DEF RepairMirror, t
  <2> HIDE DEF u
  <2>4. task'[s][g] = u /\ \A r \in Station, h \in Engine :
          r # s \/ h # g => task'[r][h] = task[r][h]
    BY <2>2, GoIs
  <2> QED BY <2>1, <2>2, <2>3, <2>4, OutsideTransaction
<1>2. CASE Apply(s, g)
  <2>1. t.op # "save"
    BY <1>2, ReaderIsNoSave DEF Apply, t
  <2>2. rows' = rows /\ mirror' = mirror /\ draft' = draft
    BY <1>2 DEF Apply
  <2>3. \A r \in Station : Copies(snapshot'[r]) /\ Copies(mirror'[r])
    <3>1. CASE UNCHANGED snapshot
      BY <1>c, <2>2, <3>1
    <3>2. CASE snapshot' = [snapshot EXCEPT ![s] = [e \in Entity |->
                 IF e \in Taken(s, t) THEN t.got[e] ELSE @[e]]]
      <4>1. \A r \in Station, e \in Entity :
              snapshot'[r][e] \in {snapshot[r][e], t.got[e]}
        BY <1>c, <3>2
      <4>2. \A r \in Station : Copies(snapshot'[r])
        BY <1>t, <1>c, <4>1, TakingCopies
      <4> QED BY <1>c, <2>2, <4>2
    <3> QED BY <1>2, <3>1, <3>2 DEF Apply, t
  <2>4. PICK u : /\ Go(s, g, u) /\ u.op # "save"
                 /\ u.step \in {"idle", "advance", "mirror"}
                 /\ Copies(u.got)
    <3> DEFINE told == {e \in Taken(s, t) : t.got[e].val # snapshot[s][e].val}
               v == [t EXCEPT !.step = "mirror", !.refs = Taken(s, t),
                              !.told = told]
    <3>1. Go(s, g, AfterApply(s, g, t)) \/ Go(s, g, v)
      BY <1>2 DEF Apply, t
    <3>2. v.op # "save" /\ v.step = "mirror" /\ Copies(v.got)
      BY <1>t, <2>1 DEF Task
    <3> HIDE DEF v
    <3> QED BY <1>t, <3>1, <3>2, AfterApplyIs
  <2>5. task'[s][g] = u /\ \A r \in Station, h \in Engine :
          r # s \/ h # g => task'[r][h] = task[r][h]
    BY <2>4, GoIs
  <2> QED BY <2>2, <2>3, <2>4, <2>5, OutsideTransaction
<1>3. CASE WriteMirror(s, g)
  <2>1. rows' = rows /\ snapshot' = snapshot
    BY <1>3 DEF WriteMirror
  <2>2. \A r \in Station : Copies(snapshot'[r]) /\ Copies(mirror'[r])
    BY <1>3, <1>c, <1>write, <2>1 DEF WriteMirror, t
  <2>3. CASE t.op = "save" /\ t.refs \cap Exempt # {}
    <3>1. Go(s, g, [t EXCEPT !.step = "nudge"]) /\ draft' = draft
      BY <1>3, <2>3 DEF WriteMirror, t
    <3>2. task'[s][g] = [t EXCEPT !.step = "nudge"]
      BY <3>1, GoIs
    <3>3. \A r \in Station, h \in Engine :
            r # s \/ h # g => task'[r][h] = task[r][h]
      BY <3>1, GoIs
    <3>4. /\ task'[s][g].step = "nudge" /\ task'[s][g].op = "save"
          /\ Copies(task'[s][g].got)
      BY <1>t, <2>3, <3>2 DEF Task
    <3>5. task[s][g].op = "save"
      BY <2>3 DEF t
    <3> QED BY <2>1, <2>2, <3>1, <3>3, <3>4, <3>5, OutsideTransaction
  <2>4. CASE ~(t.op = "save" /\ t.refs \cap Exempt # {})
    <3>1. /\ Go(s, g, AfterApply(s, g, t))
          /\ draft' = IF t.op = "save" THEN [draft EXCEPT ![s].state = "saved"]
                                       ELSE draft
      BY <1>3, <2>4 DEF WriteMirror, t
    <3>2. /\ task'[s][g] = AfterApply(s, g, t)
          /\ \A r \in Station, h \in Engine :
               r # s \/ h # g => task'[r][h] = task[r][h]
      BY <3>1, GoIs
    <3>3. /\ AfterApply(s, g, t).op # "save"
          /\ AfterApply(s, g, t).step \in {"idle", "advance"}
          /\ Copies(AfterApply(s, g, t).got)
      BY <1>t, AfterApplyIs
    <3>4. \/ draft' = draft
          \/ /\ task[s][g].op = "save"
             /\ \E x \in DraftState \ {"open"} :
                  draft' = [draft EXCEPT ![s].state = x]
      BY <3>1 DEF DraftState, t
    <3> QED BY <2>1, <2>2, <3>2, <3>3, <3>4, OutsideTransaction
  <2> QED BY <2>3, <2>4
<1> QED BY <1>1, <1>2, <1>3

-----------------------------------------------------------------------------
(* The steps of a save.                                                    *)

\* A save that ends, having committed or not.
LEMMA SaveEndIsSafe ==
  ASSUME TypeInv, TypeInv', SafeInv, NEW s \in Station, NEW g \in Engine,
         task[s][g].step \in {"exec", "ack", "nudge"}, Go(s, g, Idle),
         NEW x \in DraftState \ {"open"},
         draft' = [draft EXCEPT ![s].state = x],
         rows' = rows, snapshot' = snapshot, mirror' = mirror
  PROVE  SafeInv'
<1>1. task[s][g].op = "save"
  BY DEF SafeInv, OneSave
<1>2. task'[s][g] = Idle /\ \A r \in Station, h \in Engine :
        r # s \/ h # g => task'[r][h] = task[r][h]
  BY GoIs
<1>3. Idle.op # "save" /\ Idle.step = "idle" /\ Copies(Idle.got)
  BY NothingIsCopy DEF Idle
<1>4. \A r \in Station : Copies(snapshot'[r]) /\ Copies(mirror'[r])
  BY DEF SafeInv, CopiesEverywhere
<1> QED BY <1>1, <1>2, <1>3, <1>4, OutsideTransaction

\* A statement that runs.  Its compare-and-swap won, so the row is the version
\* the edit was derived from; it was not blocked, so no other transaction has
\* written that row.
LEMMA StatementIsSafe ==
  ASSUME TypeInv, TypeInv', SafeInv, NEW s \in Station, NEW g \in Engine,
         NEW e \in Entity, ExecStatement(s, g, e)
  PROVE  SafeInv'
<1> USE DEF remoteVars, localVars, linkVars, bounds
<1> DEFINE t == task[s][g]
<1>t. t \in Task /\ Copies(t.got) /\ t.step = "exec" /\ t.op = "save"
  BY DEF TypeInv, TypeOK, SafeInv, CopiesEverywhere, OneSave, ExecStatement,
         IsNext, At
<1>e. e \in t.todo /\ Wins(s, e) /\ ~Blocked(s, g, e)
  BY DEF ExecStatement, IsNext
<1>0. PICK entries :
        Go(s, g, [t EXCEPT !.todo = @ \ {e}, !.held = @ \cup {e},
                           !.entries = entries])
  <2>1. Go(s, g, [t EXCEPT !.todo = @ \ {e}, !.held = @ \cup {e},
                   !.entries = IF Logged(s, e)
                     THEN @ \cup {[id |-> nextId, entity |-> e,
                                   ver |-> rows[e].ver + 1, late |-> FALSE]}
                     ELSE @])
    BY DEF ExecStatement
  <2> QED BY <2>1
<1> HIDE DEF t
<1>1. task'[s][g] = [t EXCEPT !.todo = @ \ {e}, !.held = @ \cup {e},
                              !.entries = entries]
  BY <1>0, GoIs
<1>2. \A r \in Station, h \in Engine :
        r # s \/ h # g => task'[r][h] = task[r][h]
  BY <1>0, GoIs
<1>3. /\ task'[s][g].step = "exec" /\ task'[s][g].op = "save"
      /\ task'[s][g].todo = t.todo \ {e} /\ task'[s][g].held = t.held \cup {e}
      /\ task'[s][g].got = t.got
  BY <1>t, <1>1 DEF Task
<1>4. rows' = rows /\ snapshot' = snapshot /\ mirror' = mirror
      /\ draft' = draft
  BY DEF ExecStatement
<1>5. RowsCount'
  BY <1>4 DEF SafeInv, RowsCount
<1>6. CopiesEverywhere'
  <2>1. \A r \in Station, h \in Engine : Copies(task'[r][h].got)
    BY <1>t, <1>2, <1>3 DEF SafeInv, CopiesEverywhere
  <2> QED BY <1>4, <2>1 DEF SafeInv, CopiesEverywhere, Copies, Copy
<1>7. OneSave'
  BY <1>t, <1>2, <1>3, <1>4 DEF SafeInv, OneSave, t
<1>8. \A r \in Station, h \in Engine, d \in Entity : LockedBy(r, h, d)' =>
        \/ LockedBy(r, h, d)
        \/ r = s /\ h = g /\ d = e
  BY <1>t, <1>2, <1>3 DEF LockedBy, At, t
<1>9. LocksExclude'
  <2>1. \A r \in Station, h \in Engine :
          LockedBy(r, h, e) => r = s /\ h = g
    BY <1>e DEF Blocked
  <2> QED BY <1>8, <2>1 DEF SafeInv, LocksExclude
<1>10. CreatedOnce'
  <2>1. \A r \in Station, h \in Engine : At(r, h, "exec")' =>
          /\ At(r, h, "exec")
          /\ (task[r][h].todo \cup task[r][h].held)'
               \subseteq task[r][h].todo \cup task[r][h].held
    BY <1>t, <1>e, <1>2, <1>3 DEF At, t
  <2> QED BY <1>4, <2>1 DEF SafeInv, CreatedOnce, Uncreated
<1>11. NoLostUpdate'
  <2>1. Held(draft[s].base[e]) => rows[e].ver = draft[s].base[e].ver
    BY <1>e DEF Wins, SafeInv, RowsCount, CopiesEverywhere, Copies, Copy
  <2> QED BY <1>4, <1>8, <2>1 DEF SafeInv, NoLostUpdate
<1> QED BY <1>5, <1>6, <1>7, <1>9, <1>10, <1>11 DEF SafeInv

\* What a transaction writes: the next version of each row, at the revision
\* that counts it.
LEMMA WrittenIs ==
  ASSUME TypeInv, SafeInv, NEW s \in Station, NEW g \in Engine,
         NEW e \in Entity, LockedBy(s, g, e)
  PROVE  /\ Written(draft[s], e).ver = rows[e].ver + 1
         /\ rows[e].ver \in Nat
         /\ Held(Written(draft[s], e)) =>
              Written(draft[s], e).rev = Written(draft[s], e).ver
<1>1. rows[e].ver \in Nat
  BY DEF TypeInv, TypeOK, Item
<1>2. CASE Held(draft[s].base[e])
  <2>1. draft[s].base[e].rev = rows[e].ver
    BY <1>2 DEF SafeInv, NoLostUpdate, CopiesEverywhere, Copies, Copy
  <2> QED BY <1>1, <1>2, <2>1 DEF Written, Held
<1>3. CASE ~Held(draft[s].base[e])
  <2>1. rows[e].ver = 0
    BY <1>3 DEF SafeInv, CreatedOnce, Uncreated, LockedBy
  <2> QED BY <1>1, <1>3, <2>1 DEF Written, Held
<1> QED BY <1>1, <1>2, <1>3

\* COMMIT.  The rows written are locked by this transaction alone, so nothing
\* else that is under way was derived from them; whoever still holds one of
\* them holds a version that is now behind.
LEMMA CommitIsSafe ==
  ASSUME TypeInv, TypeInv', SafeInv, NEW s \in Station, NEW g \in Engine,
         Commit(s, g)
  PROVE  SafeInv'
<1> USE DEF remoteVars, localVars, linkVars, bounds
<1> DEFINE t == task[s][g]
           new == [e \in Entity |->
                     IF e \in t.held THEN Written(draft[s], e) ELSE NoItem]
<1>t. t \in Task /\ t.step = "exec" /\ t.op = "save"
      /\ draft[s].state = "running"
  BY DEF TypeInv, TypeOK, SafeInv, OneSave, Commit, At
<1>w. \A e \in t.held : /\ LockedBy(s, g, e)
                        /\ new[e].ver = rows[e].ver + 1
                        /\ rows[e].ver \in Nat
                        /\ Held(new[e]) => new[e].rev = new[e].ver
  <2> SUFFICES ASSUME NEW e \in t.held
               PROVE  /\ LockedBy(s, g, e)
                      /\ new[e].ver = rows[e].ver + 1
                      /\ rows[e].ver \in Nat
                      /\ Held(new[e]) => new[e].rev = new[e].ver
    OBVIOUS
  <2>1. e \in Entity /\ LockedBy(s, g, e)
    BY <1>t DEF Task, LockedBy, At
  <2>2. new[e] = Written(draft[s], e)
    BY <2>1
  <2> QED BY <2>1, <2>2, WrittenIs
<1>n. \A e \in Entity \ t.held : new[e] = NoItem
  OBVIOUS
<1>0. Go(s, g, [t EXCEPT !.step = "ack", !.refs = t.held, !.held = {},
                         !.entries = {}, !.told = t.held, !.got = new])
  BY DEF Commit
<1>r. \A e \in Entity : rows'[e] = IF e \in t.held THEN new[e] ELSE rows[e]
  BY DEF Commit
<1>u. snapshot' = snapshot /\ mirror' = mirror /\ draft' = draft
  BY DEF Commit
<1> HIDE DEF t, new
<1>1. task'[s][g] = [t EXCEPT !.step = "ack", !.refs = t.held, !.held = {},
                              !.entries = {}, !.told = t.held, !.got = new]
  BY <1>0, GoIs
<1>2. \A r \in Station, h \in Engine :
        r # s \/ h # g => task'[r][h] = task[r][h]
  BY <1>0, GoIs
<1>3. /\ task'[s][g].step = "ack" /\ task'[s][g].op = "save"
      /\ task'[s][g].got = new
  BY <1>t, <1>1 DEF Task
<1>4. RowsCount'
  BY <1>r, <1>w DEF SafeInv, RowsCount
<1>5. \A item \in Item, e \in Entity : Copy(item, e) => Copy(item, e)'
  BY <1>r, <1>w DEF Copy, Item
<1>6. CopiesEverywhere'
  <2>1. Copies(task[s][g].got)'
    <3>1. \A e \in Entity : task'[s][g].got[e] = rows'[e]
                           \/ task'[s][g].got[e] = NoItem
      BY <1>3, <1>n, <1>r
    <3>2. \A e \in Entity : rows'[e].ver \in Nat
      BY DEF TypeInv, TypeOK, Item
    <3> QED BY <1>4, <3>1, <3>2 DEF RowsCount, Copies, Copy, Held, NoItem
  <2>2. \A r \in Station, e \in Entity :
          /\ snapshot[r][e] \in Item /\ mirror[r][e] \in Item
          /\ draft[r].base[e] \in Item
          /\ \A h \in Engine : task[r][h].got[e] \in Item
    <3>1. \A r \in Station, h \in Engine :
            draft[r] \in Draft /\ task[r][h] \in Task
      BY DEF TypeInv, TypeOK
    <3>2. /\ \A d \in Draft : d.base \in [Entity -> Item]
          /\ \A u \in Task : u.got \in [Entity -> Item]
      BY DEF Draft, Task
    <3> QED BY <3>1, <3>2 DEF TypeInv, TypeOK
  <2>3. \A r \in Station : (Copies(snapshot[r]) /\ Copies(mirror[r])
                            /\ Copies(draft[r].base))'
    BY <1>5, <1>u, <2>2 DEF SafeInv, CopiesEverywhere, Copies
  <2>4. \A r \in Station, h \in Engine :
          r # s \/ h # g => Copies(task[r][h].got)'
    BY <1>5, <1>2, <2>2 DEF SafeInv, CopiesEverywhere, Copies
  <2> QED BY <2>1, <2>3, <2>4 DEF CopiesEverywhere
<1>7. OneSave'
  BY <1>t, <1>2, <1>3, <1>u DEF SafeInv, OneSave, t
<1>8. \A r \in Station, h \in Engine, e \in Entity : LockedBy(r, h, e)' =>
        LockedBy(r, h, e) /\ e \notin t.held
  <2>1. \A r \in Station, h \in Engine, e \in Entity : LockedBy(r, h, e)' =>
          LockedBy(r, h, e) /\ (r # s \/ h # g)
    BY <1>2, <1>3 DEF LockedBy, At
  <2> QED BY <1>w, <2>1 DEF SafeInv, LocksExclude
<1>9. LocksExclude'
  BY <1>8 DEF SafeInv, LocksExclude
<1>10. CreatedOnce'
  <2> SUFFICES ASSUME NEW r \in Station, NEW e \in Entity,
                      ~Held(draft[r].base[e]),
                      \/ draft[r].state = "open" /\ draft[r].want[e] # NoValue
                      \/ \E h \in Engine :
                           At(r, h, "exec")'
                           /\ e \in (task[r][h].todo \cup task[r][h].held)'
               PROVE  Uncreated(r, e)'
    BY <1>u DEF CreatedOnce
  <2>1. Uncreated(r, e) /\ r # s
    BY <1>t, <1>2, <1>3 DEF SafeInv, CreatedOnce, OneSave, At, t
  <2>2. e \notin t.held
    <3> SUFFICES ASSUME e \in t.held PROVE FALSE
      OBVIOUS
    <3>1. CASE Held(draft[s].base[e])
      BY <1>w, <2>1, <3>1 DEF Uncreated, SafeInv, NoLostUpdate,
         CopiesEverywhere, Copies, Copy
    <3>2. CASE ~Held(draft[s].base[e])
      BY <1>w, <2>1, <3>2 DEF Uncreated, SafeInv, CreatedOnce, LockedBy
    <3> QED BY <3>1, <3>2
  <2> QED BY <1>r, <2>1, <2>2 DEF Uncreated
<1>11. NoLostUpdate'
  BY <1>8, <1>r, <1>u DEF SafeInv, NoLostUpdate
<1> QED BY <1>4, <1>6, <1>7, <1>9, <1>10, <1>11 DEF SafeInv

\* The steps of a save, and the link that dies under it.
LEMMA SaveIsSafe ==
  ASSUME TypeInv, TypeInv', SafeInv, NEW s \in Station, NEW g \in Engine,
         SaveStep(s, g) \/ LoseLink(s, g)
  PROVE  SafeInv'
<1> USE DEF remoteVars, localVars, linkVars, bounds, At
<1>end. ASSUME NEW why \in DraftState \ {"open"}, RollBack(s, g, why),
               task[s][g].step \in {"exec", "ack"}
        PROVE  SafeInv'
  BY <1>end, SaveEndIsSafe DEF RollBack
<1>1. ASSUME NEW e \in Entity, ExecStatement(s, g, e) PROVE SafeInv'
  BY <1>1, StatementIsSafe
<1>2. ASSUME NEW e \in Entity, Conflict(s, g, e) PROVE SafeInv'
  BY <1>2, <1>end DEF Conflict, IsNext, DraftState
<1>3. CASE Deadlock(s, g)
  BY <1>3, <1>end DEF Deadlock, IsNext, DraftState
<1>4. CASE Commit(s, g)
  BY <1>4, CommitIsSafe
<1>5. CASE Acknowledge(s, g)
  <2> DEFINE t == task[s][g]
             u == [t EXCEPT !.step = "mirror"]
  <2>1. t \in Task /\ Copies(t.got) /\ t.op = "save"
    BY <1>5 DEF Acknowledge, TypeInv, TypeOK, SafeInv, CopiesEverywhere,
                OneSave
  <2>2. Go(s, g, u) /\ rows' = rows /\ mirror' = mirror /\ draft' = draft
        /\ snapshot' = [snapshot EXCEPT ![s] = Swapped(s, t)]
    BY <1>5 DEF Acknowledge
  <2>3. \A r \in Station : Copies(snapshot[r]) /\ Copies(mirror[r])
    BY DEF SafeInv, CopiesEverywhere
  <2>4. \A r \in Station, e \in Entity :
          snapshot'[r][e] \in {snapshot[r][e], t.got[e]}
    <3>1. snapshot \in [Station -> [Entity -> Item]]
      BY DEF TypeInv, TypeOK
    <3> QED BY <2>2, <3>1 DEF Swapped
  <2> HIDE DEF t
  <2>5. \A r \in Station : Copies(snapshot'[r]) /\ Copies(mirror'[r])
    <3>1. \A r \in Station : Copies(snapshot'[r])
      BY <2>1, <2>3, <2>4, TakingCopies
    <3> QED BY <2>2, <2>3, <3>1
  <2>6. u.step = "mirror" /\ u.op = "save" /\ Copies(u.got)
    BY <2>1 DEF Task
  <2> HIDE DEF u
  <2>7. task'[s][g] = u /\ \A r \in Station, h \in Engine :
          r # s \/ h # g => task'[r][h] = task[r][h]
    BY <2>2, GoIs
  <2>8. task[s][g].op = "save"
    BY <2>1 DEF t
  <2> QED BY <2>2, <2>5, <2>6, <2>7, <2>8, OutsideTransaction
<1>6. CASE Nudge(s, g)
  BY <1>6, SaveEndIsSafe DEF Nudge, DraftState
<1>7. CASE LoseLink(s, g)
  BY <1>7, <1>end DEF LoseLink, DraftState
<1> QED BY <1>1, <1>2, <1>3, <1>4, <1>5, <1>6, <1>7 DEF SaveStep

-----------------------------------------------------------------------------
(* The rest of a station's life.                                           *)

\* What leaves the rows, the copies, the tasks and the edits alone.
LEMMA NothingMoves ==
  ASSUME SafeInv, rows' = rows, snapshot' = snapshot, mirror' = mirror,
         draft' = draft, task' = task
  PROVE  SafeInv'
<1>1. RowsCount' /\ OneSave'
  BY DEF SafeInv, RowsCount, OneSave
<1>2. CopiesEverywhere'
  BY DEF SafeInv, CopiesEverywhere, Copies, Copy
<1>3. LocksExclude' /\ NoLostUpdate' /\ CreatedOnce'
  BY DEF SafeInv, LocksExclude, NoLostUpdate, CreatedOnce, Uncreated,
         LockedBy, At
<1> QED BY <1>1, <1>2, <1>3 DEF SafeInv

\* The attachment and its channel.
LEMMA LinksAreSafe ==
  ASSUME TypeInv, TypeInv', SafeInv, NEW s \in Station, LinkStep(s)
  PROVE  SafeInv'
<1> USE DEF remoteVars, localVars, linkVars, bounds
<1>1. CASE Attach(s)
  <2>1. 3 - current[s] \in Engine
    <3>1. current[s] \in {1, 2}
      BY DEF Engine, TypeInv, TypeOK
    <3> QED BY <3>1 DEF Engine
  <2>2. Begin(s, 3 - current[s], Sweep(s, "sweep", Entity)) /\ rows' = rows
        /\ snapshot' = snapshot /\ mirror' = mirror /\ draft' = draft
    BY <1>1 DEF Attach
  <2>3. LET t == Sweep(s, "sweep", Entity) IN
          t.op # "save" /\ t.step \notin {"exec", "ack", "nudge"}
          /\ Copies(t.got)
    BY SweepIs
  <2> QED BY <2>1, <2>2, <2>3, BeginIsSafe
<1>2. CASE Detach(s)
  BY <1>2, NothingMoves DEF Detach
<1>3. CASE ChannelOpen(s)
  BY <1>3, NothingMoves DEF ChannelOpen
<1>4. CASE ChannelDrop(s)
  BY <1>4, NothingMoves DEF ChannelDrop
<1>5. CASE Relisten(s)
  BY <1>5, NothingMoves DEF Relisten
<1> QED BY <1>1, <1>2, <1>3, <1>4, <1>5 DEF LinkStep

\* An edit is derived from the snapshot; what it creates was never there.
LEMMA EditIsSafe ==
  ASSUME TypeInv, TypeInv', SafeInv, ~Reuse, NEW s \in Station, BeginEdit(s)
  PROVE  SafeInv'
<1> USE DEF remoteVars, localVars, linkVars, bounds
<1>1. PICK want \in Wish :
        /\ \A e \in Entity : ~Held(snapshot[s][e]) /\ want[e] # NoValue
                               => Uncreated(s, e)
        /\ draft' = [draft EXCEPT ![s] = [state |-> "open", want |-> want,
                                          base |-> snapshot[s]]]
  BY DEF BeginEdit, MayCreate, Uncreated
<1>2. /\ draft'[s].state = "open" /\ draft'[s].want = want
      /\ draft'[s].base = snapshot[s]
      /\ \A r \in Station \ {s} : draft'[r] = draft[r]
  BY <1>1 DEF TypeInv, TypeOK
<1>3. rows' = rows /\ snapshot' = snapshot /\ mirror' = mirror /\ task' = task
  BY DEF BeginEdit
<1>4. \A g \in Engine : task[s][g].op # "save" /\ ~At(s, g, "exec")
  BY DEF BeginEdit, SafeInv, OneSave, At
<1>5. RowsCount'
  BY <1>3 DEF SafeInv, RowsCount
<1>6. CopiesEverywhere'
  <2>1. \A r \in Station : Copies(draft'[r].base)
    BY <1>2 DEF SafeInv, CopiesEverywhere
  <2> QED BY <1>3, <2>1 DEF SafeInv, CopiesEverywhere, Copies, Copy
<1>7. OneSave'
  BY <1>2, <1>3, <1>4 DEF SafeInv, OneSave
<1>8. LocksExclude'
  BY <1>3 DEF SafeInv, LocksExclude, LockedBy, At
<1>9. CreatedOnce'
  BY <1>1, <1>2, <1>3, <1>4 DEF SafeInv, CreatedOnce, Uncreated, At
<1>10. NoLostUpdate'
  BY <1>2, <1>3, <1>4 DEF SafeInv, NoLostUpdate, LockedBy, At
<1> QED BY <1>5, <1>6, <1>7, <1>8, <1>9, <1>10 DEF SafeInv

\* A process that dies takes its transaction and its edit with it.
LEMMA RestartIsSafe ==
  ASSUME TypeInv, TypeInv', SafeInv, NEW s \in Station, Restart(s)
  PROVE  SafeInv'
<1> USE DEF remoteVars, localVars, linkVars, bounds
<1>idle. /\ Idle.op = "none" /\ Idle.step = "idle" /\ Copies(Idle.got)
         /\ NoDraft.state = "none" /\ Copies(NoDraft.base)
  BY NothingIsCopy DEF Idle, NoDraft
<1>1. /\ \A g \in Engine : task'[s][g] = Idle
      /\ \A r \in Station \ {s}, g \in Engine : task'[r][g] = task[r][g]
  BY DEF Restart, TypeInv, TypeOK
<1>2. /\ draft'[s] = NoDraft
      /\ \A r \in Station \ {s} : draft'[r] = draft[r]
  BY DEF Restart, TypeInv, TypeOK
<1>3. /\ snapshot'[s] = mirror[s]
      /\ \A r \in Station \ {s} : snapshot'[r] = snapshot[r]
  BY DEF Restart, TypeInv, TypeOK
<1>4. rows' = rows /\ mirror' = mirror
  BY DEF Restart
<1>5. RowsCount'
  BY <1>4 DEF SafeInv, RowsCount
<1>6. CopiesEverywhere'
  <2>1. \A r \in Station : Copies(draft'[r].base) /\ Copies(snapshot'[r])
    BY <1>idle, <1>2, <1>3 DEF SafeInv, CopiesEverywhere
  <2>2. \A r \in Station, g \in Engine : Copies(task'[r][g].got)
    BY <1>idle, <1>1 DEF SafeInv, CopiesEverywhere
  <2> QED BY <1>4, <2>1, <2>2 DEF SafeInv, CopiesEverywhere, Copies, Copy
<1>7. OneSave'
  BY <1>idle, <1>1, <1>2 DEF SafeInv, OneSave
<1>8. LocksExclude'
  BY <1>idle, <1>1 DEF SafeInv, LocksExclude, LockedBy, At
<1>9. CreatedOnce'
  BY <1>idle, <1>1, <1>2, <1>4 DEF SafeInv, CreatedOnce, Uncreated, At
<1>10. NoLostUpdate'
  BY <1>idle, <1>1, <1>2, <1>4 DEF SafeInv, NoLostUpdate, LockedBy, At
<1> QED BY <1>5, <1>6, <1>7, <1>8, <1>9, <1>10 DEF SafeInv

\* The first copy of a kind into rows: nothing has been written of it, and
\* what anybody holds of it is the blob, at revision 0.
LEMMA MigrateIsSafe ==
  ASSUME TypeInv, TypeInv', SafeInv, NEW k \in Kind, Migrate(k)
  PROVE  SafeInv'
<1> USE DEF remoteVars, localVars, linkVars, bounds
<1> DEFINE blob == {e \in OfKind(k) : Plant[e] # NoValue}
<1>1. \A e \in blob : /\ Plant[e] # NoValue /\ rows[e].ver = 0
                      /\ \A s \in Station, g \in Engine : ~LockedBy(s, g, e)
  BY DEF Migrate
<1>2. \A e \in Entity :
        /\ e \in blob => /\ rows'[e].val = Plant[e]
                         /\ rows'[e].rev = 1 /\ rows'[e].ver = 1
        /\ e \notin blob => rows'[e] = rows[e]
  <2>1. \A e \in Entity : rows'[e] =
          IF e \in blob THEN [val |-> Plant[e], rev |-> 1, ver |-> 1]
                        ELSE rows[e]
    BY DEF Migrate
  <2> DEFINE first(e) == [val |-> Plant[e], rev |-> 1, ver |-> 1]
  <2>2. \A e \in Entity : /\ first(e).val = Plant[e]
                          /\ first(e).rev = 1 /\ first(e).ver = 1
    OBVIOUS
  <2>3. \A e \in Entity : /\ e \in blob => rows'[e] = first(e)
                          /\ e \notin blob => rows'[e] = rows[e]
    BY <2>1
  <2> HIDE DEF blob, first
  <2> QED BY <2>2, <2>3
<1>3. /\ snapshot' = snapshot /\ mirror' = mirror /\ draft' = draft
      /\ task' = task
  BY DEF Migrate
<1> HIDE DEF blob
<1>4. RowsCount'
  BY <1>1, <1>2 DEF SafeInv, RowsCount, Held
<1>5. \A item \in Item, e \in Entity : Copy(item, e) => Copy(item, e)'
  BY <1>1, <1>2 DEF Copy, Item
<1>6. CopiesEverywhere'
  <2>1. \A r \in Station, e \in Entity :
          /\ snapshot[r][e] \in Item /\ mirror[r][e] \in Item
          /\ draft[r].base[e] \in Item
          /\ \A h \in Engine : task[r][h].got[e] \in Item
    <3>1. \A r \in Station, h \in Engine :
            draft[r] \in Draft /\ task[r][h] \in Task
      BY DEF TypeInv, TypeOK
    <3>2. /\ \A d \in Draft : d.base \in [Entity -> Item]
          /\ \A u \in Task : u.got \in [Entity -> Item]
      BY DEF Draft, Task
    <3> QED BY <3>1, <3>2 DEF TypeInv, TypeOK
  <2> QED BY <1>3, <1>5, <2>1 DEF SafeInv, CopiesEverywhere, Copies
<1>7. OneSave' /\ LocksExclude'
  BY <1>3 DEF SafeInv, OneSave, LocksExclude, LockedBy, At
<1>8. CreatedOnce'
  BY <1>1, <1>2, <1>3 DEF SafeInv, CreatedOnce, Uncreated, At
<1>9. NoLostUpdate'
  BY <1>1, <1>2, <1>3 DEF SafeInv, NoLostUpdate, LockedBy, At
<1> QED BY <1>4, <1>6, <1>7, <1>8, <1>9 DEF SafeInv

\* The plant at its start: what is in rows was written once, what is still a
\* blob was not, and nothing is under way.
LEMMA InitIsSafe == Init => SafeInv
<1> SUFFICES ASSUME Init PROVE SafeInv
  OBVIOUS
<1>1. /\ \A e \in Entity : rows[e] = FirstRow(e)
      /\ \A s \in Station, e \in Entity :
           snapshot[s][e] \in {NoItem, Rehomed(e)} /\ mirror[s][e] = snapshot[s][e]
      /\ \A s \in Station : draft[s] = NoDraft
      /\ \A s \in Station, g \in Engine : task[s][g] = Idle
  BY DEF Init
<1>f. \A e \in Entity :
        \/ FirstRow(e) = NoItem
        \/ /\ FirstRow(e).val = Plant[e] /\ KindOf[e] \in Rowed
           /\ FirstRow(e).rev = 1 /\ FirstRow(e).ver = 1
  BY DEF FirstRow
<1>z. NoItem.val = NoValue /\ NoItem.rev = 0 /\ NoItem.ver = 0
  BY DEF NoItem
<1>2. RowsCount
  BY <1>1, <1>f, <1>z DEF RowsCount, Held
<1>3. CopiesEverywhere
  <2>1. \A e \in Entity : Copy(Rehomed(e), e) /\ Copy(NoItem, e)
    <3>1. \A e \in Entity :
            \/ Rehomed(e) = FirstRow(e)
            \/ /\ Rehomed(e).val = Plant[e] /\ KindOf[e] \notin Rowed
               /\ Rehomed(e).rev = 0 /\ Rehomed(e).ver = 0
      BY DEF Rehomed
    <3>2. \A e \in Entity : KindOf[e] \notin Rowed => FirstRow(e) = NoItem
      BY DEF FirstRow
    <3> QED BY <1>1, <1>f, <1>z, <3>1, <3>2 DEF Copy, Held
  <2>2. Copies(NoDraft.base) /\ Copies(Idle.got)
    BY NothingIsCopy DEF NoDraft, Idle
  <2> QED BY <1>1, <2>1, <2>2 DEF CopiesEverywhere, Copies
<1>4. OneSave /\ LocksExclude /\ CreatedOnce /\ NoLostUpdate
  BY <1>1 DEF OneSave, LocksExclude, CreatedOnce, NoLostUpdate, LockedBy, At,
              Idle, NoDraft
<1> QED BY <1>2, <1>3, <1>4 DEF SafeInv

\* Every step keeps the invariant.
LEMMA SafeStep ==
  ASSUME TypeInv, TypeInv', SafeInv, ~Reuse, [Next]_vars
  PROVE  SafeInv'
<1>1. ASSUME NEW s \in Station, NEW g \in Engine, SyncStep(s, g)
      PROVE  SafeInv'
  BY <1>1, ReadsAreSafe, WritesAreSafe DEF SyncStep
<1>2. ASSUME NEW s \in Station, NEW g \in Engine,
             SaveStep(s, g) \/ Abandon(s, g) \/ LoseLink(s, g)
      PROVE  SafeInv'
  BY <1>2, SaveIsSafe, ReadsAreSafe
<1>3. ASSUME NEW s \in Station,
             BeginEdit(s) \/ StartStep(s) \/ LinkStep(s) \/ Restart(s)
      PROVE  SafeInv'
  BY <1>3, EditIsSafe, StartsAreSafe, LinksAreSafe, RestartIsSafe
<1>4. ASSUME NEW k \in Kind, Migrate(k) PROVE SafeInv'
  BY <1>4, MigrateIsSafe
<1>5. CASE UNCHANGED vars
  BY <1>5, NothingMoves DEF vars, remoteVars, localVars
<1> QED BY <1>1, <1>2, <1>3, <1>4, <1>5 DEF Next

\* As long as ids are not used again, the invariant always holds.
THEOREM SafeInvariant == ASSUME ~Reuse PROVE Spec => []SafeInv
<1>1. Init => SafeInv
  BY InitIsSafe
<1>2. TypeInv /\ TypeInv' /\ SafeInv /\ [Next]_vars => SafeInv'
  BY SafeStep
<1> QED BY <1>1, <1>2, TypesInvariant, PTL DEF Spec

\* A save never overwrites or deletes a version its author has not read,
\* whatever the interleaving of transactions, syncs, detaches and crashes:
\* the compare-and-swap of writeItems does what it exists to do.
THEOREM NoUpdateIsLost == ASSUME ~Reuse PROVE Spec => []NoLostUpdate
<1>1. SafeInv => NoLostUpdate
  BY DEF SafeInv
<1> QED BY <1>1, SafeInvariant, PTL

\* Two rows of one entity at one revision have one content, so the sweep,
\* which compares revisions and nothing else, misses no difference.
THEOREM RevisionsTellRowsApart ==
  ASSUME ~Reuse PROVE Spec => []RevTellsRowsApart
<1>1. SafeInv => RevTellsRowsApart
  BY DEF SafeInv, RowsCount, CopiesEverywhere, Copies, Copy,
         RevTellsRowsApart
<1> QED BY <1>1, SafeInvariant, PTL

-----------------------------------------------------------------------------
(***************************************************************************)
(* The store keeps the promise of ReplicatedConfig, for any number of      *)
(* stations, entities, edits and faults: every step of ConfigStore is a    *)
(* step of the abstract replicas or changes nothing of them.  On two       *)
(* conditions: an id is not used again after its row was deleted, and      *)
(* nobody detaches a station or attaches it elsewhere while it runs.       *)
(*                                                                         *)
(* The argument.  A station has one task at a time (SoleTask), so between  *)
(* the read of a row and its apply nothing else moves the snapshot: what   *)
(* the task has in hand is at least as new as what it replaces (InHand),   *)
(* and the disk is behind the memory, the memory behind the remote         *)
(* (Forward).  A statement of a save that won its compare-and-swap has the *)
(* version its edit was derived from under lock (NoLostUpdate), and that   *)
(* one is not newer than the snapshot: the author has seen the newest.     *)
(***************************************************************************)

NoDetach == "detach" \notin Faults

\* Only the attached engine of an attached station is in the middle of a task.
SoleTask ==
  \A s \in Station, g \in Engine :
    ~At(s, g, "idle") => attached[s] /\ g = current[s]

\* Disk, memory, remote: each has seen at most what the next one has; an edit
\* was derived from what the memory has seen.
Forward ==
  \A s \in Station, e \in Entity :
    /\ mirror[s][e].ver <= snapshot[s][e].ver
    /\ snapshot[s][e].ver <= rows[e].ver
    /\ draft[s].base[e].ver <= snapshot[s][e].ver

\* What a task of s is about to apply, or to write to the mirror.
InHand(s, t) ==
  /\ t.step \in {"apply", "ack"} => \A e \in t.refs :
       snapshot[s][e].ver <= t.got[e].ver /\ t.got[e].ver <= rows[e].ver
  /\ t.step = "mirror" => \A e \in t.refs :
       t.got[e].ver = snapshot[s][e].ver
  /\ t.step = "repair" => \A e \in t.told :
       t.got[e].ver = snapshot[s][e].ver

PromiseInv ==
  /\ SoleTask /\ Forward
  /\ \A s \in Station, g \in Engine : InHand(s, task[s][g])

\* A step that keeps the invariant and is one of the replicas, or no step of
\* theirs.
Kept == PromiseInv' /\ (Abstract!Next \/ UNCHANGED Abstract!vars)

-----------------------------------------------------------------------------
\* Versions are numbers, and what a task has of refs and told are entities.
LEMMA Versions ==
  ASSUME TypeInv
  PROVE  /\ \A e \in Entity : rows[e].ver \in Nat
         /\ \A s \in Station, e \in Entity :
              /\ snapshot[s][e].ver \in Nat /\ mirror[s][e].ver \in Nat
              /\ draft[s].base[e].ver \in Nat
         /\ \A s \in Station, g \in Engine :
              /\ task[s][g] \in Task
              /\ task[s][g].refs \subseteq Entity
              /\ task[s][g].told \subseteq Entity
              /\ task[s][g].held \subseteq Entity
              /\ \A e \in Entity : task[s][g].got[e].ver \in Nat
<1>1. /\ \A s \in Station : draft[s] \in Draft
      /\ \A s \in Station, g \in Engine : task[s][g] \in Task
  BY DEF TypeInv, TypeOK
<1>2. \A d \in Draft, e \in Entity : d.base[e].ver \in Nat
  BY DEF Draft, Item
<1>3. \A t \in Task : /\ t.refs \subseteq Entity /\ t.told \subseteq Entity
                      /\ t.held \subseteq Entity
                      /\ \A e \in Entity : t.got[e].ver \in Nat
  <2>1. \A t \in Task : /\ t.refs \in SUBSET Entity
                        /\ t.told \in SUBSET Entity
                        /\ t.held \in SUBSET Entity
                        /\ t.got \in [Entity -> Item]
    BY DEF Task
  <2>2. \A got \in [Entity -> Item], e \in Entity : got[e].ver \in Nat
    BY DEF Item
  <2> QED BY <2>1, <2>2
<1>4. /\ \A e \in Entity : rows[e].ver \in Nat
      /\ \A s \in Station, e \in Entity :
           snapshot[s][e].ver \in Nat /\ mirror[s][e].ver \in Nat
  BY DEF TypeInv, TypeOK, Item
<1>5. \A s \in Station, e \in Entity : draft[s].base[e].ver \in Nat
  BY <1>1, <1>2
<1>6. \A s \in Station, g \in Engine :
        /\ task[s][g] \in Task
        /\ task[s][g].refs \subseteq Entity
        /\ task[s][g].told \subseteq Entity
        /\ task[s][g].held \subseteq Entity
        /\ \A e \in Entity : task[s][g].got[e].ver \in Nat
  BY <1>1, <1>3
<1> QED BY <1>4, <1>5, <1>6

\* The replicas see nothing of a step that moves no version.
LEMMA Unseen ==
  ASSUME rows' = rows, snapshot' = snapshot, mirror' = mirror
  PROVE  UNCHANGED Abstract!vars
BY DEF Abstract!vars

\* A step that only changes what an engine is in the middle of.
LEMMA OnlyTask ==
  ASSUME TypeInv, PromiseInv, NEW s \in Station, NEW g \in Engine, NEW u,
         Go(s, g, u), attached' = attached, current' = current,
         rows' = rows, snapshot' = snapshot, mirror' = mirror,
         \A r \in Station : draft'[r].base = draft[r].base,
         u.step # "idle" => attached[s] /\ g = current[s],
         InHand(s, u)
  PROVE  Kept
<1>1. /\ task'[s][g] = u
      /\ \A r \in Station, h \in Engine :
           r # s \/ h # g => task'[r][h] = task[r][h]
  BY GoIs
<1>2. SoleTask'
  BY <1>1 DEF PromiseInv, SoleTask, At
<1>3. Forward'
  BY DEF PromiseInv, Forward
<1>4. \A r \in Station, h \in Engine : InHand(r, task[r][h])'
  BY <1>1 DEF PromiseInv, InHand
<1> QED BY <1>2, <1>3, <1>4, Unseen DEF PromiseInv, Kept

\* A step of a task that moves the memory or the disk of its station.
LEMMA StationMoves ==
  ASSUME TypeInv, PromiseInv, NEW s \in Station, NEW g \in Engine, NEW u,
         Go(s, g, u), ~At(s, g, "idle"), attached' = attached,
         current' = current, rows' = rows,
         \A r \in Station : draft'[r].base = draft[r].base,
         \A r \in Station, e \in Entity : r # s =>
           /\ snapshot'[r][e] = snapshot[r][e]
           /\ mirror'[r][e] = mirror[r][e],
         \A e \in Entity :
           /\ snapshot[s][e].ver <= snapshot'[s][e].ver
           /\ snapshot'[s][e].ver \in Nat
           /\ snapshot'[s][e].ver <= rows[e].ver
           /\ mirror'[s][e].ver <= snapshot'[s][e].ver,
         u.step \in {"apply", "ack", "repair"} => FALSE,
         u.step = "mirror" => \A e \in u.refs :
           u.got[e].ver = snapshot'[s][e].ver
  PROVE  PromiseInv'
<1>1. /\ task'[s][g] = u
      /\ \A r \in Station, h \in Engine :
           r # s \/ h # g => task'[r][h] = task[r][h]
  BY GoIs
<1>2. \A h \in Engine : h # g => task[s][h].step = "idle"
  BY DEF PromiseInv, SoleTask, At
<1>3. SoleTask'
  BY <1>1 DEF PromiseInv, SoleTask, At
<1>4. Forward'
  <2> SUFFICES ASSUME NEW r \in Station, NEW e \in Entity
               PROVE  /\ mirror'[r][e].ver <= snapshot'[r][e].ver
                      /\ snapshot'[r][e].ver <= rows'[e].ver
                      /\ draft'[r].base[e].ver <= snapshot'[r][e].ver
    BY DEF Forward
  <2>1. CASE r # s
    BY <2>1 DEF PromiseInv, Forward
  <2>2. CASE r = s
    <3>1. draft[s].base[e].ver <= snapshot[s][e].ver
      BY DEF PromiseInv, Forward
    <3>2. draft[s].base[e].ver \in Nat /\ snapshot[s][e].ver \in Nat
      BY Versions
    <3> QED BY <2>2, <3>1, <3>2
  <2> QED BY <2>1, <2>2
<1>5. \A r \in Station, h \in Engine : InHand(r, task[r][h])'
  <2> SUFFICES ASSUME NEW r \in Station, NEW h \in Engine
               PROVE  InHand(r, task[r][h])'
    OBVIOUS
  <2>1. CASE r # s
    <3>1. task'[r][h] = task[r][h] /\ InHand(r, task[r][h])
      BY <1>1, <2>1 DEF PromiseInv
    <3>2. task[r][h].refs \subseteq Entity /\ task[r][h].told \subseteq Entity
      BY Versions
    <3> QED BY <2>1, <3>1, <3>2 DEF InHand
  <2>2. CASE r = s /\ h # g
    BY <1>1, <1>2, <2>2 DEF InHand
  <2>3. CASE r = s /\ h = g
    BY <1>1, <2>3 DEF InHand
  <2> QED BY <2>1, <2>2, <2>3
<1> QED BY <1>3, <1>4, <1>5 DEF PromiseInv

\* A new state of an edit leaves what it was derived from.
LEMMA BasesStay ==
  ASSUME TypeInv, NEW s \in Station,
         \/ draft' = draft
         \/ \E x : draft' = [draft EXCEPT ![s].state = x]
  PROVE  \A r \in Station : draft'[r].base = draft[r].base
<1>1. draft \in [Station -> Draft]
  BY DEF TypeInv, TypeOK
<1>2. CASE draft' = draft
  BY <1>2
<1>3. ASSUME NEW x, draft' = [draft EXCEPT ![s].state = x]
      PROVE  \A r \in Station : draft'[r].base = draft[r].base
  <2>1. [draft[s] EXCEPT !.state = x].base = draft[s].base
    BY <1>1 DEF Draft
  <2>2. draft' = [draft EXCEPT ![s] = [draft[s] EXCEPT !.state = x]]
    BY <1>3
  <2> QED BY <1>1, <2>1, <2>2
<1> QED BY <1>2, <1>3

\* A task that has applied what it read rests or advances the watermark.
LEMMA AfterApplyInHand ==
  ASSUME NEW s, NEW g, NEW t
  PROVE  AfterApply(s, g, t).step \in {"idle", "advance"}
BY DEF AfterApply, Idle

\* A task that is not about to move memory or disk has nothing in hand.
LEMMA IdleInHand ==
  ASSUME NEW s, NEW t, t.step \notin {"apply", "ack", "mirror", "repair"}
  PROVE  InHand(s, t)
BY DEF InHand

\* What a sweep begins with is in hand: it writes the memory to the disk.
LEMMA SweepInHand ==
  ASSUME NEW s \in Station, NEW op, NEW refs
  PROVE  /\ InHand(s, Sweep(s, op, refs))
         /\ Sweep(s, op, refs).step # "idle"
<1>1. \/ Sweep(s, op, refs).step \in {"max", "revs"}
      \/ Sweep(s, op, refs).step = "repair"
           /\ Sweep(s, op, refs).got = snapshot[s]
  BY DEF Sweep, ReadStep, Idle
<1> QED BY <1>1 DEF InHand

-----------------------------------------------------------------------------
(* The chain.                                                              *)

\* A start only changes what the engine is in the middle of.
LEMMA StartsKeep ==
  ASSUME TypeInv, PromiseInv, NEW s \in Station, StartStep(s)
  PROVE  Kept
<1> USE DEF remoteVars, localVars, linkVars, bounds
<1>g. current[s] \in Engine
  BY DEF TypeInv, TypeOK
<1>1. ASSUME NEW req \in pending[s], StartSync(s, req)
      PROVE  Kept
  <2> DEFINE t == CASE req.op = "pull" ->
              [Idle EXCEPT !.op = "pull", !.step = "log", !.upTo = watermark[s]]
         [] req.op = "rows" ->
              [Idle EXCEPT !.op = "rows", !.step = "items", !.refs = req.refs]
         [] OTHER -> Sweep(s, "kinds", req.refs)
  <2>1. InHand(s, t)
    <3>1. \/ t.step \in {"log", "items"}
          \/ t = Sweep(s, "kinds", req.refs)
      BY DEF Idle
    <3> HIDE DEF t
    <3> QED BY <3>1, SweepInHand, IdleInHand
  <2>2. /\ Go(s, current[s], t) /\ attached[s] /\ attached' = attached
        /\ current' = current /\ rows' = rows /\ snapshot' = snapshot
        /\ mirror' = mirror /\ draft' = draft
    BY <1>1 DEF StartSync, Begin
  <2> HIDE DEF t
  <2> QED BY <1>g, <2>1, <2>2, OnlyTask
<1>2. CASE StartSweep(s)
  <2>1. /\ Go(s, current[s], Sweep(s, "sweep", Entity)) /\ attached[s]
        /\ attached' = attached
        /\ current' = current /\ rows' = rows /\ snapshot' = snapshot
        /\ mirror' = mirror /\ draft' = draft
    BY <1>2 DEF StartSweep, Begin
  <2> QED BY <1>g, <2>1, SweepInHand, OnlyTask
<1>3. CASE StartSave(s)
  <2> DEFINE t == [Idle EXCEPT !.op = "save", !.step = "exec",
                               !.todo = Diff(draft[s])]
  <2>1. t.step = "exec"
    BY DEF Idle
  <2>2. /\ Go(s, current[s], t) /\ attached[s] /\ attached' = attached
        /\ current' = current /\ rows' = rows /\ snapshot' = snapshot
        /\ mirror' = mirror
        /\ draft' = [draft EXCEPT ![s].state = "running"]
    BY <1>3 DEF StartSave
  <2> HIDE DEF t
  <2>3. \A r \in Station : draft'[r].base = draft[r].base
    BY <2>2, BasesStay
  <2> QED BY <1>g, <2>1, <2>2, <2>3, IdleInHand, OnlyTask
<1>4. CASE RefuseOffline(s)
  <2>1. /\ rows' = rows /\ snapshot' = snapshot /\ mirror' = mirror
        /\ task' = task /\ attached' = attached /\ current' = current
        /\ draft' = [draft EXCEPT ![s].state = "offline"]
    BY <1>4 DEF RefuseOffline
  <2>2. \A r \in Station : draft'[r].base = draft[r].base
    BY <2>1, BasesStay
  <2>3. PromiseInv'
    BY <2>1, <2>2 DEF PromiseInv, SoleTask, At, Forward, InHand
  <2> QED BY <2>1, <2>3, Unseen DEF Kept
<1> QED BY <1>1, <1>2, <1>3, <1>4 DEF StartStep

\* The steps of a task that only read.
LEMMA ReadsKeep ==
  ASSUME TypeInv, PromiseInv, NEW s \in Station, NEW g \in Engine,
         \/ PullLog(s, g) \/ PullKinds(s, g) \/ ReadMarkers(s, g)
         \/ SweepMax(s, g) \/ SweepRevs(s, g) \/ ReadItems(s, g)
         \/ Advance(s, g) \/ Abandon(s, g)
  PROVE  Kept
<1> USE DEF remoteVars, localVars, linkVars, bounds
<1> DEFINE t == task[s][g]
           Frame == /\ attached' = attached /\ current' = current
                    /\ rows' = rows /\ snapshot' = snapshot
                    /\ mirror' = mirror /\ draft' = draft
<1>t. t \in Task
  BY DEF TypeInv, TypeOK
<1>i. Idle.step = "idle"
  BY DEF Idle
<1>s. t.step # "idle" => attached[s] /\ g = current[s]
  BY DEF PromiseInv, SoleTask, At
<1>f. Frame
  BY DEF PullLog, PullKinds, ReadMarkers, SweepMax, SweepRevs, ReadItems,
         Advance, Abandon
<1> HIDE DEF t
<1>go. ASSUME NEW u, Go(s, g, u), t.step # "idle", InHand(s, u)
       PROVE  Kept
  BY <1>go, <1>f, <1>s, OnlyTask
<1>read. ASSUME NEW u, Go(s, g, u), t.step # "idle",
                u.step \notin {"apply", "ack", "mirror", "repair"}
         PROVE  Kept
  BY <1>read, <1>go, IdleInHand
<1> HIDE DEF Frame
<1>1. CASE PullLog(s, g)
  <2>1. PICK refs, upTo :
          Go(s, g, IF {c \in log : c.id > t.upTo} = {} THEN Idle
                   ELSE [t EXCEPT !.step = "kinds", !.refs = refs,
                                  !.upTo = upTo])
    BY <1>1 DEF PullLog, t
  <2>2. PICK u : Go(s, g, u) /\ u \in {Idle, [t EXCEPT !.step = "kinds",
                                      !.refs = refs, !.upTo = upTo]}
    BY <2>1
  <2>3. u.step \in {"idle", "kinds"}
    BY <1>t, <1>i, <2>2 DEF Task
  <2> QED BY <1>1, <2>2, <2>3, <1>read DEF PullLog, At, t
<1>2. CASE PullKinds(s, g)
  <2> DEFINE suspect == Suspects(s, {KindOf[e] : e \in t.refs})
             u == [t EXCEPT !.suspect = suspect,
                            !.step = IF suspect = {} THEN "items"
                                                     ELSE "marker"]
  <2>1. Go(s, g, u)
    BY <1>2 DEF PullKinds, t
  <2>2. u.step \in {"items", "marker"}
    <3> HIDE DEF suspect
    <3> QED BY <1>t DEF Task
  <2> HIDE DEF u
  <2> QED BY <1>2, <2>1, <2>2, <1>read DEF PullKinds, At, t
<1>3. CASE ReadMarkers(s, g)
  <2> DEFINE refused == t.suspect \ migrated
             owned == {e \in t.refs : KindOf[e] \notin refused}
             refs == IF t.op = "pull" THEN owned
                                      ELSE Differing(s, owned, t.got)
             next == [t EXCEPT !.suspect = {}, !.refused = refused,
                               !.refs = refs, !.got = Idle.got,
                               !.step = "items"]
             u == IF t.op # "pull" /\ refs = {} THEN AfterApply(s, g, next)
                                                ELSE next
  <2>1. next.step = "items"
    <3> HIDE DEF refused, refs
    <3> QED BY <1>t DEF Task
  <2>2. u.step \in {"idle", "advance", "items"}
    <3> HIDE DEF next, refs
    <3> QED BY <2>1, AfterApplyInHand
  <2>3. Go(s, g, u)
    BY <1>3 DEF ReadMarkers, t
  <2> HIDE DEF u
  <2> QED BY <1>3, <2>2, <2>3, <1>read DEF ReadMarkers, At, t
<1>4. CASE SweepMax(s, g)
  <2>1. PICK upTo : Go(s, g, [t EXCEPT !.step = "revs", !.upTo = upTo])
    BY <1>4 DEF SweepMax, t
  <2>2. [t EXCEPT !.step = "revs", !.upTo = upTo].step = "revs"
    BY <1>t DEF Task
  <2> QED BY <1>4, <2>1, <2>2, <1>read DEF SweepMax, At, t
<1>5. CASE SweepRevs(s, g)
  <2>1. PICK suspect, refs :
          Go(s, g, IF suspect # {}
                     THEN [t EXCEPT !.suspect = suspect, !.got = rows,
                                    !.step = "marker"]
                   ELSE IF refs = {} THEN AfterApply(s, g, t)
                   ELSE [t EXCEPT !.refs = refs, !.step = "items"])
    BY <1>5 DEF SweepRevs, t
  <2>2. PICK u : /\ Go(s, g, u)
                 /\ u \in {[t EXCEPT !.suspect = suspect, !.got = rows,
                                     !.step = "marker"],
                           AfterApply(s, g, t),
                           [t EXCEPT !.refs = refs, !.step = "items"]}
    BY <2>1
  <2>3. u.step \in {"idle", "advance", "items", "marker"}
    BY <1>t, <2>2, AfterApplyInHand DEF Task
  <2> QED BY <1>5, <2>2, <2>3, <1>read DEF SweepRevs, At, t
<1>6. CASE ReadItems(s, g)
  <2> DEFINE got == [e \in Entity |-> IF e \in t.refs THEN rows[e]
                                                      ELSE NoItem]
             u == [t EXCEPT !.step = "apply", !.got = got]
  <2>1. Go(s, g, u)
    BY <1>6 DEF ReadItems, t
  <2>2. /\ t.refs \subseteq Entity
        /\ \A e \in Entity : rows[e].ver \in Nat
    BY Versions DEF t
  <2>3. \A e \in t.refs : got[e] = rows[e]
    BY <2>2
  <2>4. \A e \in Entity : snapshot[s][e].ver <= rows[e].ver
    BY DEF PromiseInv, Forward
  <2> HIDE DEF got
  <2>5. u.step = "apply" /\ u.refs = t.refs /\ u.got = got
    BY <1>t DEF Task
  <2> HIDE DEF u
  <2>6. InHand(s, u)
    BY <2>2, <2>3, <2>4, <2>5 DEF InHand
  <2> QED BY <1>6, <2>1, <2>6, <1>go DEF ReadItems, At, t
<1>7. CASE Advance(s, g)
  BY <1>7, <1>i, <1>read DEF Advance, At, t
<1>8. CASE Abandon(s, g)
  BY <1>8, <1>i, <1>read DEF Abandon, Dropped, t
<1> QED BY <1>1, <1>2, <1>3, <1>4, <1>5, <1>6, <1>7, <1>8

\* A repair writes to the disk what the memory has.
LEMMA RepairKeeps ==
  ASSUME TypeInv, PromiseInv, NEW s \in Station, NEW g \in Engine,
         RepairMirror(s, g)
  PROVE  Kept
<1> USE DEF remoteVars, localVars, linkVars, bounds
<1> DEFINE t == task[s][g]
           u == [t EXCEPT !.step = ReadStep(t.op), !.told = {},
                          !.got = Idle.got]
<1>t. t \in Task /\ t.step = "repair" /\ t.told \subseteq Entity
  BY Versions DEF RepairMirror, At
<1>h. \A e \in t.told : t.got[e].ver = snapshot[s][e].ver
  BY <1>t DEF PromiseInv, InHand
<1>f. /\ attached' = attached /\ current' = current /\ rows' = rows
      /\ snapshot' = snapshot /\ draft' = draft
  BY DEF RepairMirror
<1>s. attached[s] /\ g = current[s]
  BY <1>t DEF PromiseInv, SoleTask, At
<1>1. Go(s, g, u)
  BY DEF RepairMirror
<1>2. u.step \in {"max", "revs"}
  BY <1>t DEF Task, ReadStep
<1> HIDE DEF u
<1>3. CASE mirror' = mirror
  BY <1>1, <1>2, <1>3, <1>f, <1>s, IdleInHand, OnlyTask
<1>4. CASE Write(s, t.told, t.got)
  <2>1. /\ \A e \in Entity :
             mirror'[s][e] = IF e \in t.told THEN t.got[e] ELSE mirror[s][e]
        /\ \A r \in Station \ {s} : mirror'[r] = mirror[r]
    BY <1>4 DEF Write, TypeInv, TypeOK
  <2> HIDE DEF t
  <2>2. \A e \in Entity : /\ mirror[s][e].ver <= snapshot[s][e].ver
                          /\ snapshot[s][e].ver <= rows[e].ver
                          /\ snapshot[s][e].ver \in Nat
                          /\ mirror[s][e].ver \in Nat
    BY Versions DEF PromiseInv, Forward
  <2>3. \A e \in Entity : /\ mirror[s][e].ver <= mirror'[s][e].ver
                          /\ mirror'[s][e].ver <= snapshot[s][e].ver
    BY <1>h, <2>1, <2>2
  <2>4. PromiseInv'
    BY <1>1, <1>2, <1>f, <1>t, <2>1, <2>2, <2>3, StationMoves DEF At, t
  <2>5. Abstract!Keep(s)
    BY <1>f, <2>1, <2>3 DEF Abstract!Keep
  <2> QED BY <2>4, <2>5 DEF Kept, Abstract!Next
<1> QED BY <1>3, <1>4 DEF RepairMirror

\* The mirror write after an apply or a commit.
LEMMA WriteKeeps ==
  ASSUME TypeInv, PromiseInv, NEW s \in Station, NEW g \in Engine,
         WriteMirror(s, g)
  PROVE  Kept
<1> USE DEF remoteVars, localVars, linkVars, bounds
<1> DEFINE t == task[s][g]
<1>t. t \in Task /\ t.step = "mirror" /\ t.refs \subseteq Entity
  BY Versions DEF WriteMirror, At
<1>h. \A e \in t.refs : t.got[e].ver = snapshot[s][e].ver
  BY <1>t DEF PromiseInv, InHand
<1>f. /\ attached' = attached /\ current' = current /\ rows' = rows
      /\ snapshot' = snapshot
  BY DEF WriteMirror
<1>d. \A r \in Station : draft'[r].base = draft[r].base
  BY BasesStay DEF WriteMirror
<1>s. attached[s] /\ g = current[s]
  BY <1>t DEF PromiseInv, SoleTask, At
<1>1. PICK u : Go(s, g, u) /\ u.step \in {"idle", "advance", "nudge"}
  <2>1. \/ Go(s, g, [t EXCEPT !.step = "nudge"])
        \/ Go(s, g, AfterApply(s, g, t))
    BY DEF WriteMirror
  <2>2. [t EXCEPT !.step = "nudge"].step = "nudge"
    BY <1>t DEF Task
  <2> HIDE DEF t
  <2> QED BY <2>1, <2>2, AfterApplyInHand
<1>3. CASE mirror' = mirror
  BY <1>1, <1>3, <1>d, <1>f, <1>s, IdleInHand, OnlyTask
<1>4. CASE Write(s, t.refs, t.got)
  <2>1. /\ \A e \in Entity :
             mirror'[s][e] = IF e \in t.refs THEN t.got[e] ELSE mirror[s][e]
        /\ \A r \in Station \ {s} : mirror'[r] = mirror[r]
    BY <1>4 DEF Write, TypeInv, TypeOK
  <2> HIDE DEF t
  <2>2. \A e \in Entity : /\ mirror[s][e].ver <= snapshot[s][e].ver
                          /\ snapshot[s][e].ver <= rows[e].ver
                          /\ snapshot[s][e].ver \in Nat
                          /\ mirror[s][e].ver \in Nat
    BY Versions DEF PromiseInv, Forward
  <2>3. \A e \in Entity : /\ mirror[s][e].ver <= mirror'[s][e].ver
                          /\ mirror'[s][e].ver <= snapshot[s][e].ver
    BY <1>h, <2>1, <2>2
  <2>4. PromiseInv'
    BY <1>1, <1>d, <1>f, <1>t, <2>1, <2>2, <2>3, StationMoves DEF At, t
  <2>5. Abstract!Keep(s)
    BY <1>f, <2>1, <2>3 DEF Abstract!Keep
  <2> QED BY <2>4, <2>5 DEF Kept, Abstract!Next
<1> QED BY <1>3, <1>4 DEF WriteMirror

\* Memory takes rows a task has in hand, which are at least as new as the ones
\* they replace.
LEMMA TakingForward ==
  ASSUME TypeInv, PromiseInv, NEW s \in Station, NEW g \in Engine,
         NEW u, NEW refs \in SUBSET Entity, NEW got,
         Go(s, g, u), ~At(s, g, "idle"), u.step = "mirror",
         u.refs = refs, u.got = got,
         \A e \in Entity :
           snapshot'[s][e] = IF e \in refs THEN got[e] ELSE snapshot[s][e],
         \A r \in Station \ {s} : snapshot'[r] = snapshot[r],
         \A e \in refs : /\ snapshot[s][e].ver <= got[e].ver
                          /\ got[e].ver <= rows[e].ver
                          /\ got[e].ver \in Nat,
         attached' = attached, current' = current, rows' = rows,
         mirror' = mirror, draft' = draft
  PROVE  Kept
<1>1. \A e \in Entity :
        /\ mirror[s][e].ver <= snapshot[s][e].ver
        /\ snapshot[s][e].ver <= rows[e].ver
        /\ snapshot[s][e].ver \in Nat /\ mirror[s][e].ver \in Nat
        /\ rows[e].ver \in Nat
  BY Versions DEF PromiseInv, Forward
<1>2. \A e \in Entity :
        /\ snapshot[s][e].ver <= snapshot'[s][e].ver
        /\ snapshot'[s][e].ver \in Nat
        /\ snapshot'[s][e].ver <= rows[e].ver
        /\ mirror[s][e].ver <= snapshot'[s][e].ver
  <2> SUFFICES ASSUME NEW e \in Entity
               PROVE  /\ snapshot[s][e].ver <= snapshot'[s][e].ver
                      /\ snapshot'[s][e].ver \in Nat
                      /\ snapshot'[s][e].ver <= rows[e].ver
                      /\ mirror[s][e].ver <= snapshot'[s][e].ver
    OBVIOUS
  <2>1. CASE e \in refs
    BY <1>1, <2>1
  <2>2. CASE e \notin refs
    BY <1>1, <2>2
  <2> QED BY <2>1, <2>2
<1>3. \A e \in u.refs : u.got[e].ver = snapshot'[s][e].ver
  OBVIOUS
<1>4. PromiseInv'
  BY <1>2, <1>3, StationMoves
<1>5. Abstract!Learn(s)
  BY <1>2 DEF Abstract!Learn
<1> QED BY <1>4, <1>5 DEF Kept, Abstract!Next

\* An apply.
LEMMA ApplyKeeps ==
  ASSUME TypeInv, PromiseInv, NEW s \in Station, NEW g \in Engine,
         Apply(s, g)
  PROVE  Kept
<1> USE DEF remoteVars, localVars, linkVars, bounds
<1> DEFINE t == task[s][g]
           fresh == Taken(s, t)
<1>t. t \in Task /\ t.step = "apply" /\ fresh \subseteq t.refs
      /\ t.refs \subseteq Entity
      /\ \A e \in Entity : t.got[e].ver \in Nat
  BY Versions DEF Apply, At, Taken
<1>h. \A e \in t.refs : snapshot[s][e].ver <= t.got[e].ver
                        /\ t.got[e].ver <= rows[e].ver
  BY <1>t DEF PromiseInv, InHand
<1>f. /\ attached' = attached /\ current' = current /\ rows' = rows
      /\ mirror' = mirror /\ draft' = draft
  BY DEF Apply
<1>s. attached[s] /\ g = current[s]
  BY <1>t DEF PromiseInv, SoleTask, At
<1>1. CASE Go(s, g, AfterApply(s, g, t)) /\ snapshot' = snapshot
  BY <1>1, <1>f, <1>s, AfterApplyInHand, IdleInHand, OnlyTask
<1>2. ASSUME snapshot' = [snapshot EXCEPT ![s] = [e \in Entity |->
                            IF e \in fresh THEN t.got[e] ELSE @[e]]],
             NEW told, Go(s, g, [t EXCEPT !.step = "mirror", !.refs = fresh,
                                          !.told = told])
      PROVE  Kept
  <2>1. /\ \A e \in Entity : snapshot'[s][e] =
             IF e \in fresh THEN t.got[e] ELSE snapshot[s][e]
        /\ \A r \in Station \ {s} : snapshot'[r] = snapshot[r]
    BY <1>2 DEF TypeInv, TypeOK
  <2> DEFINE u == [t EXCEPT !.step = "mirror", !.refs = fresh,
                            !.told = told]
  <2>2. Go(s, g, u)
    BY <1>2
  <2> HIDE DEF fresh, t
  <2>3. u.step = "mirror" /\ u.refs = fresh /\ u.got = t.got
    BY <1>t DEF Task
  <2> HIDE DEF u
  <2>4. ~At(s, g, "idle")
    BY <1>t DEF At, t
  <2>5. fresh \in SUBSET Entity
    BY <1>t
  <2>6. \A e \in fresh : /\ snapshot[s][e].ver <= t.got[e].ver
                         /\ t.got[e].ver <= rows[e].ver
                         /\ t.got[e].ver \in Nat
    BY <1>h, <1>t
  <2> QED BY <1>f, <2>1, <2>2, <2>3, <2>4, <2>5, <2>6, TakingForward
<1> QED BY <1>1, <1>2 DEF Apply

-----------------------------------------------------------------------------
(* Saves.                                                                  *)

\* What a transaction writes its author has seen the newest version of.
LEMMA SeenNewest ==
  ASSUME TypeInv, SafeInv, PromiseInv, NEW s \in Station, NEW g \in Engine,
         NEW e \in Entity, LockedBy(s, g, e)
  PROVE  snapshot[s][e].ver = rows[e].ver
<1>1. /\ snapshot[s][e].ver \in Nat /\ rows[e].ver \in Nat
      /\ draft[s].base[e].ver \in Nat
  BY Versions
<1>2. /\ draft[s].base[e].ver <= snapshot[s][e].ver
      /\ snapshot[s][e].ver <= rows[e].ver
  BY DEF PromiseInv, Forward
<1>3. CASE Held(draft[s].base[e])
  <2>1. rows[e].ver = draft[s].base[e].ver
    BY <1>3 DEF SafeInv, NoLostUpdate
  <2> QED BY <1>1, <1>2, <2>1
<1>4. CASE ~Held(draft[s].base[e])
  <2>1. rows[e].ver = 0
    BY <1>4 DEF SafeInv, CreatedOnce, Uncreated, LockedBy
  <2> QED BY <1>1, <1>2, <2>1
<1> QED BY <1>3, <1>4

\* A commit is a write of the replicas.
LEMMA CommitKeeps ==
  ASSUME TypeInv, SafeInv, PromiseInv, NEW s \in Station, NEW g \in Engine,
         Commit(s, g)
  PROVE  Kept
<1> USE DEF remoteVars, localVars, linkVars, bounds
<1> DEFINE t == task[s][g]
           new == [e \in Entity |->
                     IF e \in t.held THEN Written(draft[s], e) ELSE NoItem]
           u == [t EXCEPT !.step = "ack", !.refs = t.held, !.held = {},
                          !.entries = {}, !.told = t.held, !.got = new]
<1>t. t \in Task /\ t.step = "exec" /\ t.held \subseteq Entity
  BY Versions DEF Commit, At
<1>w. \A e \in t.held : new[e].ver = rows[e].ver + 1
  BY <1>t DEF Written
<1>r. \A e \in Entity : rows'[e] = IF e \in t.held THEN new[e] ELSE rows[e]
  BY DEF Commit
<1>0. Go(s, g, u)
  BY DEF Commit
<1>f. /\ attached' = attached /\ current' = current /\ mirror' = mirror
      /\ snapshot' = snapshot /\ draft' = draft
  BY DEF Commit
<1>s. attached[s] /\ g = current[s]
  BY <1>t DEF PromiseInv, SoleTask, At
<1>l. \A e \in t.held : snapshot[s][e].ver = rows[e].ver
  BY <1>t, SeenNewest DEF LockedBy, At
<1> HIDE DEF new
<1>1. u.step = "ack" /\ u.refs = t.held /\ u.got = new
  <2> HIDE DEF t
  <2> QED BY <1>t DEF Task
<1> HIDE DEF u
<1>2. /\ task'[s][g] = u
      /\ \A q \in Station, h \in Engine :
           q # s \/ h # g => task'[q][h] = task[q][h]
  BY <1>0, GoIs
<1> HIDE DEF t
<1>3. \A e \in Entity : rows[e].ver \in Nat
  BY Versions
<1>4. \A e \in Entity : /\ rows'[e].ver \in Nat
                        /\ rows[e].ver <= rows'[e].ver
  <2> SUFFICES ASSUME NEW e \in Entity
               PROVE  /\ rows'[e].ver \in Nat /\ rows[e].ver <= rows'[e].ver
    OBVIOUS
  <2>1. CASE e \in t.held
    BY <1>3, <1>r, <1>w, <2>1
  <2>2. CASE e \notin t.held
    BY <1>3, <1>r, <2>2
  <2> QED BY <2>1, <2>2
<1>5. SoleTask'
  BY <1>1, <1>2, <1>f, <1>s DEF PromiseInv, SoleTask, At
<1>6. Forward'
  <2>1. \A q \in Station, e \in Entity :
          /\ snapshot[q][e].ver \in Nat /\ snapshot[q][e].ver <= rows[e].ver
    BY Versions DEF PromiseInv, Forward
  <2>2. \A q \in Station, e \in Entity : snapshot[q][e].ver <= rows'[e].ver
    BY <1>3, <1>4, <2>1
  <2> QED BY <1>f, <2>2 DEF PromiseInv, Forward
<1>7. \A q \in Station, h \in Engine : InHand(q, task[q][h])'
  <2> SUFFICES ASSUME NEW q \in Station, NEW h \in Engine
               PROVE  InHand(q, task[q][h])'
    OBVIOUS
  <2>1. CASE q = s /\ h = g
    <3>1. \A e \in u.refs : /\ snapshot[s][e].ver <= u.got[e].ver
                            /\ u.got[e].ver <= rows'[e].ver
      BY <1>1, <1>3, <1>4, <1>l, <1>r, <1>t, <1>w
    <3> QED BY <1>1, <1>2, <1>f, <2>1, <3>1 DEF InHand
  <2>2. CASE q # s \/ h # g
    <3>1. /\ task'[q][h] = task[q][h] /\ InHand(q, task[q][h])
          /\ task[q][h].refs \subseteq Entity
          /\ \A e \in Entity : task[q][h].got[e].ver \in Nat
      BY <1>2, <2>2, Versions DEF PromiseInv
    <3>2. \A e \in task[q][h].refs :
            task[q][h].got[e].ver <= rows[e].ver
              => task[q][h].got[e].ver <= rows'[e].ver
      BY <1>3, <1>4, <3>1
    <3> QED BY <1>f, <3>1, <3>2 DEF InHand
  <2> QED BY <2>1, <2>2
<1>8. Abstract!Write(s)
  <2>1. [e \in Entity |-> rows'[e].ver] \in [Entity -> Nat]
    BY <1>4
  <2>2. \A e \in Entity :
          \/ rows'[e].ver = rows[e].ver
          \/ rows'[e].ver = rows[e].ver + 1
               /\ snapshot[s][e].ver = rows[e].ver
    BY <1>l, <1>r, <1>w
  <2> QED BY <1>f, <2>1, <2>2 DEF Abstract!Write
<1> QED BY <1>5, <1>6, <1>7, <1>8 DEF Kept, PromiseInv, Abstract!Next

\* The steps of a save, and the link that dies under it.
LEMMA SavesKeep ==
  ASSUME TypeInv, SafeInv, PromiseInv, NEW s \in Station, NEW g \in Engine,
         SaveStep(s, g) \/ LoseLink(s, g)
  PROVE  Kept
<1> USE DEF remoteVars, localVars, linkVars, bounds
<1> DEFINE t == task[s][g]
<1>t. /\ t \in Task /\ t.refs \subseteq Entity
      /\ \A e \in Entity : t.got[e].ver \in Nat
  BY Versions
<1>s. t.step # "idle" => attached[s] /\ g = current[s]
  BY DEF PromiseInv, SoleTask, At
<1>i. Idle.step = "idle"
  BY DEF Idle
<1> HIDE DEF t
<1>only. ASSUME NEW u, Go(s, g, u), u.step \in {"idle", "exec"},
                t.step # "idle", \E x : \/ draft' = draft
                           \/ draft' = [draft EXCEPT ![s].state = x],
                attached' = attached, current' = current,
                rows' = rows, snapshot' = snapshot, mirror' = mirror
         PROVE  Kept
  <2>1. \A r \in Station : draft'[r].base = draft[r].base
    BY <1>only, BasesStay
  <2> QED BY <1>only, <1>s, <2>1, IdleInHand, OnlyTask
<1>back. ASSUME NEW why, RollBack(s, g, why), t.step # "idle" PROVE Kept
  BY <1>back, <1>i, <1>only DEF RollBack
<1>1. ASSUME NEW e \in Entity, ExecStatement(s, g, e) PROVE Kept
  <2>1. PICK entries :
        Go(s, g, [t EXCEPT !.todo = @ \ {e}, !.held = @ \cup {e},
                           !.entries = entries])
    <3>1. Go(s, g, [t EXCEPT !.todo = @ \ {e}, !.held = @ \cup {e},
                   !.entries = IF Logged(s, e)
                     THEN @ \cup {[id |-> nextId, entity |-> e,
                                   ver |-> rows[e].ver + 1, late |-> FALSE]}
                     ELSE @])
      BY <1>1 DEF ExecStatement, t
    <3> QED BY <3>1
  <2>2. t.step = "exec"
    BY <1>1 DEF ExecStatement, IsNext, At, t
  <2>3. [t EXCEPT !.todo = @ \ {e}, !.held = @ \cup {e},
                  !.entries = entries].step = "exec"
    BY <1>t, <2>2 DEF Task
  <2> QED BY <1>1, <1>only, <2>1, <2>2, <2>3 DEF ExecStatement
<1>2. ASSUME NEW e \in Entity, Conflict(s, g, e) PROVE Kept
  BY <1>2, <1>back DEF Conflict, IsNext, At, t
<1>3. CASE Deadlock(s, g)
  BY <1>3, <1>back DEF Deadlock, IsNext, At, t
<1>4. CASE LoseLink(s, g)
  BY <1>4, <1>back DEF LoseLink, t
<1>5. CASE Commit(s, g)
  BY <1>5, CommitKeeps
<1>6. CASE Acknowledge(s, g)
  <2> DEFINE u == [t EXCEPT !.step = "mirror"]
  <2>1. /\ Go(s, g, u) /\ ~At(s, g, "idle")
        /\ attached' = attached /\ current' = current /\ rows' = rows
        /\ mirror' = mirror /\ draft' = draft
    BY <1>6 DEF Acknowledge, At, t
  <2>2. u.step = "mirror" /\ u.refs = t.refs /\ u.got = t.got
    BY <1>t DEF Task
  <2>3. /\ \A e \in Entity : snapshot'[s][e] =
             IF e \in t.refs THEN t.got[e] ELSE snapshot[s][e]
        /\ \A r \in Station \ {s} : snapshot'[r] = snapshot[r]
    BY <1>6 DEF Acknowledge, Swapped, t, TypeInv, TypeOK
  <2>4. \A e \in t.refs : snapshot[s][e].ver <= t.got[e].ver
                          /\ t.got[e].ver <= rows[e].ver
    BY <1>6 DEF Acknowledge, At, t, PromiseInv, InHand
  <2> HIDE DEF u
  <2> QED BY <1>t, <2>1, <2>2, <2>3, <2>4, TakingForward
<1>7. CASE Nudge(s, g)
  BY <1>7, <1>i, <1>only DEF Nudge, At, t
<1> QED BY <1>1, <1>2, <1>3, <1>4, <1>5, <1>6, <1>7 DEF SaveStep

-----------------------------------------------------------------------------
(* The operator, the link, crashes and the migration.                      *)

\* An edit that begins is derived from what the memory has.
LEMMA EditKeeps ==
  ASSUME TypeInv, PromiseInv, NEW s \in Station, BeginEdit(s)
  PROVE  Kept
<1> USE DEF remoteVars, localVars, linkVars, bounds
<1>1. PICK want : draft' = [draft EXCEPT ![s] =
                    [state |-> "open", want |-> want, base |-> snapshot[s]]]
  BY DEF BeginEdit
<1>2. /\ draft'[s].base = snapshot[s]
      /\ \A r \in Station \ {s} : draft'[r] = draft[r]
  BY <1>1 DEF TypeInv, TypeOK
<1>3. /\ rows' = rows /\ snapshot' = snapshot /\ mirror' = mirror
      /\ task' = task /\ attached' = attached /\ current' = current
  BY DEF BeginEdit
<1>4. Forward'
  <2>1. \A e \in Entity : snapshot[s][e].ver \in Nat
    BY Versions
  <2> QED BY <1>2, <1>3, <2>1 DEF PromiseInv, Forward
<1> QED BY <1>3, <1>4, Unseen DEF Kept, PromiseInv, SoleTask, At, InHand

\* Nobody detaches a station, so an attach finds both engines idle.
LEMMA LinksKeep ==
  ASSUME TypeInv, PromiseInv, NoDetach, NEW s \in Station, LinkStep(s)
  PROVE  Kept
<1> USE DEF remoteVars, localVars, linkVars, bounds
<1>1. CASE Attach(s)
  <2> DEFINE g == 3 - current[s]
             u == Sweep(s, "sweep", Entity)
  <2>1. g \in Engine
    <3>1. current[s] \in Engine
      BY DEF TypeInv, TypeOK
    <3> QED BY <3>1 DEF Engine
  <2>2. /\ Go(s, g, u) /\ ~attached[s]
        /\ attached' = [attached EXCEPT ![s] = TRUE]
        /\ current' = [current EXCEPT ![s] = g]
        /\ rows' = rows /\ snapshot' = snapshot
        /\ mirror' = mirror /\ draft' = draft
    BY <1>1 DEF Attach, Begin, Fault, NoDetach
  <2> HIDE DEF g, u
  <2>3. /\ attached'[s] /\ current'[s] = g
        /\ \A r \in Station \ {s} : attached'[r] = attached[r]
                                    /\ current'[r] = current[r]
    BY <2>2 DEF TypeInv, TypeOK
  <2>4. /\ task'[s][g] = u
        /\ \A r \in Station, h \in Engine :
             r # s \/ h # g => task'[r][h] = task[r][h]
    BY <2>1, <2>2, GoIs
  <2>5. \A h \in Engine : task[s][h].step = "idle"
    BY <2>2 DEF PromiseInv, SoleTask, At
  <2>6. SoleTask'
    BY <2>3, <2>4, <2>5 DEF PromiseInv, SoleTask, At
  <2>7. Forward'
    BY <2>2 DEF PromiseInv, Forward
  <2>8. \A r \in Station, h \in Engine : InHand(r, task[r][h])'
    <3>1. InHand(s, u)
      BY SweepInHand DEF u
    <3> QED BY <2>2, <2>4, <3>1 DEF PromiseInv, InHand
  <2> QED BY <2>2, <2>6, <2>7, <2>8, Unseen DEF Kept, PromiseInv
<1>2. CASE Detach(s)
  BY <1>2 DEF Detach, Fault, NoDetach
<1>3. CASE ChannelOpen(s) \/ ChannelDrop(s) \/ Relisten(s)
  <2>1. /\ rows' = rows /\ snapshot' = snapshot /\ mirror' = mirror
        /\ task' = task /\ attached' = attached /\ current' = current
        /\ draft' = draft
    BY <1>3 DEF ChannelOpen, ChannelDrop, Relisten
  <2>2. PromiseInv'
    BY <2>1 DEF PromiseInv, SoleTask, At, Forward, InHand
  <2> QED BY <2>1, <2>2, Unseen DEF Kept
<1> QED BY <1>1, <1>2, <1>3 DEF LinkStep

\* A station that starts again serves what it has on disk.
LEMMA RestartKeeps ==
  ASSUME TypeInv, PromiseInv, NEW s \in Station, Restart(s)
  PROVE  Kept
<1> USE DEF remoteVars, localVars, linkVars, bounds
<1>1. /\ \A g \in Engine : task'[s][g] = Idle
      /\ \A r \in Station \ {s}, g \in Engine : task'[r][g] = task[r][g]
  BY DEF Restart, TypeInv, TypeOK
<1>2. /\ draft'[s] = NoDraft
      /\ \A r \in Station \ {s} : draft'[r] = draft[r]
  BY DEF Restart, TypeInv, TypeOK
<1>3. /\ snapshot' = [snapshot EXCEPT ![s] = mirror[s]]
      /\ snapshot'[s] = mirror[s]
      /\ \A r \in Station \ {s} : /\ snapshot'[r] = snapshot[r]
                                  /\ attached'[r] = attached[r]
  BY DEF Restart, TypeInv, TypeOK
<1>4. rows' = rows /\ mirror' = mirror /\ current' = current
  BY DEF Restart
<1>5. /\ Idle.step = "idle"
      /\ \A e \in Entity : NoDraft.base[e].ver = 0
  BY DEF Idle, NoDraft, NoItem
<1>6. SoleTask'
  BY <1>1, <1>3, <1>4, <1>5 DEF PromiseInv, SoleTask, At
<1>7. Forward'
  <2>1. \A e \in Entity :
          /\ mirror[s][e].ver <= snapshot[s][e].ver
          /\ snapshot[s][e].ver <= rows[e].ver
          /\ mirror[s][e].ver \in Nat /\ snapshot[s][e].ver \in Nat
          /\ rows[e].ver \in Nat
    BY Versions DEF PromiseInv, Forward
  <2>2. \A e \in Entity :
          /\ mirror[s][e].ver <= rows[e].ver
          /\ mirror[s][e].ver <= mirror[s][e].ver
          /\ 0 <= mirror[s][e].ver
    BY <2>1
  <2> QED BY <1>2, <1>3, <1>4, <1>5, <2>2 DEF PromiseInv, Forward
<1>8. \A r \in Station, h \in Engine : InHand(r, task[r][h])'
  BY <1>1, <1>3, <1>4, <1>5 DEF PromiseInv, InHand
<1>9. Abstract!Restart(s)
  <2> DEFINE Seen(r) == [e \in Entity |-> snapshot[r][e].ver]
             Mirrored(r) == [e \in Entity |-> mirror[r][e].ver]
  <2>1. [r \in Station |-> [e \in Entity |-> snapshot'[r][e].ver]]
          = [[r \in Station |-> Seen(r)] EXCEPT ![s] =
               [r \in Station |-> Mirrored(r)][s]]
    <3>1. \A r \in Station : [e \in Entity |-> snapshot'[r][e].ver]
                               = IF r = s THEN Mirrored(s) ELSE Seen(r)
      BY <1>3
    <3> HIDE DEF Seen, Mirrored
    <3> QED BY <3>1
  <2> QED BY <1>4, <2>1 DEF Abstract!Restart
<1> QED BY <1>6, <1>7, <1>8, <1>9 DEF Kept, PromiseInv, Abstract!Next

\* A cut-over moves the remote forward and no station.
LEMMA MigrateKeeps ==
  ASSUME TypeInv, PromiseInv, NEW k \in Kind, Migrate(k)
  PROVE  Kept
<1> USE DEF remoteVars, localVars, linkVars, bounds
<1>1. \A e \in Entity : \/ rows'[e].ver = rows[e].ver
                        \/ rows[e].ver = 0 /\ rows'[e].ver = 1
  BY DEF Migrate, OfKind
<1>2. /\ snapshot' = snapshot /\ mirror' = mirror /\ draft' = draft
      /\ task' = task /\ attached' = attached /\ current' = current
  BY DEF Migrate
<1>3. \A e \in Entity, v \in Nat : v <= rows[e].ver => v <= rows'[e].ver
  BY <1>1, Versions
<1>4. SoleTask'
  BY <1>2 DEF PromiseInv, SoleTask, At
<1>5. Forward'
  <2>1. \A s \in Station, e \in Entity : snapshot[s][e].ver \in Nat
    BY Versions
  <2> QED BY <1>2, <1>3, <2>1 DEF PromiseInv, Forward
<1>6. \A s \in Station, g \in Engine : InHand(s, task[s][g])'
  <2> SUFFICES ASSUME NEW s \in Station, NEW g \in Engine
               PROVE  InHand(s, task[s][g])'
    OBVIOUS
  <2>1. /\ InHand(s, task[s][g]) /\ task[s][g].refs \subseteq Entity
        /\ \A e \in Entity : task[s][g].got[e].ver \in Nat
    BY Versions DEF PromiseInv
  <2> QED BY <1>2, <1>3, <2>1 DEF InHand
<1>7. Abstract!Import
  BY <1>1, <1>2 DEF Abstract!Import
<1> QED BY <1>4, <1>5, <1>6, <1>7 DEF Kept, PromiseInv, Abstract!Next

-----------------------------------------------------------------------------
\* The first state is one of ReplicatedConfig.
LEMMA PromiseInit == Init => PromiseInv /\ Abstract!Init
<1> SUFFICES ASSUME Init PROVE PromiseInv /\ Abstract!Init
  OBVIOUS
<1>1. \A e \in Entity : rows[e] = FirstRow(e)
  BY DEF Init
<1>2. /\ \A e \in Entity : FirstRow(e).ver \in {0, 1} /\ NoItem.ver = 0
      /\ \A e \in Entity : Rehomed(e).ver \in {0, FirstRow(e).ver}
  BY DEF FirstRow, Rehomed, NoItem
<1>3. \A s \in Station, e \in Entity :
        mirror[s][e] = IF s \in Fresh THEN NoItem ELSE Rehomed(e)
  BY DEF Init
<1>4. /\ snapshot = mirror
      /\ \A s \in Station, g \in Engine : task[s][g].step = "idle"
      /\ \A s \in Station, e \in Entity : draft[s].base[e].ver = 0
  BY DEF Init, Idle, NoDraft, NoItem
<1>5. \A s \in Station, e \in Entity :
        /\ mirror[s][e].ver \in {0, 1} /\ mirror[s][e].ver <= rows[e].ver
        /\ rows[e].ver \in {0, 1}
  BY <1>1, <1>2, <1>3
<1>6. PromiseInv
  <2>1. SoleTask
    BY <1>4 DEF SoleTask, At
  <2>2. Forward
    BY <1>4, <1>5 DEF Forward
  <2>3. \A s \in Station, g \in Engine : InHand(s, task[s][g])
    BY <1>4 DEF InHand
  <2> QED BY <2>1, <2>2, <2>3 DEF PromiseInv
<1>7. Abstract!Init
  <2>1. \A e \in Entity : rows[e].ver \in {0, 1}
    BY <1>1, <1>2
  <2> QED BY <1>4, <1>5, <2>1 DEF Abstract!Init
<1> QED BY <1>6, <1>7

\* Every step keeps the invariant and is one of ReplicatedConfig.
LEMMA PromiseNext ==
  ASSUME TypeInv, SafeInv, PromiseInv, NoDetach, [Next]_vars
  PROVE  Kept
<1>1. ASSUME NEW s \in Station, NEW g \in Engine,
             SyncStep(s, g) \/ Abandon(s, g)
      PROVE  Kept
  BY <1>1, ReadsKeep, RepairKeeps, WriteKeeps, ApplyKeeps DEF SyncStep
<1>2. ASSUME NEW s \in Station, NEW g \in Engine,
             SaveStep(s, g) \/ LoseLink(s, g)
      PROVE  Kept
  BY <1>2, SavesKeep
<1>3. ASSUME NEW s \in Station,
             BeginEdit(s) \/ StartStep(s) \/ LinkStep(s) \/ Restart(s)
      PROVE  Kept
  BY <1>3, EditKeeps, StartsKeep, LinksKeep, RestartKeeps
<1>4. ASSUME NEW k \in Kind, Migrate(k) PROVE Kept
  BY <1>4, MigrateKeeps
<1>5. CASE UNCHANGED vars
  <2>1. /\ rows' = rows /\ snapshot' = snapshot /\ mirror' = mirror
        /\ task' = task /\ attached' = attached /\ current' = current
        /\ draft' = draft
    BY <1>5 DEF vars, remoteVars, localVars, linkVars
  <2>2. PromiseInv'
    BY <2>1 DEF PromiseInv, SoleTask, At, Forward, InHand
  <2> QED BY <2>1, <2>2, Unseen DEF Kept
<1> QED BY <1>1, <1>2, <1>3, <1>4, <1>5 DEF Next

\* The store implements ReplicatedConfig: stations only move forward, none is
\* ahead of the remote, and a save moves only what its author has seen the
\* newest version of, through every interleaving of saves, syncs, failures,
\* restarts and the migration (writeItems, pull and reconcile).
THEOREM PromiseIsKept ==
  ASSUME ~Reuse, NoDetach PROVE Spec => KeepsThePromise
<1>1. Init => PromiseInv /\ Abstract!Init
  BY PromiseInit
<1>2. TypeInv /\ SafeInv /\ PromiseInv /\ [Next]_vars =>
        PromiseInv' /\ [Abstract!Next]_(Abstract!vars)
  BY PromiseNext DEF Kept
<1>3. Spec => [](TypeInv /\ SafeInv)
  BY TypesInvariant, SafeInvariant, PTL
<1>4. Spec => Abstract!Spec
  BY <1>1, <1>2, <1>3, PTL DEF Spec, Abstract!Spec
<1> QED BY <1>4 DEF KeepsThePromise
=============================================================================
