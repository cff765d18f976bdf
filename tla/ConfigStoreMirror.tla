-------------------------- MODULE ConfigStoreMirror --------------------------
(***************************************************************************)
(* The memory, the disk and the listeners of a station agree, for any      *)
(* number of stations, entities, edits and faults: the invariants          *)
(* EveryChangeAnnounced and MirrorOrDirty of ConfigStore, and the two      *)
(* about its watermark.  First what each step is as far as memory, disk    *)
(* and listeners go; then one section for the listeners, two for the disk  *)
(* (each on a condition of its own) and one for the watermark.             *)
(***************************************************************************)
EXTENDS ConfigStoreSafety

\* Memory, disk and listeners are left as they are, and so is the attachment.
Still ==
  /\ snapshot' = snapshot /\ mirror' = mirror /\ dirty' = dirty
  /\ view' = view /\ attached' = attached /\ current' = current

\* A mirror write of s has failed, and no repair has made up for it.
Noted(s) == dirty[s] # {}

-----------------------------------------------------------------------------
(***************************************************************************)
(* What the steps are, as far as memory, disk and listeners go.            *)
(***************************************************************************)
\* The first step of a sweep.
LEMMA SweepOpens ==
  ASSUME NEW s \in Station, NEW op, NEW refs, NEW u, u = Sweep(s, op, refs)
  PROVE  \/ u.step \in {"max", "revs"}
         \/ /\ u.step = "repair" /\ Noted(s)
            /\ u.got = snapshot[s] /\ u.told = dirty[s]
<1>1. CASE ~Noted(s)
  BY <1>1 DEF Noted, Sweep, ReadStep, Idle
<1>2. CASE Noted(s)
  BY <1>2 DEF Noted, Sweep, Idle
<1> QED BY <1>1, <1>2

\* A task that starts on the chain reads or saves, or it repairs what is noted.
LEMMA StartsAre ==
  ASSUME NEW s \in Station, StartStep(s)
  PROVE  /\ Still
         /\ \/ task' = task /\ localQ' = localQ
            \/ /\ attached[s] /\ At(s, current[s], "idle")
               /\ \E u : /\ Go(s, current[s], u)
                         /\ \/ /\ u.step \in {"log", "items", "max", "revs",
                                              "exec"}
                               /\ localQ' = localQ
                            \/ /\ u.step = "repair" /\ Noted(s)
                               /\ u.got = snapshot[s] /\ u.told = dirty[s]
<1> USE DEF remoteVars, localVars, linkVars, bounds
<1> DEFINE g == current[s]
           Is(u) == \/ /\ u.step \in {"log", "items", "max", "revs", "exec"}
                       /\ localQ' = localQ
                    \/ /\ u.step = "repair" /\ Noted(s)
                       /\ u.got = snapshot[s] /\ u.told = dirty[s]
           Starts == /\ attached[s] /\ At(s, g, "idle")
                     /\ \E u : Go(s, g, u) /\ Is(u)
<1>f. Still
  BY DEF StartStep, StartSync, StartSweep, StartSave, RefuseOffline, Still
<1>go. ASSUME NEW u, Go(s, g, u), Is(u), attached[s], At(s, g, "idle")
       PROVE  Starts
  BY <1>go
<1>sweep. ASSUME NEW op, NEW refs, NEW u, u = Sweep(s, op, refs),
                 Begin(s, g, u), attached[s], At(s, g, "idle")
          PROVE  Starts
  <2>1. Go(s, g, u) /\ (u.step # "repair" => localQ' = localQ)
    BY <1>sweep DEF Begin
  <2>2. \/ u.step \in {"max", "revs"}
        \/ /\ u.step = "repair" /\ Noted(s)
           /\ u.got = snapshot[s] /\ u.told = dirty[s]
    BY <1>sweep, SweepOpens
  <2> QED BY <1>sweep, <2>1, <2>2, <1>go
<1> SUFFICES Starts \/ (task' = task /\ localQ' = localQ)
  BY <1>f
<1> HIDE DEF Starts
<1>1. ASSUME NEW req \in pending[s], StartSync(s, req)
      PROVE  Starts
  <2> DEFINE pull == [Idle EXCEPT !.op = "pull", !.step = "log",
                                  !.upTo = watermark[s]]
             items == [Idle EXCEPT !.op = "rows", !.step = "items",
                                   !.refs = req.refs]
             t == CASE req.op = "pull" -> pull
                    [] req.op = "rows" -> items
                    [] OTHER -> Sweep(s, "kinds", req.refs)
  <2>1. Begin(s, g, t) /\ attached[s] /\ At(s, g, "idle")
    BY <1>1 DEF StartSync
  <2>2. pull.step = "log" /\ items.step = "items"
    BY DEF Idle
  <2>3. t \in {pull, items} \/ t = Sweep(s, "kinds", req.refs)
    OBVIOUS
  <2>4. CASE t \in {pull, items}
    <3>1. t.step \in {"log", "items"}
      BY <2>2, <2>4
    <3> HIDE DEF t
    <3>2. Go(s, g, t) /\ localQ' = localQ
      BY <2>1, <3>1 DEF Begin
    <3> QED BY <1>go, <2>1, <3>1, <3>2
  <2>5. CASE t = Sweep(s, "kinds", req.refs)
    BY <1>sweep, <2>1, <2>5
  <2> QED BY <2>3, <2>4, <2>5
<1>2. CASE StartSweep(s)
  BY <1>2, <1>sweep DEF StartSweep
<1>3. CASE StartSave(s)
  <2> DEFINE t == [Idle EXCEPT !.op = "save", !.step = "exec",
                               !.todo = Diff(draft[s])]
  <2>1. t.step = "exec"
    BY DEF Idle
  <2>2. Go(s, g, t) /\ attached[s] /\ At(s, g, "idle") /\ localQ' = localQ
    BY <1>3 DEF StartSave
  <2> HIDE DEF t
  <2> QED BY <2>1, <2>2, <1>go
<1>4. CASE RefuseOffline(s)
  BY <1>4 DEF RefuseOffline
<1> QED BY <1>1, <1>2, <1>3, <1>4 DEF StartStep

\* The steps of a task that only read.
LEMMA ReadsAre ==
  ASSUME TypeInv, NEW s \in Station, NEW g \in Engine,
         \/ PullLog(s, g) \/ PullKinds(s, g) \/ ReadMarkers(s, g)
         \/ SweepMax(s, g) \/ SweepRevs(s, g) \/ ReadItems(s, g)
         \/ Advance(s, g) \/ Abandon(s, g)
  PROVE  /\ Still /\ localQ' = localQ
         /\ task[s][g].step \notin {"idle", "mirror", "nudge"}
         /\ \E u : /\ Go(s, g, u)
                   /\ u.step \in {"idle", "kinds", "items", "marker", "revs",
                                  "apply", "advance"}
<1> USE DEF remoteVars, localVars, linkVars, bounds
<1> DEFINE t == task[s][g]
           Reads == \E u : /\ Go(s, g, u)
                           /\ u.step \in {"idle", "kinds", "items", "marker",
                                          "revs", "apply", "advance"}
<1>t. t \in Task
  BY DEF TypeInv, TypeOK
<1>i. Idle.step = "idle"
  BY DEF Idle
<1>f. Still /\ localQ' = localQ
  BY DEF PullLog, PullKinds, ReadMarkers, SweepMax, SweepRevs, ReadItems,
         Advance, Abandon, Still
<1>s. t.step \notin {"idle", "mirror", "nudge"}
  BY DEF PullLog, PullKinds, ReadMarkers, SweepMax, SweepRevs, ReadItems,
         Advance, Abandon, At
<1>read. ASSUME NEW u, Go(s, g, u),
                u.step \in {"idle", "kinds", "items", "marker", "revs",
                            "apply", "advance"}
         PROVE  Reads
  BY <1>read
<1> SUFFICES Reads
  BY <1>f, <1>s
<1> HIDE DEF t, Reads
<1>1. CASE PullLog(s, g)
  <2>1. PICK refs, upTo :
          Go(s, g, IF {c \in log : c.id > t.upTo} = {} THEN Idle
                   ELSE [t EXCEPT !.step = "kinds", !.refs = refs,
                                  !.upTo = upTo])
    BY <1>1 DEF PullLog, t
  <2>2. PICK u : Go(s, g, u) /\ u \in {Idle, [t EXCEPT !.step = "kinds",
                                      !.refs = refs, !.upTo = upTo]}
    BY <2>1
  <2>3. u.step \in {"idle", "kinds"}
    BY <1>t, <1>i, <2>2 DEF Task
  <2> QED BY <2>2, <2>3, <1>read
<1>2. CASE PullKinds(s, g)
  <2> DEFINE suspect == Suspects(s, {KindOf[e] : e \in t.refs})
             u == [t EXCEPT !.suspect = suspect,
                            !.step = IF suspect = {} THEN "items"
                                                     ELSE "marker"]
  <2>1. Go(s, g, u)
    BY <1>2 DEF PullKinds, t
  <2>2. u.step \in {"items", "marker"}
    <3> HIDE DEF suspect
    <3> QED BY <1>t DEF Task
  <2> HIDE DEF u
  <2> QED BY <2>1, <2>2, <1>read
<1>3. CASE ReadMarkers(s, g)
  <2> DEFINE refused == t.suspect \ migrated
             owned == {e \in t.refs : KindOf[e] \notin refused}
             refs == IF t.op = "pull" THEN owned
                                      ELSE Differing(s, owned, t.got)
             next == [t EXCEPT !.suspect = {}, !.refused = refused,
                               !.refs = refs, !.got = Idle.got,
                               !.step = "items"]
             u == IF t.op # "pull" /\ refs = {} THEN AfterApply(s, g, next)
                                                ELSE next
  <2>1. next.step = "items"
    <3>1. t \in Task
      BY <1>t
    <3> HIDE DEF refused, refs, t
    <3> QED BY <3>1 DEF Task
  <2>2. u.step \in {"idle", "advance", "items"}
    <3> HIDE DEF next, refs
    <3> QED BY <2>1, AfterApplyInHand
  <2>3. Go(s, g, u)
    BY <1>3 DEF ReadMarkers, t
  <2> HIDE DEF u
  <2> QED BY <2>2, <2>3, <1>read
<1>4. CASE SweepMax(s, g)
  <2>1. PICK upTo : Go(s, g, [t EXCEPT !.step = "revs", !.upTo = upTo])
    BY <1>4 DEF SweepMax, t
  <2>2. [t EXCEPT !.step = "revs", !.upTo = upTo].step = "revs"
    BY <1>t DEF Task
  <2> QED BY <2>1, <2>2, <1>read
<1>5. CASE SweepRevs(s, g)
  <2>1. PICK suspect, refs :
          Go(s, g, IF suspect # {}
                     THEN [t EXCEPT !.suspect = suspect, !.got = rows,
                                    !.step = "marker"]
                   ELSE IF refs = {} THEN AfterApply(s, g, t)
                   ELSE [t EXCEPT !.refs = refs, !.step = "items"])
    BY <1>5 DEF SweepRevs, t
  <2>2. PICK u : /\ Go(s, g, u)
                 /\ u \in {[t EXCEPT !.suspect = suspect, !.got = rows,
                                     !.step = "marker"],
                           AfterApply(s, g, t),
                           [t EXCEPT !.refs = refs, !.step = "items"]}
    BY <2>1
  <2>3. u.step \in {"idle", "advance", "items", "marker"}
    BY <1>t, <2>2, AfterApplyInHand DEF Task
  <2> QED BY <2>2, <2>3, <1>read
<1>6. CASE ReadItems(s, g)
  <2>1. PICK got : Go(s, g, [t EXCEPT !.step = "apply", !.got = got])
    BY <1>6 DEF ReadItems, t
  <2>2. [t EXCEPT !.step = "apply", !.got = got].step = "apply"
    BY <1>t DEF Task
  <2> QED BY <2>1, <2>2, <1>read
<1>7. CASE Advance(s, g)
  BY <1>7, <1>i, <1>read DEF Advance
<1>8. CASE Abandon(s, g)
  BY <1>8, <1>i, <1>read DEF Abandon, Dropped
<1> QED BY <1>1, <1>2, <1>3, <1>4, <1>5, <1>6, <1>7, <1>8

\* A repair writes what its task has, and clears the notes; or it fails.
LEMMA RepairIs ==
  ASSUME TypeInv, NEW s \in Station, NEW g \in Engine, RepairMirror(s, g)
  PROVE  /\ At(s, g, "repair")
         /\ attached' = attached /\ current' = current
         /\ snapshot' = snapshot /\ view' = view
         /\ \E u : Go(s, g, u) /\ u.step \in {"max", "revs"}
<1> USE DEF remoteVars, localVars, linkVars, bounds
<1> DEFINE t == task[s][g]
           u == [t EXCEPT !.step = ReadStep(t.op), !.told = {},
                          !.got = Idle.got]
<1>1. /\ Go(s, g, u) /\ At(s, g, "repair")
      /\ attached' = attached /\ current' = current
      /\ snapshot' = snapshot /\ view' = view
  BY DEF RepairMirror
<1>2. u.step \in {"max", "revs"}
  <2>1. t \in Task
    BY DEF TypeInv, TypeOK
  <2> QED BY <2>1 DEF Task, ReadStep
<1> HIDE DEF u
<1> QED BY <1>1, <1>2

\* After the mirror write a task has a nudge to send, or it announces what it
\* moved.
LEMMA WriteIs ==
  ASSUME TypeInv, NEW s \in Station, NEW g \in Engine, WriteMirror(s, g)
  PROVE  /\ At(s, g, "mirror") /\ Served(s, g)
         /\ localQ' = [localQ EXCEPT ![s] = Tail(@)]
         /\ attached' = attached /\ current' = current /\ snapshot' = snapshot
         /\ \E u : /\ Go(s, g, u)
                   /\ \/ /\ u.step = "nudge" /\ u.told = task[s][g].told
                         /\ view' = view
                      \/ /\ u.step \in {"idle", "advance"}
                         /\ Announce(s, task[s][g].told)
<1> USE DEF remoteVars, localVars, linkVars, bounds
<1> DEFINE t == task[s][g]
           u == [t EXCEPT !.step = "nudge"]
           v == AfterApply(s, g, t)
           Goal == \E w : /\ Go(s, g, w)
                          /\ \/ /\ w.step = "nudge" /\ w.told = t.told
                                /\ view' = view
                             \/ /\ w.step \in {"idle", "advance"}
                                /\ Announce(s, t.told)
<1>1. /\ At(s, g, "mirror") /\ Served(s, g)
      /\ localQ' = [localQ EXCEPT ![s] = Tail(@)]
      /\ attached' = attached /\ current' = current /\ snapshot' = snapshot
      /\ \/ Go(s, g, u) /\ view' = view
         \/ Go(s, g, v) /\ Announce(s, t.told)
  BY DEF WriteMirror
<1>2. u.step = "nudge" /\ u.told = t.told
  <2>1. t \in Task
    BY DEF TypeInv, TypeOK
  <2> QED BY <2>1 DEF Task
<1>3. v.step \in {"idle", "advance"}
  BY AfterApplyInHand
<1> HIDE DEF u, v
<1>4. Goal
  BY <1>1, <1>2, <1>3
<1> QED BY <1>1, <1>4

\* Where memory moves it takes the rows of a task, which the task then carries
\* to the disk; what it does not announce has the content it had.
Takes(s, g, u) ==
  /\ Go(s, g, u) /\ u.step = "mirror" /\ u.refs \subseteq Entity
  /\ \A e \in Entity : snapshot'[s][e] =
       IF e \in u.refs THEN u.got[e] ELSE snapshot[s][e]
  /\ \A r \in Station \ {s} : snapshot'[r] = snapshot[r]
  /\ mirror' = mirror /\ dirty' = dirty /\ view' = view
  /\ attached' = attached /\ current' = current
  /\ localQ' = [localQ EXCEPT ![s] = Append(@, g)]

\* An apply ends, or it takes what it read.
LEMMA ApplyIs ==
  ASSUME TypeInv, NEW s \in Station, NEW g \in Engine, Apply(s, g)
  PROVE  /\ At(s, g, "apply")
         /\ \/ /\ Still /\ localQ' = localQ
               /\ \E u : Go(s, g, u) /\ u.step \in {"idle", "advance"}
            \/ \E u : /\ Takes(s, g, u)
                      /\ \A e \in u.refs :
                           e \in u.told \/ u.got[e].val = snapshot[s][e].val
<1> USE DEF remoteVars, localVars, linkVars, bounds
<1> DEFINE t == task[s][g]
           fresh == Taken(s, t)
           told == {e \in fresh : t.got[e].val # snapshot[s][e].val}
<1>t. t \in Task /\ t.step = "apply" /\ fresh \subseteq Entity
  BY Versions DEF Apply, At, Taken
<1>f. /\ attached' = attached /\ current' = current /\ mirror' = mirror
      /\ dirty' = dirty /\ view' = view
  BY DEF Apply
<1>1. CASE /\ Go(s, g, AfterApply(s, g, t)) /\ snapshot' = snapshot
           /\ localQ' = localQ
  <2>1. PICK u : Go(s, g, u) /\ u.step \in {"idle", "advance"}
    BY <1>1, AfterApplyInHand
  <2> QED BY <1>1, <1>f, <1>t, <2>1 DEF Still, At
<1>2. CASE /\ snapshot' = [snapshot EXCEPT ![s] = [e \in Entity |->
                             IF e \in fresh THEN t.got[e] ELSE @[e]]]
           /\ Go(s, g, [t EXCEPT !.step = "mirror", !.refs = fresh,
                                 !.told = told])
           /\ localQ' = [localQ EXCEPT ![s] = Append(@, g)]
  <2>1. /\ \A e \in Entity : snapshot'[s][e] =
             IF e \in fresh THEN t.got[e] ELSE snapshot[s][e]
        /\ \A r \in Station \ {s} : snapshot'[r] = snapshot[r]
    BY <1>2 DEF TypeInv, TypeOK
  <2>2. PICK u : /\ Go(s, g, u) /\ u.step = "mirror" /\ u.refs = fresh
                 /\ u.told = told /\ u.got = t.got
    <3> DEFINE u == [t EXCEPT !.step = "mirror", !.refs = fresh,
                              !.told = told]
    <3>1. Go(s, g, u)
      BY <1>2
    <3> HIDE DEF t, fresh, told
    <3>2. u.step = "mirror" /\ u.refs = fresh /\ u.told = told
          /\ u.got = t.got
      BY <1>t DEF Task
    <3> HIDE DEF u
    <3> QED BY <3>1, <3>2
  <2>3. \A e \in fresh : e \in told \/ t.got[e].val = snapshot[s][e].val
    OBVIOUS
  <2>4. At(s, g, "apply")
    BY <1>t DEF At
  <2> HIDE DEF t, fresh, told
  <2>5. Takes(s, g, u)
    BY <1>2, <1>f, <1>t, <2>1, <2>2 DEF Takes
  <2> QED BY <2>2, <2>3, <2>4, <2>5
<1> QED BY <1>1, <1>2 DEF Apply

\* The steps of a save: within its transaction or at its end, the taking of
\* what it has committed, and the nudge with the event.
LEMMA SavesAre ==
  ASSUME TypeInv, NEW s \in Station, NEW g \in Engine,
         SaveStep(s, g) \/ LoseLink(s, g)
  PROVE  \/ /\ Still /\ localQ' = localQ
            /\ task[s][g].step \in {"exec", "ack"}
            /\ \E u : /\ Go(s, g, u) /\ u.step \in {"exec", "idle", "ack"}
                      /\ u.step = "ack" => u.told = u.refs
         \/ /\ At(s, g, "ack")
            /\ \E u : /\ Takes(s, g, u) /\ u.refs = task[s][g].refs
                      /\ u.told = task[s][g].told
         \/ /\ At(s, g, "nudge") /\ Announce(s, task[s][g].told)
            /\ Go(s, g, Idle) /\ localQ' = localQ
            /\ attached' = attached /\ current' = current
            /\ snapshot' = snapshot /\ mirror' = mirror /\ dirty' = dirty
<1> USE DEF remoteVars, localVars, linkVars, bounds
<1> DEFINE t == task[s][g]
           Works == /\ Still /\ localQ' = localQ /\ t.step \in {"exec", "ack"}
                    /\ \E u : /\ Go(s, g, u)
                              /\ u.step \in {"exec", "idle", "ack"}
                              /\ u.step = "ack" => u.told = u.refs
           Acks == /\ At(s, g, "ack")
                   /\ \E u : /\ Takes(s, g, u) /\ u.refs = t.refs
                             /\ u.told = t.told
           Nudges == /\ At(s, g, "nudge") /\ Announce(s, t.told)
                     /\ Go(s, g, Idle) /\ localQ' = localQ
                     /\ attached' = attached /\ current' = current
                     /\ snapshot' = snapshot /\ mirror' = mirror
                     /\ dirty' = dirty
<1>t. /\ t \in Task /\ t.refs \subseteq Entity
  BY Versions
<1>i. Idle.step = "idle"
  BY DEF Idle
<1> SUFFICES Works \/ Acks \/ Nudges
  OBVIOUS
<1>only. ASSUME NEW u, Go(s, g, u), t.step \in {"exec", "ack"},
                u.step \in {"exec", "idle", "ack"},
                u.step = "ack" => u.told = u.refs,
                Still, localQ' = localQ
         PROVE  Works
  BY <1>only
<1> HIDE DEF t, Works, Acks, Nudges
<1>back. ASSUME NEW why, RollBack(s, g, why), t.step \in {"exec", "ack"}
         PROVE  Works
  <2>1. Still /\ localQ' = localQ /\ Go(s, g, Idle)
    BY <1>back DEF RollBack, Still
  <2> QED BY <1>back, <1>i, <1>only, <2>1
<1>1. ASSUME NEW e \in Entity, ExecStatement(s, g, e) PROVE Works
  <2>1. PICK entries :
        Go(s, g, [t EXCEPT !.todo = @ \ {e}, !.held = @ \cup {e},
                           !.entries = entries])
    <3>1. Go(s, g, [t EXCEPT !.todo = @ \ {e}, !.held = @ \cup {e},
                   !.entries = IF Logged(s, e)
                     THEN @ \cup {[id |-> nextId, entity |-> e,
                                   ver |-> rows[e].ver + 1, late |-> FALSE]}
                     ELSE @])
      BY <1>1 DEF ExecStatement, t
    <3> QED BY <3>1
  <2>2. t.step = "exec" /\ Still /\ localQ' = localQ
    BY <1>1 DEF ExecStatement, IsNext, At, t, Still
  <2>3. [t EXCEPT !.todo = @ \ {e}, !.held = @ \cup {e},
                  !.entries = entries].step = "exec"
    BY <1>t, <2>2 DEF Task
  <2> QED BY <1>only, <2>1, <2>2, <2>3
<1>2. ASSUME NEW e \in Entity, Conflict(s, g, e) PROVE Works
  BY <1>2, <1>back DEF Conflict, IsNext, At, t
<1>3. CASE Deadlock(s, g)
  BY <1>3, <1>back DEF Deadlock, IsNext, At, t
<1>4. CASE LoseLink(s, g)
  BY <1>4, <1>back DEF LoseLink, t
<1>5. CASE Commit(s, g)
  <2> DEFINE new == [e \in Entity |->
                IF e \in t.held THEN Written(draft[s], e) ELSE NoItem]
             u == [t EXCEPT !.step = "ack", !.refs = t.held, !.held = {},
                        !.entries = {}, !.told = t.held, !.got = new]
  <2>1. Go(s, g, u) /\ t.step = "exec" /\ Still /\ localQ' = localQ
    BY <1>5 DEF Commit, At, t, Still
  <2>2. u.step = "ack" /\ u.told = u.refs
    <3> HIDE DEF new
    <3> QED BY <1>t DEF Task
  <2> HIDE DEF u
  <2> QED BY <1>only, <2>1, <2>2
<1>6. CASE Acknowledge(s, g)
  <2>1. PICK u : /\ Go(s, g, u) /\ u.step = "mirror" /\ u.refs = t.refs
                 /\ u.got = t.got /\ u.told = t.told
    <3> DEFINE u == [t EXCEPT !.step = "mirror"]
    <3>1. Go(s, g, u)
      BY <1>6 DEF Acknowledge, t
    <3>2. /\ u.step = "mirror" /\ u.refs = t.refs /\ u.got = t.got
          /\ u.told = t.told
      BY <1>t DEF Task
    <3> HIDE DEF u
    <3> QED BY <3>1, <3>2
  <2>2. /\ attached' = attached /\ current' = current
        /\ mirror' = mirror /\ dirty' = dirty /\ view' = view
        /\ localQ' = [localQ EXCEPT ![s] = Append(@, g)]
        /\ At(s, g, "ack")
    BY <1>6 DEF Acknowledge
  <2>3. /\ \A e \in Entity : snapshot'[s][e] =
             IF e \in t.refs THEN t.got[e] ELSE snapshot[s][e]
        /\ \A r \in Station \ {s} : snapshot'[r] = snapshot[r]
    BY <1>6 DEF Acknowledge, Swapped, t, TypeInv, TypeOK
  <2>4. Takes(s, g, u)
    BY <1>t, <2>1, <2>2, <2>3 DEF Takes
  <2> QED BY <2>1, <2>2, <2>4 DEF Acks
<1>7. CASE Nudge(s, g)
  BY <1>7 DEF Nudge, Nudges, t
<1> QED BY <1>1, <1>2, <1>3, <1>4, <1>5, <1>6, <1>7 DEF SaveStep

\* An attachment begins with a sweep; a detachment and what the channel
\* delivers leave the tasks alone.
LEMMA LinksAre ==
  ASSUME TypeInv, NEW s \in Station, LinkStep(s)
  PROVE  /\ snapshot' = snapshot /\ mirror' = mirror /\ dirty' = dirty
         /\ view' = view
         /\ \/ /\ task' = task /\ localQ' = localQ
               /\ "detach" \notin Faults =>
                    attached' = attached /\ current' = current
            \/ \E g \in Engine :
                 /\ At(s, g, "idle") /\ (attached[s] => "detach" \in Faults)
                 /\ attached' = [attached EXCEPT ![s] = TRUE]
                 /\ current' = [current EXCEPT ![s] = g]
                 /\ \E u : /\ Go(s, g, u)
                           /\ \/ /\ u.step \in {"max", "revs"}
                                 /\ localQ' = localQ
                              \/ /\ u.step = "repair" /\ Noted(s)
                                 /\ u.got = snapshot[s] /\ u.told = dirty[s]
<1> USE DEF remoteVars, localVars, linkVars, bounds
<1>f. /\ snapshot' = snapshot /\ mirror' = mirror /\ dirty' = dirty
      /\ view' = view
  BY DEF LinkStep, Attach, Detach, ChannelOpen, ChannelDrop, Relisten
<1>1. CASE Attach(s)
  <2>1. PICK g \in Engine : g = 3 - current[s]
    <3>1. current[s] \in Engine
      BY DEF TypeInv, TypeOK
    <3> QED BY <3>1 DEF Engine
  <2>2. PICK u : u = Sweep(s, "sweep", Entity)
    OBVIOUS
  <2>3. /\ At(s, g, "idle") /\ (attached[s] => "detach" \in Faults)
        /\ attached' = [attached EXCEPT ![s] = TRUE]
        /\ current' = [current EXCEPT ![s] = g]
        /\ Begin(s, g, u)
    BY <1>1, <2>1, <2>2 DEF Attach, Fault
  <2>4. Go(s, g, u) /\ (u.step # "repair" => localQ' = localQ)
    BY <2>3 DEF Begin
  <2>5. \/ u.step \in {"max", "revs"}
        \/ /\ u.step = "repair" /\ Noted(s)
           /\ u.got = snapshot[s] /\ u.told = dirty[s]
    BY <2>2, SweepOpens
  <2> QED BY <1>f, <2>3, <2>4, <2>5
<1>2. CASE Detach(s) \/ ChannelOpen(s) \/ ChannelDrop(s) \/ Relisten(s)
  <2>1. /\ task' = task /\ localQ' = localQ
        /\ "detach" \notin Faults =>
             attached' = attached /\ current' = current
    BY <1>2 DEF Detach, ChannelOpen, ChannelDrop, Relisten, Fault
  <2> QED BY <1>f, <2>1
<1> QED BY <1>1, <1>2 DEF LinkStep

\* A station that starts again has in memory what is on its disk, and its
\* listeners read that.
LEMMA RestartIs ==
  ASSUME TypeInv, NEW s \in Station, Restart(s)
  PROVE  /\ \A g \in Engine : task'[s][g].step = "idle"
         /\ \A r \in Station \ {s}, g \in Engine : task'[r][g] = task[r][g]
         /\ \A e \in Entity : view'[s][e] = mirror[s][e].val
         /\ snapshot'[s] = mirror[s] /\ mirror' = mirror /\ dirty'[s] = {}
         /\ current' = current /\ localQ'[s] = <<>>
         /\ \A r \in Station \ {s} :
              /\ snapshot'[r] = snapshot[r] /\ attached'[r] = attached[r]
              /\ dirty'[r] = dirty[r] /\ view'[r] = view[r]
              /\ localQ'[r] = localQ[r]
<1> USE DEF remoteVars, localVars, linkVars, bounds
<1>1. /\ \A g \in Engine : task'[s][g] = Idle
      /\ \A r \in Station \ {s}, g \in Engine : task'[r][g] = task[r][g]
  BY DEF Restart, TypeInv, TypeOK
<1>2. /\ \A e \in Entity : view'[s][e] = mirror[s][e].val
      /\ snapshot'[s] = mirror[s] /\ mirror' = mirror /\ dirty'[s] = {}
      /\ current' = current /\ localQ'[s] = <<>>
  BY DEF Restart, TypeInv, TypeOK
<1>3. \A r \in Station \ {s} :
        /\ snapshot'[r] = snapshot[r] /\ attached'[r] = attached[r]
        /\ dirty'[r] = dirty[r] /\ view'[r] = view[r]
        /\ localQ'[r] = localQ[r]
  BY DEF Restart, TypeInv, TypeOK
<1>4. Idle.step = "idle"
  BY DEF Idle
<1> QED BY <1>1, <1>2, <1>3, <1>4

\* An edit that begins, a migration and a step of nobody leave a station's
\* tasks and copies alone.
LEMMA OthersAre ==
  ASSUME NEW s, NEW k, BeginEdit(s) \/ Migrate(k) \/ UNCHANGED vars
  PROVE  Still /\ task' = task /\ localQ' = localQ
BY DEF BeginEdit, Migrate, vars, Still, remoteVars, localVars, linkVars, bounds

-----------------------------------------------------------------------------
(***************************************************************************)
(* The listeners.  What the memory takes, the task that took it announces, *)
(* unless it did not change the content; and an announcement reads the     *)
(* memory, so it does not matter in which order two engines announce.      *)
(***************************************************************************)
\* A save that is committed will announce what it has written.
AnnounceInv ==
  /\ EveryChangeAnnounced
  /\ \A s \in Station, g \in Engine :
       At(s, g, "ack") => task[s][g].told = task[s][g].refs

\* The task t is about to announce e.
Tells(t, e) == t.step \in {"mirror", "nudge"} /\ e \in t.told

\* A step of engine g: each entity is announced, or on its way with the task g
\* goes on with, or it is as it was and the task did not carry it.
LEMMA StepAnnounces ==
  ASSUME TypeInv, AnnounceInv, NEW s \in Station, NEW g \in Engine, NEW u,
         Go(s, g, u), u.step = "ack" => u.told = u.refs,
         \A r \in Station \ {s} :
           snapshot'[r] = snapshot[r] /\ view'[r] = view[r],
         \A e \in Entity :
           \/ view'[s][e] = snapshot'[s][e].val
           \/ Tells(u, e)
           \/ /\ view'[s][e] = view[s][e]
              /\ snapshot'[s][e].val = snapshot[s][e].val
              /\ ~Tells(task[s][g], e)
  PROVE  AnnounceInv'
<1>1. /\ task'[s][g] = u
      /\ \A r \in Station, h \in Engine :
           r # s \/ h # g => task'[r][h] = task[r][h]
  BY GoIs
<1>2. EveryChangeAnnounced'
  <2> SUFFICES ASSUME NEW r \in Station, NEW e \in Entity,
                      view'[r][e] # snapshot'[r][e].val
               PROVE  \E h \in Engine : Tells(task'[r][h], e)
    BY DEF EveryChangeAnnounced, Tells
  <2>1. \/ view[r][e] = snapshot[r][e].val
        \/ \E h \in Engine : Tells(task[r][h], e)
    BY DEF AnnounceInv, EveryChangeAnnounced, Tells
  <2>2. CASE r # s
    BY <1>1, <2>1, <2>2
  <2>3. CASE r = s
    BY <1>1, <2>1, <2>3
  <2> QED BY <2>2, <2>3
<1>3. \A r \in Station, h \in Engine :
        At(r, h, "ack")' => task'[r][h].told = task'[r][h].refs
  BY <1>1 DEF AnnounceInv, At
<1> QED BY <1>2, <1>3 DEF AnnounceInv

\* A step that only changes a task, which was not about to announce anything.
LEMMA TaskAnnounces ==
  ASSUME TypeInv, AnnounceInv, NEW s \in Station, NEW g \in Engine, NEW u,
         Go(s, g, u), u.step = "ack" => u.told = u.refs,
         task[s][g].step \notin {"mirror", "nudge"},
         snapshot' = snapshot, view' = view
  PROVE  AnnounceInv'
BY StepAnnounces DEF Tells

\* An announcement tells the listeners what the memory has.
LEMMA AnnouncedIs ==
  ASSUME TypeInv, NEW s \in Station, NEW told, Announce(s, told)
  PROVE  /\ \A e \in Entity : view'[s][e] =
              IF e \in told THEN snapshot[s][e].val ELSE view[s][e]
         /\ \A r \in Station \ {s} : view'[r] = view[r]
BY DEF Announce, TypeInv, TypeOK

\* A step that moves nothing of this.
LEMMA NothingAnnounced ==
  ASSUME AnnounceInv, snapshot' = snapshot, view' = view, task' = task
  PROVE  AnnounceInv'
BY DEF AnnounceInv, EveryChangeAnnounced, At

\* The chain, from its starts to the reads.
LEMMA ChainAnnounces ==
  ASSUME TypeInv, AnnounceInv, NEW s \in Station,
         \/ StartStep(s)
         \/ \E g \in Engine : SyncStep(s, g) \/ Abandon(s, g)
  PROVE  AnnounceInv'
<1>1. CASE StartStep(s)
  <2>1. current[s] \in Engine
    BY DEF TypeInv, TypeOK
  <2>2. snapshot' = snapshot /\ view' = view
    BY <1>1, StartsAre DEF Still
  <2>3. CASE task' = task
    BY <2>2, <2>3, NothingAnnounced
  <2>4. ASSUME NEW u, Go(s, current[s], u), u.step # "ack",
               At(s, current[s], "idle")
        PROVE  AnnounceInv'
    BY <2>1, <2>2, <2>4, TaskAnnounces DEF At
  <2>5. \/ task' = task
        \/ /\ At(s, current[s], "idle")
           /\ \E u : Go(s, current[s], u) /\ u.step # "ack"
    BY <1>1, StartsAre
  <2> QED BY <2>3, <2>4, <2>5
<1>2. ASSUME NEW g \in Engine,
             \/ PullLog(s, g) \/ PullKinds(s, g) \/ ReadMarkers(s, g)
             \/ SweepMax(s, g) \/ SweepRevs(s, g) \/ ReadItems(s, g)
             \/ Advance(s, g) \/ Abandon(s, g)
      PROVE  AnnounceInv'
  <2>1. Still /\ task[s][g].step \notin {"idle", "mirror", "nudge"}
        /\ \E u : Go(s, g, u) /\ u.step # "ack"
    BY <1>2, ReadsAre
  <2> QED BY <2>1, TaskAnnounces DEF Still
<1>3. ASSUME NEW g \in Engine, RepairMirror(s, g) PROVE AnnounceInv'
  <2>1. /\ At(s, g, "repair") /\ snapshot' = snapshot /\ view' = view
        /\ \E u : Go(s, g, u) /\ u.step # "ack"
    BY <1>3, RepairIs
  <2> QED BY <2>1, TaskAnnounces DEF At
<1>4. ASSUME NEW g \in Engine, WriteMirror(s, g) PROVE AnnounceInv'
  <2> DEFINE t == task[s][g]
  <2>1. PICK u : /\ Go(s, g, u)
                 /\ \/ /\ u.step = "nudge" /\ u.told = t.told
                       /\ view' = view
                    \/ /\ u.step \in {"idle", "advance"}
                       /\ Announce(s, t.told)
    BY <1>4, WriteIs
  <2>2. snapshot' = snapshot
    BY <1>4, WriteIs
  <2>3. CASE u.step = "nudge" /\ u.told = t.told /\ view' = view
    BY <2>1, <2>2, <2>3, StepAnnounces DEF Tells
  <2>4. CASE u.step \in {"idle", "advance"} /\ Announce(s, t.told)
    <3>1. /\ \A e \in Entity : view'[s][e] =
               IF e \in t.told THEN snapshot[s][e].val ELSE view[s][e]
          /\ \A r \in Station \ {s} : view'[r] = view[r]
      BY <2>4, AnnouncedIs
    <3> QED BY <2>1, <2>2, <2>4, <3>1, StepAnnounces DEF Tells
  <2> QED BY <2>1, <2>3, <2>4
<1>5. ASSUME NEW g \in Engine, Apply(s, g) PROVE AnnounceInv'
  <2>1. At(s, g, "apply")
    BY <1>5, ApplyIs
  <2>2. ASSUME NEW u, Go(s, g, u), u.step \in {"idle", "advance"}, Still
        PROVE  AnnounceInv'
    BY <2>1, <2>2, TaskAnnounces DEF At, Still
  <2>3. ASSUME NEW u, Takes(s, g, u),
               \A e \in u.refs :
                 e \in u.told \/ u.got[e].val = snapshot[s][e].val
        PROVE  AnnounceInv'
    BY <2>1, <2>3, StepAnnounces DEF Takes, Tells, At
  <2> QED BY <1>5, <2>2, <2>3, ApplyIs
<1> QED BY <1>1, <1>2, <1>3, <1>4, <1>5 DEF SyncStep

\* A save announces what it has written when it has been told of the commit.
LEMMA SavesAnnounce ==
  ASSUME TypeInv, AnnounceInv, NEW s \in Station, NEW g \in Engine,
         SaveStep(s, g) \/ LoseLink(s, g)
  PROVE  AnnounceInv'
<1> DEFINE t == task[s][g]
<1>1. ASSUME NEW u, Go(s, g, u), u.step = "ack" => u.told = u.refs, Still,
             t.step \in {"exec", "ack"}
      PROVE  AnnounceInv'
  BY <1>1, TaskAnnounces DEF Still
<1>2. ASSUME NEW u, Takes(s, g, u), u.refs = t.refs, u.told = t.told,
             At(s, g, "ack")
      PROVE  AnnounceInv'
  <2>1. u.told = u.refs
    BY <1>2 DEF AnnounceInv
  <2> QED BY <1>2, <2>1, StepAnnounces DEF Takes, Tells, At
<1>3. ASSUME At(s, g, "nudge"), Announce(s, t.told), Go(s, g, Idle),
             snapshot' = snapshot
      PROVE  AnnounceInv'
  <2>1. /\ \A e \in Entity : view'[s][e] =
             IF e \in t.told THEN snapshot[s][e].val ELSE view[s][e]
        /\ \A r \in Station \ {s} : view'[r] = view[r]
    BY <1>3, AnnouncedIs
  <2>2. Idle.step # "ack"
    BY DEF Idle
  <2> QED BY <1>3, <2>1, <2>2, StepAnnounces DEF Tells
<1> QED BY <1>1, <1>2, <1>3, SavesAre

\* Links, restarts and what others do.
LEMMA RestAnnounces ==
  ASSUME TypeInv, AnnounceInv, NEW s \in Station,
         LinkStep(s) \/ Restart(s)
  PROVE  AnnounceInv'
<1>1. CASE LinkStep(s)
  <2>1. snapshot' = snapshot /\ view' = view
    BY <1>1, LinksAre
  <2>2. \/ task' = task
        \/ \E g \in Engine : \E u :
             Go(s, g, u) /\ At(s, g, "idle") /\ u.step # "ack"
    BY <1>1, LinksAre
  <2>3. ASSUME NEW g \in Engine, NEW u, Go(s, g, u), At(s, g, "idle"),
               u.step # "ack"
        PROVE  AnnounceInv'
    BY <2>1, <2>3, TaskAnnounces DEF At
  <2> QED BY <2>1, <2>2, <2>3, NothingAnnounced
<1>2. CASE Restart(s)
  <2>1. EveryChangeAnnounced'
    BY <1>2, RestartIs DEF AnnounceInv, EveryChangeAnnounced
  <2>2. \A r \in Station, h \in Engine :
          At(r, h, "ack")' => task'[r][h].told = task'[r][h].refs
    BY <1>2, RestartIs DEF AnnounceInv, At
  <2> QED BY <2>1, <2>2 DEF AnnounceInv
<1> QED BY <1>1, <1>2

\* The listeners start with what the memory has.
LEMMA AnnounceInit == Init => AnnounceInv
<1> SUFFICES ASSUME Init PROVE AnnounceInv
  OBVIOUS
<1>1. /\ \A s \in Station, g \in Engine : task[s][g].step = "idle"
      /\ \A s \in Station, e \in Entity : view[s][e] = snapshot[s][e].val
  BY DEF Init, Idle
<1> QED BY <1>1 DEF AnnounceInv, EveryChangeAnnounced, At

\* Every step leaves them behind by no more than is on its way.
LEMMA AnnounceNext ==
  ASSUME TypeInv, AnnounceInv, [Next]_vars
  PROVE  AnnounceInv'
<1>1. ASSUME NEW s, NEW k, BeginEdit(s) \/ Migrate(k) \/ UNCHANGED vars
      PROVE  AnnounceInv'
  BY <1>1, OthersAre, NothingAnnounced DEF Still
<1>2. ASSUME NEW s \in Station, NEW g \in Engine,
             SyncStep(s, g) \/ Abandon(s, g)
      PROVE  AnnounceInv'
  BY <1>2, ChainAnnounces
<1>3. ASSUME NEW s \in Station, StartStep(s) PROVE AnnounceInv'
  BY <1>3, ChainAnnounces
<1> QED BY <1>1, <1>2, <1>3, SavesAnnounce, RestAnnounces DEF Next

\* The listeners of the change stream work from the content the store serves,
\* or the event is on its way: no apply, save, re-attachment or restart leaves
\* a change unannounced (keyMappingChanges).
THEOREM ChangesAreAnnounced == Spec => []EveryChangeAnnounced
<1>1. AnnounceInv => EveryChangeAnnounced
  BY DEF AnnounceInv
<1>2. TypeInv /\ AnnounceInv /\ [Next]_vars => AnnounceInv'
  BY AnnounceNext
<1> QED BY <1>1, <1>2, AnnounceInit, TypesInvariant, PTL DEF Spec

-----------------------------------------------------------------------------
(***************************************************************************)
(* The disk, when nobody detaches a station while it runs.  A station has  *)
(* one task at a time then, so the rows that task carries to the disk are  *)
(* the ones of the memory until it has written or noted them, and a repair *)
(* carries just the rows that are noted (Carrying).                        *)
(***************************************************************************)
\* What a task of s carries to the disk.
Carrying(s, t) ==
  /\ t.step = "mirror" => \A e \in t.refs : t.got[e] = snapshot[s][e]
  /\ t.step = "repair" => /\ t.told = dirty[s]
                          /\ \A e \in t.told : t.got[e] = snapshot[s][e]

MirrorInv ==
  /\ SoleTask /\ MirrorOrDirty
  /\ \A s \in Station, g \in Engine : Carrying(s, task[s][g])

\* Nothing that the memory of s has is missing on its disk but what is noted
\* or t carries.
Complete(s, t) ==
  \A e \in Entity :
    \/ mirror[s][e] = snapshot[s][e]
    \/ e \in dirty[s]
    \/ t.step = "mirror" /\ e \in t.refs

\* A station whose other engine is idle is complete but for its one task.
LEMMA CompleteButTask ==
  ASSUME MirrorInv, NEW s \in Station, NEW g \in Engine,
         \A h \in Engine : h # g => At(s, h, "idle")
  PROVE  Complete(s, task[s][g])
BY DEF MirrorInv, MirrorOrDirty, Complete, At

\* A step of s that leaves it complete but for the task it goes on with.
LEMMA StationComplete ==
  ASSUME TypeInv, MirrorInv, NEW s \in Station, NEW g \in Engine, NEW u,
         Go(s, g, u), \A h \in Engine : h # g => At(s, h, "idle"),
         \A r \in Station \ {s} :
           /\ snapshot'[r] = snapshot[r] /\ mirror'[r] = mirror[r]
           /\ dirty'[r] = dirty[r]
           /\ attached'[r] = attached[r] /\ current'[r] = current[r],
         u.step # "idle" => attached'[s] /\ current'[s] = g,
         Complete(s, u)', Carrying(s, u)'
  PROVE  MirrorInv'
<1>1. /\ task'[s][g] = u
      /\ \A r \in Station, h \in Engine :
           r # s \/ h # g => task'[r][h] = task[r][h]
  BY GoIs
<1>2. SoleTask'
  BY <1>1 DEF MirrorInv, SoleTask, At
<1>3. MirrorOrDirty'
  BY <1>1 DEF MirrorInv, MirrorOrDirty, Complete, At
<1>4. \A r \in Station, h \in Engine : Carrying(r, task[r][h])'
  BY <1>1 DEF MirrorInv, Carrying, At
<1> QED BY <1>2, <1>3, <1>4 DEF MirrorInv

\* A step that only changes the task, of an engine that was not carrying.
LEMMA TaskComplete ==
  ASSUME TypeInv, MirrorInv, NEW s \in Station, NEW g \in Engine, NEW u,
         Go(s, g, u), ~At(s, g, "idle") \/ (attached[s] /\ g = current[s]),
         ~At(s, g, "mirror"),
         snapshot' = snapshot, mirror' = mirror, dirty' = dirty,
         attached' = attached, current' = current, Carrying(s, u)
  PROVE  MirrorInv'
<1>1. attached[s] /\ g = current[s]
  BY DEF MirrorInv, SoleTask
<1>2. \A h \in Engine : h # g => At(s, h, "idle")
  BY <1>1 DEF MirrorInv, SoleTask
<1>3. Complete(s, task[s][g])
  BY <1>2, CompleteButTask
<1>4. Complete(s, u)'
  BY <1>3 DEF Complete, At
<1>5. Carrying(s, u)'
  BY DEF Carrying
<1> QED BY <1>1, <1>2, <1>4, <1>5, StationComplete

\* A step that moves none of what the invariant is about.
LEMMA NothingCarried ==
  ASSUME MirrorInv, snapshot' = snapshot, mirror' = mirror, dirty' = dirty,
         attached' = attached, current' = current, task' = task
  PROVE  MirrorInv'
BY DEF MirrorInv, SoleTask, MirrorOrDirty, Carrying, At

\* The other engine of a station whose task goes on is idle.
LEMMA OthersIdle ==
  ASSUME MirrorInv, NEW s \in Station, NEW g \in Engine, ~At(s, g, "idle")
  PROVE  /\ attached[s] /\ g = current[s]
         /\ \A h \in Engine : h # g => At(s, h, "idle")
         /\ Complete(s, task[s][g])
<1>1. attached[s] /\ g = current[s]
  BY DEF MirrorInv, SoleTask
<1>2. \A h \in Engine : h # g => At(s, h, "idle")
  BY <1>1 DEF MirrorInv, SoleTask
<1> QED BY <1>1, <1>2, CompleteButTask

\* A repair writes what is noted, as the memory has it, and clears the notes;
\* or it fails and leaves both.
LEMMA RepairCarries ==
  ASSUME TypeInv, MirrorInv, NEW s \in Station, NEW g \in Engine,
         RepairMirror(s, g)
  PROVE  MirrorInv'
<1> DEFINE t == task[s][g]
<1>1. PICK u : Go(s, g, u) /\ u.step \in {"max", "revs"}
  BY RepairIs
<1>f. /\ At(s, g, "repair") /\ attached' = attached /\ current' = current
      /\ snapshot' = snapshot
  BY RepairIs
<1>h. t.told = dirty[s] /\ \A e \in t.told : t.got[e] = snapshot[s][e]
  BY <1>f DEF MirrorInv, Carrying, At
<1>s. /\ attached[s] /\ g = current[s] /\ Complete(s, t)
      /\ \A h \in Engine : h # g => At(s, h, "idle")
  BY <1>f, OthersIdle DEF At
<1>2. CASE mirror' = mirror /\ dirty' = dirty
  BY <1>1, <1>2, <1>f, <1>s, TaskComplete DEF At, Carrying
<1>3. CASE Write(s, t.told, t.got) /\ dirty' = [dirty EXCEPT ![s] = {}]
  <2>1. /\ \A e \in Entity :
             mirror'[s][e] = IF e \in t.told THEN t.got[e] ELSE mirror[s][e]
        /\ \A r \in Station \ {s} : mirror'[r] = mirror[r]
    BY <1>3 DEF Write, TypeInv, TypeOK
  <2>2. dirty'[s] = {} /\ \A r \in Station \ {s} : dirty'[r] = dirty[r]
    BY <1>3 DEF TypeInv, TypeOK
  <2>3. \A e \in Entity : mirror'[s][e] = snapshot'[s][e]
    BY <1>f, <1>h, <1>s, <2>1 DEF Complete, At
  <2>4. Complete(s, u)'
    BY <2>3 DEF Complete
  <2>5. Carrying(s, u)'
    BY <1>1 DEF Carrying
  <2> QED BY <1>1, <1>f, <1>s, <2>1, <2>2, <2>4, <2>5, StationComplete
<1> QED BY <1>2, <1>3 DEF RepairMirror

\* The mirror write lands or is noted.
LEMMA WriteCarries ==
  ASSUME TypeInv, MirrorInv, NEW s \in Station, NEW g \in Engine,
         WriteMirror(s, g)
  PROVE  MirrorInv'
<1> DEFINE t == task[s][g]
<1>u. PICK u : Go(s, g, u) /\ u.step \in {"nudge", "idle", "advance"}
  BY WriteIs
<1>f. /\ At(s, g, "mirror") /\ attached' = attached /\ current' = current
      /\ snapshot' = snapshot
  BY WriteIs
<1>h. \A e \in t.refs : t.got[e] = snapshot[s][e]
  BY <1>f DEF MirrorInv, Carrying, At
<1>s. /\ attached[s] /\ g = current[s] /\ Complete(s, t)
      /\ \A h \in Engine : h # g => At(s, h, "idle")
  BY <1>f, OthersIdle DEF At
<1>1. /\ \A e \in Entity : mirror'[s][e] = snapshot[s][e] \/ e \in dirty'[s]
      /\ \A r \in Station \ {s} :
           mirror'[r] = mirror[r] /\ dirty'[r] = dirty[r]
  <2>1. CASE Write(s, t.refs, t.got) /\ dirty' = dirty
    <3>1. /\ \A e \in Entity :
             mirror'[s][e] = IF e \in t.refs THEN t.got[e] ELSE mirror[s][e]
          /\ \A r \in Station \ {s} : mirror'[r] = mirror[r]
      BY <2>1 DEF Write, TypeInv, TypeOK
    <3> HIDE DEF t
    <3> QED BY <1>h, <1>s, <2>1, <3>1 DEF Complete
  <2>2. CASE NoteDirty(s, t.refs) /\ mirror' = mirror
    <3>1. /\ dirty'[s] = dirty[s] \cup t.refs
          /\ \A r \in Station \ {s} : dirty'[r] = dirty[r]
      BY <2>2 DEF NoteDirty, TypeInv, TypeOK
    <3> HIDE DEF t
    <3> QED BY <1>s, <2>2, <3>1 DEF Complete
  <2> QED BY <2>1, <2>2 DEF WriteMirror
<1>2. Complete(s, u)' /\ Carrying(s, u)'
  BY <1>1, <1>f, <1>u DEF Complete, Carrying
<1> QED BY <1>1, <1>2, <1>f, <1>s, <1>u, StationComplete

\* The memory takes rows, and the task carries them on.
LEMMA TakingCarries ==
  ASSUME TypeInv, MirrorInv, NEW s \in Station, NEW g \in Engine, NEW u,
         Takes(s, g, u), At(s, g, "apply") \/ At(s, g, "ack")
  PROVE  MirrorInv'
<1>1. /\ attached[s] /\ g = current[s] /\ Complete(s, task[s][g])
      /\ \A h \in Engine : h # g => At(s, h, "idle")
  BY OthersIdle DEF At
<1>2. Complete(s, u)'
  BY <1>1 DEF Complete, Takes, At
<1>3. Carrying(s, u)'
  BY DEF Carrying, Takes
<1> QED BY <1>1, <1>2, <1>3, StationComplete DEF Takes

\* The steps of a task between its start and its end.
LEMMA TasksCarry ==
  ASSUME TypeInv, MirrorInv, NEW s \in Station, NEW g \in Engine,
         \/ SyncStep(s, g) \/ Abandon(s, g)
         \/ SaveStep(s, g) \/ LoseLink(s, g)
  PROVE  MirrorInv'
<1>only. ASSUME NEW u, Go(s, g, u), Still,
                task[s][g].step \notin {"idle", "mirror"},
                u.step \notin {"mirror", "repair"}
         PROVE  MirrorInv'
  BY <1>only, TaskComplete DEF Still, At, Carrying
<1>1. CASE \/ PullLog(s, g) \/ PullKinds(s, g) \/ ReadMarkers(s, g)
           \/ SweepMax(s, g) \/ SweepRevs(s, g) \/ ReadItems(s, g)
           \/ Advance(s, g) \/ Abandon(s, g)
  <2>1. /\ Still /\ task[s][g].step \notin {"idle", "mirror"}
        /\ \E u : Go(s, g, u) /\ u.step \notin {"mirror", "repair"}
    BY <1>1, ReadsAre
  <2> QED BY <2>1, <1>only
<1>2. CASE Apply(s, g)
  <2>1. At(s, g, "apply")
    BY <1>2, ApplyIs
  <2>2. \/ /\ Still
           /\ \E u : Go(s, g, u) /\ u.step \notin {"mirror", "repair"}
        \/ \E u : Takes(s, g, u)
    BY <1>2, ApplyIs
  <2>3. task[s][g].step \notin {"idle", "mirror"}
    BY <2>1 DEF At
  <2> QED BY <2>1, <2>2, <2>3, <1>only, TakingCarries
<1>3. CASE SaveStep(s, g) \/ LoseLink(s, g)
  <2>1. CASE /\ Still /\ task[s][g].step \in {"exec", "ack"}
             /\ \E u : Go(s, g, u) /\ u.step \in {"exec", "idle", "ack"}
    BY <2>1, <1>only
  <2>2. CASE At(s, g, "ack") /\ \E u : Takes(s, g, u)
    BY <2>2, TakingCarries
  <2>3. CASE /\ At(s, g, "nudge") /\ Go(s, g, Idle)
             /\ attached' = attached /\ current' = current
             /\ snapshot' = snapshot /\ mirror' = mirror /\ dirty' = dirty
    <3>1. Idle.step = "idle"
      BY DEF Idle
    <3> QED BY <2>3, <3>1, TaskComplete DEF At, Carrying
  <2> QED BY <1>3, <2>1, <2>2, <2>3, SavesAre
<1> QED BY <1>1, <1>2, <1>3, RepairCarries, WriteCarries DEF SyncStep

\* A task that starts leaves disk and notes as they are.
LEMMA StartsCarry ==
  ASSUME TypeInv, MirrorInv, NEW s \in Station, StartStep(s)
  PROVE  MirrorInv'
<1> DEFINE g == current[s]
<1>1. g \in Engine
  BY DEF TypeInv, TypeOK
<1>2. ASSUME NEW u, Go(s, g, u), attached[s], At(s, g, "idle"),
             Carrying(s, u), Still
      PROVE  MirrorInv'
  BY <1>1, <1>2, TaskComplete DEF At, Still
<1>3. \/ task' = task
      \/ /\ attached[s] /\ At(s, g, "idle")
         /\ \E u : Go(s, g, u) /\ Carrying(s, u)
  BY StartsAre DEF Carrying
<1>4. Still
  BY StartsAre
<1>5. CASE task' = task
  BY <1>4, <1>5, NothingCarried DEF Still
<1> QED BY <1>2, <1>3, <1>4, <1>5

\* Attaching and what the channel delivers move neither memory nor disk.
LEMMA LinksCarry ==
  ASSUME TypeInv, MirrorInv, NoDetach, NEW s \in Station, LinkStep(s)
  PROVE  MirrorInv'
<1>1. snapshot' = snapshot /\ mirror' = mirror /\ dirty' = dirty
  BY LinksAre
<1>2. ASSUME NEW g \in Engine, NEW u, Go(s, g, u), ~attached[s],
             attached' = [attached EXCEPT ![s] = TRUE],
             current' = [current EXCEPT ![s] = g], Carrying(s, u)
      PROVE  MirrorInv'
  <2>1. /\ attached'[s] /\ current'[s] = g
        /\ \A r \in Station \ {s} : attached'[r] = attached[r]
                                    /\ current'[r] = current[r]
    BY <1>2 DEF TypeInv, TypeOK
  <2>2. \A i \in Engine : At(s, i, "idle")
    BY <1>2 DEF MirrorInv, SoleTask
  <2>3. Complete(s, task[s][g])
    BY <2>2, CompleteButTask
  <2>4. Complete(s, u)' /\ Carrying(s, u)'
    BY <1>1, <1>2, <2>2, <2>3 DEF Complete, Carrying, At
  <2> QED BY <1>1, <1>2, <2>1, <2>2, <2>4, StationComplete
<1>3. \/ task' = task /\ attached' = attached /\ current' = current
      \/ \E g \in Engine :
           /\ ~attached[s] /\ attached' = [attached EXCEPT ![s] = TRUE]
           /\ current' = [current EXCEPT ![s] = g]
           /\ \E u : Go(s, g, u) /\ Carrying(s, u)
  BY LinksAre DEF NoDetach, Carrying
<1>4. CASE task' = task /\ attached' = attached /\ current' = current
  BY <1>1, <1>4, NothingCarried
<1> QED BY <1>2, <1>3, <1>4

\* A station that starts again reads the memory from the disk.
LEMMA RestartCarries ==
  ASSUME TypeInv, MirrorInv, NEW s \in Station, Restart(s)
  PROVE  MirrorInv'
<1>1. SoleTask'
  BY RestartIs DEF MirrorInv, SoleTask, At
<1>2. MirrorOrDirty'
  BY RestartIs DEF MirrorInv, MirrorOrDirty, At
<1>3. \A r \in Station, h \in Engine : Carrying(r, task[r][h])'
  BY RestartIs DEF MirrorInv, Carrying
<1> QED BY <1>1, <1>2, <1>3 DEF MirrorInv

\* At the start every station has on its disk what it has in memory.
LEMMA MirrorInit == Init => MirrorInv
<1> SUFFICES ASSUME Init PROVE MirrorInv
  OBVIOUS
<1>1. /\ snapshot = mirror
      /\ \A s \in Station, g \in Engine : task[s][g].step = "idle"
  BY DEF Init, Idle
<1> QED BY <1>1 DEF MirrorInv, SoleTask, MirrorOrDirty, Carrying, At

\* Every step keeps the disk behind the memory by what is noted or carried.
LEMMA MirrorNext ==
  ASSUME TypeInv, MirrorInv, NoDetach, [Next]_vars
  PROVE  MirrorInv'
<1>1. ASSUME NEW s \in Station, NEW g \in Engine,
             \/ SyncStep(s, g) \/ Abandon(s, g)
             \/ SaveStep(s, g) \/ LoseLink(s, g)
      PROVE  MirrorInv'
  BY <1>1, TasksCarry
<1>2. ASSUME NEW s \in Station, StartStep(s) \/ LinkStep(s) \/ Restart(s)
      PROVE  MirrorInv'
  BY <1>2, StartsCarry, LinksCarry, RestartCarries
<1>3. ASSUME NEW s, NEW k, BeginEdit(s) \/ Migrate(k) \/ UNCHANGED vars
      PROVE  MirrorInv'
  BY <1>3, OthersAre, NothingCarried DEF Still
<1> QED BY <1>1, <1>2, <1>3 DEF Next

\* The invariant in every reachable state.
LEMMA MirrorInvariant == ASSUME NoDetach PROVE Spec => []MirrorInv
<1>1. TypeInv /\ MirrorInv /\ [Next]_vars => MirrorInv'
  BY MirrorNext
<1> QED BY <1>1, MirrorInit, TypesInvariant, PTL DEF Spec

-----------------------------------------------------------------------------
(***************************************************************************)
(* The disk, when no write of it fails.  A station may be attached again   *)
(* then, and two of its engines be at a mirror write at the same time.     *)
(* The local database takes the writes in the order they were issued, and  *)
(* each was issued with the rows the memory took at that moment: the last  *)
(* one that is on its way to a row has what the memory has (Lands).        *)
(***************************************************************************)
NoFailedWrite == "mirror" \notin Faults

\* The writes of s that are on their way.
Writes(s) == 1 .. Len(localQ[s])
Rows(s, i) == task[s][localQ[s][i]].refs

\* Nothing is noted, and the queue is of the engines that are at a write.
Queued(s) ==
  /\ dirty[s] = {}
  /\ \A g \in Engine :
       At(s, g, "mirror") <=> \E i \in Writes(s) : localQ[s][i] = g
  /\ \A g \in Engine : ~At(s, g, "repair")
  /\ \A i, j \in Writes(s) : localQ[s][i] = localQ[s][j] => i = j

\* Each row is on the disk as the memory has it, or the last write that is on
\* its way to it has it so.
Lands(s) ==
  \A e \in Entity :
    /\ (\A i \in Writes(s) : e \notin Rows(s, i)) =>
         mirror[s][e] = snapshot[s][e]
    /\ \A i \in Writes(s) :
         /\ e \in Rows(s, i)
         /\ \A j \in Writes(s) : j > i => e \notin Rows(s, j)
         => task[s][localQ[s][i]].got[e] = snapshot[s][e]

LandInv == \A s \in Station : Queued(s) /\ Lands(s)

\* A step that leaves a station's copies, queue and writing tasks alone.
LEMMA SameLands ==
  ASSUME TypeInv, LandInv, NEW s \in Station,
         snapshot'[s] = snapshot[s], mirror'[s] = mirror[s],
         dirty'[s] = dirty[s], localQ'[s] = localQ[s],
         \A g \in Engine :
           \/ task'[s][g] = task[s][g]
           \/ /\ ~At(s, g, "mirror")
              /\ task'[s][g].step \notin {"mirror", "repair"}
  PROVE  Queued(s)' /\ Lands(s)'
<1>q. /\ Queued(s) /\ Lands(s)
      /\ \A i \in Writes(s) : localQ[s][i] \in Engine
  BY DEF LandInv, TypeInv, TypeOK, Writes
<1>1. Writes(s)' = Writes(s)
  BY DEF Writes
<1>2. \A g \in Engine : /\ At(s, g, "mirror")' <=> At(s, g, "mirror")
                        /\ ~At(s, g, "repair")'
  BY <1>q DEF Queued, At
<1>3. \A i \in Writes(s) : /\ task'[s][localQ'[s][i]] = task[s][localQ[s][i]]
                           /\ localQ'[s][i] = localQ[s][i]
  BY <1>q DEF Queued
<1>4. Queued(s)'
  BY <1>q, <1>1, <1>2 DEF Queued
<1>5. \A i \in Writes(s) : Rows(s, i)' = Rows(s, i)
  BY <1>3 DEF Rows
<1>6. Lands(s)'
  BY <1>q, <1>1, <1>3, <1>5 DEF Lands
<1> QED BY <1>4, <1>6

\* A step of a task that neither issues a write nor ends one.
LEMMA TaskLands ==
  ASSUME TypeInv, LandInv, NEW s \in Station, NEW g \in Engine, NEW u,
         Go(s, g, u), ~At(s, g, "mirror"),
         u.step \notin {"mirror", "repair"},
         snapshot' = snapshot, mirror' = mirror, dirty' = dirty,
         localQ' = localQ
  PROVE  LandInv'
<1>1. /\ task'[s][g] = u
      /\ \A r \in Station, h \in Engine :
           r # s \/ h # g => task'[r][h] = task[r][h]
  BY GoIs
<1>2. ASSUME NEW r \in Station PROVE Queued(r)' /\ Lands(r)'
  <2>1. \A h \in Engine :
          \/ task'[r][h] = task[r][h]
          \/ /\ ~At(r, h, "mirror")
             /\ task'[r][h].step \notin {"mirror", "repair"}
    BY <1>1
  <2> QED BY <2>1, SameLands
<1> QED BY <1>2 DEF LandInv

\* A step that moves none of this.
LEMMA NothingLands ==
  ASSUME TypeInv, LandInv, snapshot' = snapshot, mirror' = mirror,
         dirty' = dirty, localQ' = localQ, task' = task
  PROVE  LandInv'
BY SameLands DEF LandInv

\* The memory takes rows, and the task that has them joins the queue.
LEMMA TakingLands ==
  ASSUME TypeInv, LandInv, NEW s \in Station, NEW g \in Engine, NEW u,
         Takes(s, g, u), ~At(s, g, "mirror")
  PROVE  LandInv'
<1>1. /\ task'[s][g] = u
      /\ \A r \in Station, h \in Engine :
           r # s \/ h # g => task'[r][h] = task[r][h]
  BY GoIs DEF Takes
<1>2. ASSUME NEW r \in Station, r # s PROVE Queued(r)' /\ Lands(r)'
  <2>1. /\ snapshot'[r] = snapshot[r] /\ mirror'[r] = mirror[r]
        /\ dirty'[r] = dirty[r] /\ localQ'[r] = localQ[r]
    BY <1>2 DEF Takes, TypeInv, TypeOK
  <2> QED BY <1>1, <1>2, <2>1, SameLands
<1>3. Queued(s)' /\ Lands(s)'
  <2> DEFINE q == localQ[s]
             n == Len(q)
             p == localQ'[s]
  <2>q. q \in Seq(Engine) /\ n \in Nat /\ Queued(s) /\ Lands(s)
    BY DEF LandInv, TypeInv, TypeOK
  <2>1. /\ p = Append(q, g) /\ Len(p) = n + 1 /\ p[n + 1] = g
        /\ \A i \in 1 .. n : p[i] = q[i] /\ q[i] \in Engine /\ q[i] # g
    <3>1. p = Append(q, g)
      BY DEF Takes, TypeInv, TypeOK
    <3>2. \A i \in 1 .. n : q[i] \in Engine /\ q[i] # g
      BY <2>q DEF Queued, Writes
    <3> HIDE DEF q, p
    <3> QED BY <2>q, <3>1, <3>2
  <2>2. Writes(s) = 1 .. n /\ Writes(s)' = 1 .. (n + 1)
    BY <2>1 DEF Writes
  <2>3. /\ \A i \in 1 .. n : task'[s][p[i]] = task[s][q[i]]
        /\ task'[s][p[n + 1]] = u
    <3> HIDE DEF q, p, n
    <3>1. task'[s][p[n + 1]] = u
      <4>1. p[n + 1] = g
        BY <2>1
      <4> QED BY <1>1, <4>1
    <3>2. ASSUME NEW i \in 1 .. n PROVE task'[s][p[i]] = task[s][q[i]]
      <4>1. p[i] = q[i] /\ q[i] \in Engine /\ q[i] # g
        BY <2>1
      <4> QED BY <1>1, <4>1
    <3> QED BY <3>1, <3>2
  <2>4. /\ mirror'[s] = mirror[s] /\ dirty'[s] = dirty[s] /\ u.step = "mirror"
        /\ u.refs \subseteq Entity
        /\ \A e \in Entity : snapshot'[s][e] =
             IF e \in u.refs THEN u.got[e] ELSE snapshot[s][e]
    BY DEF Takes
  <2>5. Queued(s)'
    <3>1. dirty'[s] = {} /\ \A h \in Engine : ~At(s, h, "repair")'
      BY <1>1, <2>q, <2>4 DEF Queued, At
    <3>2. \A i, j \in Writes(s)' : p[i] = p[j] => i = j
      <4> HIDE DEF q, p
      <4>1. \A i, j \in 1 .. n : q[i] = q[j] => i = j
        BY <2>q, <2>2 DEF Queued, q
      <4> HIDE DEF n
      <4> QED BY <2>q, <2>1, <2>2, <4>1
    <3>3. ASSUME NEW h \in Engine
          PROVE  At(s, h, "mirror")' <=> \E i \in Writes(s)' : p[i] = h
      <4>1. At(s, h, "mirror") <=> \E i \in 1 .. n : q[i] = h
        BY <2>q, <2>2 DEF Queued
      <4>2. CASE h = g
        <5>1. n + 1 \in 1 .. (n + 1)
          BY <2>q
        <5> QED BY <1>1, <2>1, <2>2, <2>4, <4>2, <5>1 DEF At
      <4>3. CASE h # g
        <5>1. At(s, h, "mirror")' <=> At(s, h, "mirror")
          BY <1>1, <4>3 DEF At
        <5> HIDE DEF q, p, n
        <5>2. (\E i \in 1 .. (n + 1) : p[i] = h)
                <=> \E i \in 1 .. n : q[i] = h
          BY <2>q, <2>1, <4>3
        <5> QED BY <2>2, <4>1, <5>1, <5>2
      <4> QED BY <4>2, <4>3
    <3> QED BY <3>1, <3>2, <3>3 DEF Queued
  <2>6. Lands(s)'
    <3> DEFINE Then(i) == task'[s][p[i]]
               Now(i) == task[s][q[i]]
    <3>u. /\ \A i \in 1 .. n : Then(i) = Now(i)
          /\ Then(n + 1) = u
      BY <2>3
    <3> SUFFICES ASSUME NEW e \in Entity
        PROVE  /\ (\A i \in 1 .. (n + 1) : e \notin Then(i).refs) =>
                    mirror'[s][e] = snapshot'[s][e]
               /\ \A i \in 1 .. (n + 1) :
                    /\ e \in Then(i).refs
                    /\ \A j \in 1 .. (n + 1) : j > i => e \notin Then(j).refs
                    => Then(i).got[e] = snapshot'[s][e]
      BY <2>2 DEF Lands, Rows
    <3>1. /\ (\A i \in 1 .. n : e \notin Now(i).refs) =>
               mirror[s][e] = snapshot[s][e]
          /\ \A i \in 1 .. n :
               /\ e \in Now(i).refs
               /\ \A j \in 1 .. n : j > i => e \notin Now(j).refs
               => Now(i).got[e] = snapshot[s][e]
      BY <2>q, <2>2 DEF Lands, Rows
    <3>2. /\ n + 1 \in 1 .. (n + 1)
          /\ \A i \in 1 .. n : i \in 1 .. (n + 1) /\ n + 1 > i
      BY <2>q
    <3>3. \A i \in 1 .. (n + 1) : i = n + 1 \/ i \in 1 .. n
      BY <2>q
    <3> HIDE DEF q, p, n, Then, Now
    <3>4. ASSUME \A i \in 1 .. (n + 1) : e \notin Then(i).refs
          PROVE  mirror'[s][e] = snapshot'[s][e]
      <4>1. e \notin u.refs /\ \A i \in 1 .. n : e \notin Now(i).refs
        BY <3>u, <3>2, <3>4
      <4> QED BY <2>4, <3>1, <4>1
    <3>5. ASSUME NEW i \in 1 .. (n + 1), e \in Then(i).refs,
                 \A j \in 1 .. (n + 1) : j > i => e \notin Then(j).refs
          PROVE  Then(i).got[e] = snapshot'[s][e]
      <4>1. CASE i = n + 1
        BY <2>4, <3>u, <3>5, <4>1
      <4>2. CASE i \in 1 .. n
        <5>1. e \notin u.refs
          BY <3>u, <3>2, <3>5, <4>2
        <5>2. \A j \in 1 .. n : j > i => e \notin Now(j).refs
          BY <3>u, <3>2, <3>5
        <5>3. Now(i).got[e] = snapshot[s][e]
          BY <3>u, <3>1, <3>5, <4>2, <5>2
        <5> QED BY <2>4, <3>u, <4>2, <5>1, <5>3
      <4> QED BY <3>3, <4>1, <4>2
    <3> QED BY <3>4, <3>5
  <2> QED BY <2>5, <2>6
<1> QED BY <1>2, <1>3 DEF LandInv

\* The oldest write lands.
LEMMA WriteLands ==
  ASSUME TypeInv, LandInv, NoFailedWrite, NEW s \in Station,
         NEW g \in Engine, WriteMirror(s, g)
  PROVE  LandInv'
<1> DEFINE t == task[s][g]
<1>u. PICK u : Go(s, g, u) /\ u.step \in {"nudge", "idle", "advance"}
  BY WriteIs
<1>1. /\ task'[s][g] = u
      /\ \A r \in Station, h \in Engine :
           r # s \/ h # g => task'[r][h] = task[r][h]
  BY <1>u, GoIs
<1>f. /\ At(s, g, "mirror") /\ Served(s, g)
      /\ localQ' = [localQ EXCEPT ![s] = Tail(@)] /\ snapshot' = snapshot
  BY WriteIs
<1>w. Write(s, t.refs, t.got) /\ dirty' = dirty
  BY DEF WriteMirror, Fault, NoFailedWrite
<1>m. /\ \A e \in Entity :
           mirror'[s][e] = IF e \in t.refs THEN t.got[e] ELSE mirror[s][e]
      /\ \A r \in Station \ {s} : mirror'[r] = mirror[r]
  BY <1>w DEF Write, TypeInv, TypeOK
<1>2. ASSUME NEW r \in Station, r # s PROVE Queued(r)' /\ Lands(r)'
  <2>1. /\ snapshot'[r] = snapshot[r] /\ mirror'[r] = mirror[r]
        /\ dirty'[r] = dirty[r] /\ localQ'[r] = localQ[r]
    BY <1>2, <1>f, <1>m, <1>w DEF TypeInv, TypeOK
  <2> QED BY <1>1, <1>2, <2>1, SameLands
<1>3. Queued(s)' /\ Lands(s)'
  <2> DEFINE q == localQ[s]
             n == Len(q) - 1
             p == localQ'[s]
  <2>q. q \in Seq(Engine) /\ q # <<>> /\ Head(q) = g /\ Queued(s) /\ Lands(s)
    BY <1>f DEF LandInv, TypeInv, TypeOK, Served
  <2>1. /\ n \in Nat /\ Len(q) = n + 1 /\ q[1] = g /\ Len(p) = n
        /\ \A i \in 1 .. n : p[i] = q[i + 1] /\ q[i + 1] \in Engine
    <3>1. p = Tail(q)
      BY <1>f DEF TypeInv, TypeOK
    <3> HIDE DEF q, p
    <3> QED BY <2>q, <3>1
  <2>2. /\ Writes(s) = 1 .. (n + 1) /\ Writes(s)' = 1 .. n
        /\ 1 \in 1 .. (n + 1)
        /\ \A i \in 1 .. n : i + 1 \in 1 .. (n + 1) /\ i + 1 # 1 /\ i + 1 > 1
        /\ \A i \in 1 .. (n + 1) : i = 1 \/ \E k \in 1 .. n : i = k + 1
    <3>1. Writes(s) = 1 .. (n + 1) /\ Writes(s)' = 1 .. n
      BY <2>1 DEF Writes
    <3> HIDE DEF n
    <3>2. \A i \in 1 .. (n + 1) : i = 1 \/ (i - 1 \in 1 .. n /\ i = (i - 1) + 1)
      BY <2>1
    <3> QED BY <2>1, <3>1, <3>2
  <2>3. \A i, j \in 1 .. (n + 1) : q[i] = q[j] => i = j
    BY <2>q, <2>2 DEF Queued
  <2>4. \A i \in 1 .. n : q[i + 1] # g
    <3> HIDE DEF q, p, n
    <3> QED BY <2>1, <2>2, <2>3
  <2>5. \A i \in 1 .. n : /\ task'[s][p[i]] = task[s][q[i + 1]]
                          /\ Rows(s, i)' = Rows(s, i + 1)
    BY <1>1, <2>1, <2>4 DEF Rows
  <2>6. Queued(s)'
    <3>1. dirty'[s] = {} /\ \A h \in Engine : ~At(s, h, "repair")'
      BY <1>1, <1>u, <1>w, <2>q DEF Queued, At
    <3>2. \A i, j \in Writes(s)' : p[i] = p[j] => i = j
      <4> SUFFICES ASSUME NEW i \in 1 .. n, NEW j \in 1 .. n, p[i] = p[j]
                   PROVE  i = j
        BY <2>2
      <4> HIDE DEF q, p, n
      <4>1. i + 1 = j + 1
        BY <2>1, <2>2, <2>3
      <4> QED BY <2>1, <4>1
    <3>3. ASSUME NEW h \in Engine
          PROVE  At(s, h, "mirror")' <=> \E i \in Writes(s)' : p[i] = h
      <4>1. At(s, h, "mirror") <=> \E i \in 1 .. (n + 1) : q[i] = h
        BY <2>q, <2>2 DEF Queued
      <4>2. CASE h = g
        <5>1. ~At(s, h, "mirror")'
          BY <1>1, <1>u, <4>2 DEF At
        <5> QED BY <2>1, <2>2, <2>4, <4>2, <5>1
      <4>3. CASE h # g
        <5>1. At(s, h, "mirror")' <=> At(s, h, "mirror")
          BY <1>1, <4>3 DEF At
        <5> HIDE DEF q, p, n
        <5>2. ASSUME NEW i \in 1 .. (n + 1), q[i] = h
              PROVE  \E k \in 1 .. n : p[k] = h
          <6>1. PICK k \in 1 .. n : i = k + 1
            BY <2>1, <2>2, <4>3, <5>2
          <6> QED BY <2>1, <5>2, <6>1
        <5>3. ASSUME NEW k \in 1 .. n, p[k] = h
              PROVE  \E i \in 1 .. (n + 1) : q[i] = h
          BY <2>1, <2>2, <5>3
        <5> QED BY <2>2, <4>1, <5>1, <5>2, <5>3
      <4> QED BY <4>2, <4>3
    <3> QED BY <3>1, <3>2, <3>3 DEF Queued
  <2>7. Lands(s)'
    <3> SUFFICES ASSUME NEW e \in Entity
        PROVE  /\ (\A i \in 1 .. n : e \notin Rows(s, i + 1)) =>
                    mirror'[s][e] = snapshot[s][e]
               /\ \A i \in 1 .. n :
                    /\ e \in Rows(s, i + 1)
                    /\ \A j \in 1 .. n : j > i => e \notin Rows(s, j + 1)
                    => task[s][q[i + 1]].got[e] = snapshot[s][e]
      <4>1. \A i \in 1 .. n : Rows(s, i)' = Rows(s, i + 1)
        BY <2>5
      <4>2. snapshot'[s] = snapshot[s] /\ Writes(s)' = 1 .. n
        BY <1>f, <2>2
      <4>3. \A i \in 1 .. n : task'[s][localQ'[s][i]] = task[s][q[i + 1]]
        BY <2>5
      <4> HIDE DEF q, p, n
      <4> QED BY <4>1, <4>2, <4>3 DEF Lands
    <3>1. /\ (\A i \in 1 .. (n + 1) : e \notin Rows(s, i)) =>
               mirror[s][e] = snapshot[s][e]
          /\ \A i \in 1 .. (n + 1) :
               /\ e \in Rows(s, i)
               /\ \A j \in 1 .. (n + 1) : j > i => e \notin Rows(s, j)
               => task[s][q[i]].got[e] = snapshot[s][e]
      BY <2>q, <2>2 DEF Lands
    <3>2. Rows(s, 1) = t.refs /\ task[s][q[1]] = t
      BY <2>1 DEF Rows
    <3> HIDE DEF q, p, t
    <3>3. ASSUME \A i \in 1 .. n : e \notin Rows(s, i + 1)
          PROVE  mirror'[s][e] = snapshot[s][e]
      <4> HIDE DEF n
      <4>1. \A j \in 1 .. (n + 1) : j # 1 => e \notin Rows(s, j)
        BY <2>2, <3>3
      <4>2. CASE e \in t.refs
        <5>1. t.got[e] = snapshot[s][e]
          <6>1. \A j \in 1 .. (n + 1) : j > 1 => e \notin Rows(s, j)
            BY <4>1
          <6> QED BY <2>2, <3>1, <3>2, <4>2, <6>1
        <5> QED BY <1>m, <4>2, <5>1 DEF t
      <4>3. CASE e \notin t.refs
        <5>1. \A j \in 1 .. (n + 1) : e \notin Rows(s, j)
          BY <3>2, <4>1, <4>3
        <5> QED BY <1>m, <3>1, <4>3, <5>1 DEF t
      <4> QED BY <4>2, <4>3
    <3>4. ASSUME NEW i \in 1 .. n, e \in Rows(s, i + 1),
                 \A j \in 1 .. n : j > i => e \notin Rows(s, j + 1)
          PROVE  task[s][q[i + 1]].got[e] = snapshot[s][e]
      <4> HIDE DEF n
      <4>1. \A j \in 1 .. (n + 1) : j > i + 1 => e \notin Rows(s, j)
        <5> SUFFICES ASSUME NEW j \in 1 .. (n + 1), j > i + 1
                     PROVE  e \notin Rows(s, j)
          OBVIOUS
        <5>1. PICK k \in 1 .. n : j = k + 1
          BY <2>1, <2>2
        <5>2. k > i
          BY <2>1, <5>1
        <5> QED BY <3>4, <5>1, <5>2
      <4> QED BY <2>2, <3>1, <3>4, <4>1
    <3> QED BY <3>3, <3>4
  <2> QED BY <2>6, <2>7
<1> QED BY <1>2, <1>3 DEF LandInv

\* Every step of a task.
LEMMA TasksLand ==
  ASSUME TypeInv, LandInv, NoFailedWrite, NEW s \in Station, NEW g \in Engine,
         \/ SyncStep(s, g) \/ Abandon(s, g)
         \/ SaveStep(s, g) \/ LoseLink(s, g)
  PROVE  LandInv'
<1>only. ASSUME NEW u, Go(s, g, u), Still, localQ' = localQ,
                task[s][g].step # "mirror",
                u.step \notin {"mirror", "repair"}
         PROVE  LandInv'
  BY <1>only, TaskLands DEF Still, At
<1>1. CASE \/ PullLog(s, g) \/ PullKinds(s, g) \/ ReadMarkers(s, g)
           \/ SweepMax(s, g) \/ SweepRevs(s, g) \/ ReadItems(s, g)
           \/ Advance(s, g) \/ Abandon(s, g)
  <2>1. /\ Still /\ localQ' = localQ /\ task[s][g].step # "mirror"
        /\ \E u : Go(s, g, u) /\ u.step \notin {"mirror", "repair"}
    BY <1>1, ReadsAre
  <2> QED BY <2>1, <1>only
<1>2. CASE Apply(s, g)
  <2>1. At(s, g, "apply")
    BY <1>2, ApplyIs
  <2>2. \/ /\ Still /\ localQ' = localQ
           /\ \E u : Go(s, g, u) /\ u.step \notin {"mirror", "repair"}
        \/ \E u : Takes(s, g, u)
    BY <1>2, ApplyIs
  <2>3. task[s][g].step # "mirror" /\ ~At(s, g, "mirror")
    BY <2>1 DEF At
  <2> QED BY <2>2, <2>3, <1>only, TakingLands
<1>3. CASE SaveStep(s, g) \/ LoseLink(s, g)
  <2>1. CASE /\ Still /\ localQ' = localQ
             /\ task[s][g].step \in {"exec", "ack"}
             /\ \E u : Go(s, g, u) /\ u.step \in {"exec", "idle", "ack"}
    BY <2>1, <1>only
  <2>2. CASE At(s, g, "ack") /\ \E u : Takes(s, g, u)
    <3>1. ~At(s, g, "mirror")
      BY <2>2 DEF At
    <3> QED BY <2>2, <3>1, TakingLands
  <2>3. CASE /\ At(s, g, "nudge") /\ Go(s, g, Idle) /\ localQ' = localQ
             /\ snapshot' = snapshot /\ mirror' = mirror /\ dirty' = dirty
    <3>1. Idle.step = "idle"
      BY DEF Idle
    <3> QED BY <2>3, <3>1, TaskLands DEF At
  <2> QED BY <1>3, <2>1, <2>2, <2>3, SavesAre
<1>4. ~RepairMirror(s, g)
  <2>1. ~At(s, g, "repair")
    BY DEF LandInv, Queued
  <2> QED BY <2>1 DEF RepairMirror
<1> QED BY <1>1, <1>2, <1>3, <1>4, WriteLands DEF SyncStep

\* Starts, links and restarts.
LEMMA OthersLand ==
  ASSUME TypeInv, LandInv, NEW s \in Station,
         StartStep(s) \/ LinkStep(s) \/ Restart(s)
  PROVE  LandInv'
<1>c. current[s] \in Engine
  BY DEF TypeInv, TypeOK
<1>n. ~Noted(s)
  BY DEF LandInv, Queued, Noted
<1>1. CASE StartStep(s)
  <2>1. Still
    BY <1>1, StartsAre
  <2>2. \/ task' = task /\ localQ' = localQ
        \/ /\ At(s, current[s], "idle") /\ localQ' = localQ
           /\ \E u : /\ Go(s, current[s], u)
                     /\ u.step \notin {"mirror", "repair"}
    BY <1>1, <1>n, StartsAre
  <2>3. CASE task' = task /\ localQ' = localQ
    BY <2>1, <2>3, NothingLands DEF Still
  <2>4. ASSUME NEW u, At(s, current[s], "idle"), localQ' = localQ,
               Go(s, current[s], u), u.step \notin {"mirror", "repair"}
        PROVE  LandInv'
    BY <1>c, <2>1, <2>4, TaskLands DEF Still, At
  <2> QED BY <2>2, <2>3, <2>4
<1>2. CASE LinkStep(s)
  <2>1. snapshot' = snapshot /\ mirror' = mirror /\ dirty' = dirty
    BY <1>2, LinksAre
  <2>2. \/ task' = task /\ localQ' = localQ
        \/ \E g \in Engine : \E u :
             /\ At(s, g, "idle") /\ localQ' = localQ
             /\ Go(s, g, u) /\ u.step \notin {"mirror", "repair"}
    BY <1>2, <1>n, LinksAre
  <2>3. CASE task' = task /\ localQ' = localQ
    BY <2>1, <2>3, NothingLands
  <2>4. ASSUME NEW g \in Engine, NEW u, At(s, g, "idle"), localQ' = localQ,
               Go(s, g, u), u.step \notin {"mirror", "repair"}
        PROVE  LandInv'
    BY <2>1, <2>4, TaskLands DEF At
  <2> QED BY <2>2, <2>3, <2>4
<1>3. CASE Restart(s)
  <2>1. Writes(s)' = {}
    BY <1>3, RestartIs DEF Writes
  <2>2. Queued(s)'
    BY <1>3, <2>1, RestartIs DEF Queued, At
  <2>3. Lands(s)'
    BY <1>3, <2>1, RestartIs DEF Lands
  <2>4. ASSUME NEW r \in Station, r # s PROVE Queued(r)' /\ Lands(r)'
    <3>1. /\ snapshot'[r] = snapshot[r] /\ mirror'[r] = mirror[r]
          /\ dirty'[r] = dirty[r] /\ localQ'[r] = localQ[r]
          /\ \A g \in Engine : task'[r][g] = task[r][g]
      BY <1>3, <2>4, RestartIs
    <3> QED BY <3>1, SameLands
  <2> QED BY <2>2, <2>3, <2>4 DEF LandInv
<1> QED BY <1>1, <1>2, <1>3

\* At the start nothing is on its way.
LEMMA LandInit == Init => LandInv
<1> SUFFICES ASSUME Init, NEW s \in Station PROVE Queued(s) /\ Lands(s)
  BY DEF LandInv
<1>1. /\ snapshot = mirror /\ dirty[s] = {} /\ localQ[s] = <<>>
      /\ \A g \in Engine : task[s][g].step = "idle"
  BY DEF Init, Idle
<1>2. Writes(s) = {}
  BY <1>1 DEF Writes
<1> QED BY <1>1, <1>2 DEF Queued, Lands, At

\* Every step lets the last write of a row have what the memory has.
LEMMA LandNext ==
  ASSUME TypeInv, LandInv, NoFailedWrite, [Next]_vars
  PROVE  LandInv'
<1>1. ASSUME NEW s \in Station, NEW g \in Engine,
             \/ SyncStep(s, g) \/ Abandon(s, g)
             \/ SaveStep(s, g) \/ LoseLink(s, g)
      PROVE  LandInv'
  BY <1>1, TasksLand
<1>2. ASSUME NEW s \in Station, StartStep(s) \/ LinkStep(s) \/ Restart(s)
      PROVE  LandInv'
  BY <1>2, OthersLand
<1>3. ASSUME NEW s, NEW k, BeginEdit(s) \/ Migrate(k) \/ UNCHANGED vars
      PROVE  LandInv'
  BY <1>3, OthersAre, NothingLands DEF Still
<1> QED BY <1>1, <1>2, <1>3 DEF Next

\* A row that is not on the disk as the memory has it is with a write.
LEMMA LandedOrDirty == ASSUME TypeInv, LandInv PROVE MirrorOrDirty
<1> SUFFICES ASSUME NEW s \in Station, NEW e \in Entity,
                    mirror[s][e] # snapshot[s][e]
             PROVE  \E g \in Engine :
                      At(s, g, "mirror") /\ e \in task[s][g].refs
  BY DEF MirrorOrDirty
<1>1. PICK i \in Writes(s) : e \in Rows(s, i)
  BY DEF LandInv, Lands
<1>2. PICK g \in Engine : g = localQ[s][i]
  <2>1. localQ[s] \in Seq(Engine)
    BY DEF TypeInv, TypeOK
  <2> QED BY <2>1 DEF Writes
<1> QED BY <1>1, <1>2 DEF LandInv, Queued, Rows

\* The disk has what the memory has, or a note to write it again, or the write
\* is on its way: no failed transaction of the local database, repair that
\* fails or overtaking apply loses a row (_markMirrorDirty, _repairMirror).
\* With re-attachments and failures together it is not so: see _repairMirror.
THEOREM MirrorIsKept ==
  ASSUME NoDetach \/ NoFailedWrite PROVE Spec => []MirrorOrDirty
<1>1. CASE NoDetach
  <2>1. MirrorInv => MirrorOrDirty
    BY DEF MirrorInv
  <2> QED BY <1>1, <2>1, MirrorInvariant, PTL
<1>2. CASE NoFailedWrite
  <2>1. TypeInv /\ LandInv /\ [Next]_vars => LandInv'
    BY <1>2, LandNext
  <2>2. TypeInv /\ LandInv => MirrorOrDirty
    BY LandedOrDirty
  <2> QED BY <2>1, <2>2, LandInit, TypesInvariant, PTL DEF Spec
<1> QED BY <1>1, <1>2


-----------------------------------------------------------------------------
(***************************************************************************)
(* The watermark of a station claims only what the station has applied, in *)
(* memory and on disk, for any number of stations, entities, edits and     *)
(* faults: WatermarkClaimsApplied and PersistedClaimsMirrored of           *)
(* ConfigStore.  On the conditions of PromiseIsKept, and on one more:      *)
(* a station does not crash behind a mirror write that failed, for the     *)
(* note to write the row again is in memory only (_mirrorDirty).           *)
(*                                                                         *)
(* The argument.  What a watermark may claim is settled: a change row that *)
(* is not committed yet and has a number that low will be late (Bounded).  *)
(* So the change rows a task saw when it read its upTo are all that upTo   *)
(* will ever claim, what it reads after that is at least as new as they    *)
(* are (Newer), and what it does not read again the memory has already     *)
(* (Covered).                                                              *)
(***************************************************************************)

\* Writes of the mirror fail or stations crash, not both.
DiskOrCrash == ~({"mirror", "crash"} \subseteq Faults)

\* A change row is of a write its row has had.
LogCounts == \A c \in log : c.ver > 0 /\ c.ver <= rows[c.entity].ver

\* The number of a change row not yet committed is nobody else's.
Numbered ==
  \A s \in Station, g \in Engine : At(s, g, "exec") =>
    \A c \in task[s][g].entries :
      /\ \A d \in log : d.id # c.id
      /\ \A r \in Station, h \in Engine : r # s \/ h # g =>
           ~(At(r, h, "exec") /\ \E d \in task[r][h].entries : d.id = c.id)

\* What a transaction has written over is there until it ends.
Replacing ==
  \A s \in Station, g \in Engine, e \in Entity :
    LockedBy(s, g, e) /\ rows[e].ver > 0 => Held(rows[e])

\* No change row will join those up to n but a late one.
Bounded(n) ==
  /\ n < nextId
  /\ \A s \in Station, g \in Engine : At(s, g, "exec") =>
       \A c \in task[s][g].entries : c.id <= n => \E d \in log : d.id > c.id

\* The change rows up to n that are not late.
Claimed(n) == {c \in log : c.id <= n /\ ~c.late}

\* What s has in memory reflects them all, or all but those of refs.
Applied(s, n) == \A c \in Claimed(n) : Reflects(snapshot[s], c)
Covered(s, t) == \A c \in Claimed(t.upTo) :
  Reflects(snapshot[s], c) \/ c.entity \in t.refs

\* What s has on disk reflects them, or is noted.
Stored(s, n) == \A c \in Claimed(n) :
  Reflects(mirror[s], c) \/ c.entity \in dirty[s]

\* A row that was read as deleted stays deleted.
Gone(items) == \A e \in Entity :
  ~Held(items[e]) /\ items[e].ver > 0 => ~Held(rows[e]) /\ rows[e].ver > 0

\* What a task has read is at least as new as what is claimed.
Newer(t, n) == \A c \in Claimed(n) :
  c.entity \in t.refs => t.got[c.entity].ver >= c.ver

\* What a task of s knows at each of its steps.
Reading(s, t) ==
  /\ t.step = "log" => t.upTo = watermark[s]
  /\ t.step \in {"log", "kinds"} => t.op = "pull"
  /\ t.step \in {"repair", "max", "revs"} => t.op \in {"sweep", "kinds"}
  /\ t.step \in {"repair", "max", "revs", "marker"} /\ t.op = "sweep"
       => t.refs = Entity
  /\ t.step \in {"kinds", "marker"} /\ t.op = "pull" => Covered(s, t)
  /\ t.step \in {"items", "apply"} /\ t.op \in {"pull", "sweep"}
       /\ t.refused = {} => Covered(s, t)
  /\ t.step = "marker" /\ t.op # "pull" => Newer(t, t.upTo) /\ Gone(t.got)
  /\ t.step = "apply" => Newer(t, t.upTo) /\ Gone(t.got)
  /\ t.step \in {"apply", "ack"} => Newer(t, watermark[s])
  /\ t.step = "mirror" /\ t.op \in {"pull", "sweep"} /\ t.refused = {}
       => Applied(s, t.upTo)
  /\ t.step = "advance" => Applied(s, t.upTo)

\* What holds of a station whatever its tasks are at.
Honest(s) ==
  /\ persisted[s] <= watermark[s] /\ Bounded(watermark[s])
  /\ Applied(s, watermark[s]) /\ Stored(s, persisted[s])
  /\ "mirror" \notin Faults => dirty[s] = {}

WatermarkInv ==
  /\ LogCounts /\ Numbered /\ Replacing
  /\ \A s \in Station : Honest(s)
  /\ \A s \in Station, g \in Engine :
       Bounded(task[s][g].upTo) /\ Reading(s, task[s][g])

-----------------------------------------------------------------------------
(* Numbers.                                                                *)

\* Watermarks, numbers and versions are numbers.
LEMMA Numbers ==
  ASSUME TypeInv
  PROVE  /\ nextId \in Nat
         /\ \A c \in log : /\ c.id \in Nat /\ c.id < nextId /\ c.ver \in Nat
                           /\ c.entity \in Entity
         /\ \A s \in Station : watermark[s] \in Nat /\ persisted[s] \in Nat
         /\ \A s \in Station, g \in Engine :
              /\ task[s][g].upTo \in Nat
              /\ \A c \in task[s][g].entries :
                   /\ c.id \in Nat /\ c.id < nextId /\ c.ver \in Nat
                   /\ c.entity \in Entity
<1>1. \A s \in Station, g \in Engine : task[s][g] \in Task
  BY Versions
<1>2. \A t \in Task : t.upTo \in Nat /\ t.entries \subseteq ChangeRow
  BY DEF Task
<1>3. \A c \in ChangeRow : c.id \in Nat /\ c.ver \in Nat /\ c.entity \in Entity
  BY DEF ChangeRow
<1>4. /\ nextId \in Nat /\ log \subseteq ChangeRow
      /\ \A s \in Station : watermark[s] \in Nat /\ persisted[s] \in Nat
  BY DEF TypeInv, TypeOK
<1> QED BY <1>1, <1>2, <1>3, <1>4 DEF TypeInv, IdsBelowNext

\* What may be claimed is settled below as well.
LEMMA BoundedBelow ==
  ASSUME TypeInv, NEW n \in Nat, NEW m \in Nat, m <= n, Bounded(n)
  PROVE  Bounded(m)
<1>1. m < nextId
  BY Numbers DEF Bounded
<1>2. \A s \in Station, g \in Engine : \A c \in task[s][g].entries :
        c.id <= m => c.id <= n
  BY Numbers
<1> QED BY <1>1, <1>2 DEF Bounded

\* The claims of a lower watermark are among those of a higher one.
LEMMA ClaimedBelow ==
  ASSUME TypeInv, NEW n \in Nat, NEW m \in Nat, m <= n
  PROVE  Claimed(m) \subseteq Claimed(n)
BY Numbers DEF Claimed

\* The number of a change row that is visible may be claimed.
LEMMA LogIsBounded ==
  ASSUME TypeInv, Numbered, NEW d \in log
  PROVE  Bounded(d.id)
<1>1. d.id \in Nat /\ d.id < nextId
  BY Numbers
<1>2. ASSUME NEW s \in Station, NEW g \in Engine, At(s, g, "exec"),
             NEW c \in task[s][g].entries, c.id <= d.id
      PROVE  \E b \in log : b.id > c.id
  <2>1. c.id \in Nat /\ d.id # c.id
    BY <1>2, Numbers DEF Numbered
  <2> QED BY <1>1, <1>2, <2>1
<1> QED BY <1>1, <1>2 DEF Bounded

\* A station may claim nothing.
LEMMA ZeroIsBounded ==
  ASSUME TypeInv, WatermarkInv, NEW s \in Station
  PROVE  Bounded(0)
<1>1. watermark[s] \in Nat /\ Bounded(watermark[s])
  BY Numbers DEF WatermarkInv, Honest
<1>2. PICK n \in Nat : n = watermark[s]
  BY <1>1
<1> QED BY <1>1, BoundedBelow

\* An item that agrees with one that is new enough reflects the change too.
LEMMA SameReflects ==
  ASSUME TypeInv, SafeInv, NEW s \in Station, NEW got, Copies(got), Gone(got),
         NEW c, c.entity \in Entity, c.ver \in Nat, c.ver > 0,
         got[c.entity].ver \in Nat, got[c.entity].ver >= c.ver,
         Held(got[c.entity]) <=> Held(snapshot[s][c.entity]),
         Held(got[c.entity]) =>
           got[c.entity].rev = snapshot[s][c.entity].rev
  PROVE  Reflects(snapshot[s], c)
<1> DEFINE e == c.entity
<1>1. CASE Held(got[e])
  <2>1. got[e].rev = got[e].ver /\ snapshot[s][e].rev = snapshot[s][e].ver
    BY <1>1 DEF SafeInv, CopiesEverywhere, Copies, Copy
  <2> QED BY <1>1, <2>1 DEF Reflects
<1>2. CASE ~Held(got[e])
  <2>1. got[e].ver > 0
    OBVIOUS
  <2> QED BY <1>2, <2>1 DEF Gone, Reflects
<1> QED BY <1>1, <1>2

-----------------------------------------------------------------------------
(* Steps of one station.                                                   *)

\* What may be claimed may still be when a station's task moves on, outside
\* its transaction.
LEMMA BoundStays ==
  ASSUME TypeInv, NEW s \in Station, NEW g \in Engine, NEW u, Go(s, g, u),
         log' = log, nextId' = nextId, u.step = "exec" => u.entries = {}
  PROVE  \A n : Bounded(n) => Bounded(n)'
<1>1. /\ task'[s][g] = u
      /\ \A r \in Station, h \in Engine :
           r # s \/ h # g => task'[r][h] = task[r][h]
  BY GoIs
<1> QED BY <1>1 DEF Bounded, At

\* A step of the only task of s that keeps what holds of s.
LEMMA StationStays ==
  ASSUME TypeInv, WatermarkInv, NEW s \in Station, NEW g \in Engine, NEW u,
         Go(s, g, u), \A h \in Engine : h # g => At(s, h, "idle"),
         rows' = rows, log' = log, nextId' = nextId,
         u.step = "exec" => u.entries = {} /\ u.held = {},
         \A r \in Station \ {s} :
           /\ snapshot'[r] = snapshot[r] /\ mirror'[r] = mirror[r]
           /\ dirty'[r] = dirty[r] /\ watermark'[r] = watermark[r]
           /\ persisted'[r] = persisted[r],
         Bounded(u.upTo), Honest(s)', Reading(s, u)'
  PROVE  WatermarkInv'
<1>1. /\ task'[s][g] = u
      /\ \A r \in Station, h \in Engine :
           r # s \/ h # g => task'[r][h] = task[r][h]
  BY GoIs
<1>2. LogCounts'
  BY DEF WatermarkInv, LogCounts
<1>3. Numbered' /\ Replacing'
  BY <1>1 DEF WatermarkInv, Numbered, Replacing, LockedBy, At
<1>4. \A n : Bounded(n) => Bounded(n)'
  BY BoundStays
<1>5. ASSUME NEW r \in Station \ {s} PROVE Honest(r)'
  <2>1. PICK n : n = watermark[r]
    OBVIOUS
  <2>2. Bounded(n)'
    BY <1>4, <2>1 DEF WatermarkInv, Honest
  <2>3. Bounded(watermark[r])'
    BY <2>1, <2>2 DEF Bounded
  <2> QED BY <2>3 DEF WatermarkInv, Honest, Applied, Stored, Claimed, Reflects
<1>6. ASSUME NEW r \in Station, NEW h \in Engine
      PROVE  Bounded(task[r][h].upTo)' /\ Reading(r, task[r][h])'
  <2>1. CASE r = s /\ h = g
    <3>1. Bounded(u.upTo)'
      BY <1>4
    <3> QED BY <1>1, <2>1, <3>1 DEF Bounded, Reading, Covered, Applied, Newer,
                                   Claimed, Reflects, Gone
  <2>2. CASE ~(r = s /\ h = g)
    <3>1. task'[r][h] = task[r][h] /\ Bounded(task[r][h].upTo)
          /\ Reading(r, task[r][h])
      BY <1>1, <2>2 DEF WatermarkInv
    <3>2. PICK t : t = task[r][h]
      OBVIOUS
    <3>3. Bounded(t.upTo)'
      BY <1>4, <3>1, <3>2
    <3>4. Reading(r, t)'
      <4>1. CASE r # s
        BY <3>1, <3>2, <4>1 DEF Reading, Covered, Newer, Applied, Claimed,
                                Gone, Reflects
      <4>2. CASE r = s
        BY <2>2, <3>2, <4>2 DEF Reading, At
      <4> QED BY <4>1, <4>2
    <3> QED BY <3>1, <3>2, <3>3, <3>4 DEF Bounded, Reading, Covered, Newer,
                                          Applied, Claimed, Gone, Reflects
  <2> QED BY <2>1, <2>2
<1> QED BY <1>2, <1>3, <1>5, <1>6 DEF WatermarkInv

-----------------------------------------------------------------------------
(* The chain.                                                              *)

\* A step of the only task of s that moves nothing else.
LEMMA OnlyReads ==
  ASSUME TypeInv, WatermarkInv, NEW s \in Station, NEW g \in Engine, NEW u,
         Go(s, g, u), \A h \in Engine : h # g => At(s, h, "idle"),
         rows' = rows, log' = log, nextId' = nextId, snapshot' = snapshot,
         mirror' = mirror, dirty' = dirty, persisted' = persisted,
         watermark' = watermark,
         u.step = "exec" => u.entries = {} /\ u.held = {},
         Bounded(u.upTo), Reading(s, u)
  PROVE  WatermarkInv'
<1>1. Honest(s)'
  <2>1. PICK n : n = watermark[s]
    OBVIOUS
  <2>2. Bounded(n)'
    BY <2>1, BoundStays DEF WatermarkInv, Honest
  <2>3. Bounded(watermark[s])'
    BY <2>1, <2>2 DEF Bounded
  <2> QED BY <2>3 DEF WatermarkInv, Honest, Applied, Stored, Claimed, Reflects
<1>2. Reading(s, u)'
  BY DEF Reading, Covered, Newer, Applied, Claimed, Gone, Reflects
<1> QED BY <1>1, <1>2, StationStays

\* A step that moves none of what the invariant is about.
LEMMA NothingClaimed ==
  ASSUME WatermarkInv, rows' = rows, log' = log, nextId' = nextId,
         snapshot' = snapshot, mirror' = mirror, dirty' = dirty,
         persisted' = persisted, watermark' = watermark, task' = task
  PROVE  WatermarkInv'
<1>1. LogCounts' /\ Numbered' /\ Replacing'
  BY DEF WatermarkInv, LogCounts, Numbered, Replacing, LockedBy, At
<1>2. \A s \in Station : Honest(s)'
  BY DEF WatermarkInv, Honest, Bounded, Applied, Stored, Claimed, Reflects, At
<1>3. \A s \in Station, g \in Engine : Bounded(task[s][g].upTo)'
  BY DEF WatermarkInv, Bounded, At
<1>4. \A s \in Station, g \in Engine : Reading(s, task[s][g])'
  BY DEF WatermarkInv, Reading, Covered, Newer, Applied, Claimed, Gone,
         Reflects
<1> QED BY <1>1, <1>2, <1>3, <1>4 DEF WatermarkInv

\* A task that rests, and one that begins, claims nothing.
LEMMA RestReads ==
  ASSUME TypeInv, WatermarkInv, NEW s \in Station
  PROVE  Bounded(Idle.upTo) /\ Reading(s, Idle) /\ Idle.step = "idle"
<1>1. Idle.upTo = 0 /\ Idle.step = "idle"
  BY DEF Idle
<1> QED BY <1>1, ZeroIsBounded DEF Reading

\* A sweep that begins claims nothing yet, and one of everything reads all.
LEMMA SweepReads ==
  ASSUME TypeInv, WatermarkInv, NEW s \in Station, NEW op, NEW refs,
         op = "sweep" => refs = Entity, op \in {"kinds", "sweep"}
  PROVE  /\ Bounded(Sweep(s, op, refs).upTo)
         /\ Reading(s, Sweep(s, op, refs))
         /\ Sweep(s, op, refs).step # "exec"
<1>1. /\ Sweep(s, op, refs).upTo = 0 /\ Sweep(s, op, refs).op = op
      /\ Sweep(s, op, refs).refs = refs
      /\ Sweep(s, op, refs).step \in {"repair", "max", "revs"}
  BY DEF Sweep, ReadStep, Idle
<1> QED BY <1>1, ZeroIsBounded DEF Reading

\* What follows an apply may be claimed when all was applied.
LEMMA AfterApplyReads ==
  ASSUME TypeInv, WatermarkInv, NEW s \in Station, NEW g, NEW t,
         Bounded(t.upTo),
         t.op \in {"pull", "sweep"} /\ t.refused = {} => Applied(s, t.upTo)
  PROVE  /\ Bounded(AfterApply(s, g, t).upTo)
         /\ Reading(s, AfterApply(s, g, t))
         /\ AfterApply(s, g, t).step # "exec"
<1>1. CASE AfterApply(s, g, t) = Idle
  BY <1>1, RestReads
<1>2. CASE AfterApply(s, g, t) # Idle
  <2>1. /\ t.op \in {"pull", "sweep"} /\ t.refused = {}
        /\ AfterApply(s, g, t).upTo = t.upTo
        /\ AfterApply(s, g, t).step = "advance"
    BY <1>2 DEF AfterApply, Idle
  <2> QED BY <2>1 DEF Reading
<1> QED BY <1>1, <1>2

\* A save that begins has inserted nothing.
LEMMA StartsClaim ==
  ASSUME TypeInv, MirrorInv, WatermarkInv, NEW s \in Station, StartStep(s)
  PROVE  WatermarkInv'
<1> USE DEF remoteVars, localVars, linkVars, bounds
<1> DEFINE g == current[s]
<1>g. g \in Engine
  BY DEF TypeInv, TypeOK
<1>f. /\ rows' = rows /\ log' = log /\ nextId' = nextId
      /\ snapshot' = snapshot /\ mirror' = mirror /\ dirty' = dirty
      /\ persisted' = persisted /\ watermark' = watermark
  BY DEF StartStep, StartSync, StartSweep, StartSave, RefuseOffline
<1>go. ASSUME NEW u, Go(s, g, u),
              u.step = "exec" => u.entries = {} /\ u.held = {},
              At(s, g, "idle"), Bounded(u.upTo), Reading(s, u)
       PROVE  WatermarkInv'
  <2>1. \A h \in Engine : h # g => At(s, h, "idle")
    BY DEF MirrorInv, SoleTask
  <2> QED BY <1>go, <1>g, <1>f, <2>1, OnlyReads
<1>1. ASSUME NEW req \in pending[s], StartSync(s, req)
      PROVE  WatermarkInv'
  <2> DEFINE t == CASE req.op = "pull" ->
              [Idle EXCEPT !.op = "pull", !.step = "log", !.upTo = watermark[s]]
         [] req.op = "rows" ->
              [Idle EXCEPT !.op = "rows", !.step = "items", !.refs = req.refs]
         [] OTHER -> Sweep(s, "kinds", req.refs)
  <2>1. Bounded(t.upTo) /\ Reading(s, t) /\ t.step # "exec"
    <3>1. CASE req.op = "pull"
      <4>1. t.step = "log" /\ t.op = "pull" /\ t.upTo = watermark[s]
        BY <3>1 DEF Idle
      <4> HIDE DEF t
      <4> QED BY <4>1 DEF Reading, WatermarkInv, Honest
    <3>2. CASE req.op = "rows"
      <4>1. t.step = "items" /\ t.op = "rows" /\ t.upTo = 0
        BY <3>2 DEF Idle
      <4> HIDE DEF t
      <4> QED BY <4>1, ZeroIsBounded DEF Reading
    <3>3. CASE req.op \notin {"pull", "rows"}
      <4>1. t = Sweep(s, "kinds", req.refs)
        BY <3>3
      <4>2. /\ Bounded(Sweep(s, "kinds", req.refs).upTo)
            /\ Reading(s, Sweep(s, "kinds", req.refs))
            /\ Sweep(s, "kinds", req.refs).step # "exec"
        BY SweepReads
      <4> HIDE DEF t
      <4> QED BY <4>1, <4>2
    <3> HIDE DEF t
    <3> QED BY <3>1, <3>2, <3>3
  <2>2. Go(s, g, t) /\ At(s, g, "idle")
    BY <1>1 DEF StartSync, Begin
  <2> HIDE DEF t
  <2> QED BY <2>1, <2>2, <1>go
<1>2. CASE StartSweep(s)
  <2>1. Go(s, g, Sweep(s, "sweep", Entity)) /\ At(s, g, "idle")
    BY <1>2 DEF StartSweep, Begin
  <2> QED BY <2>1, SweepReads, <1>go
<1>3. CASE StartSave(s)
  <2> DEFINE t == [Idle EXCEPT !.op = "save", !.step = "exec",
                               !.todo = Diff(draft[s])]
  <2>1. t.step = "exec" /\ t.entries = {} /\ t.held = {} /\ t.upTo = 0
    BY DEF Idle
  <2>2. Go(s, g, t) /\ At(s, g, "idle")
    BY <1>3 DEF StartSave
  <2> HIDE DEF t
  <2>3. Bounded(t.upTo) /\ Reading(s, t)
    BY <2>1, ZeroIsBounded DEF Reading
  <2> QED BY <2>1, <2>2, <2>3, <1>go
<1>4. CASE RefuseOffline(s)
  <2>1. task' = task
    BY <1>4 DEF RefuseOffline
  <2> QED BY <2>1, <1>f, NothingClaimed
<1> QED BY <1>1, <1>2, <1>3, <1>4 DEF StartStep

\* The end of the log may be claimed, and a change row up to it that is not
\* late is one of those that are visible.
LEMMA EndIsBounded ==
  ASSUME TypeInv, WatermarkInv, NEW L \in SUBSET log, L # {}
  PROVE  /\ Bounded(Max({c.id : c \in L}))
         /\ \A c \in L : c.id <= Max({d.id : d \in L})
<1> DEFINE S == {c.id : c \in L}
<1>1. S \subseteq Nat /\ S # {} /\ nextId \in Nat /\ \A i \in S : i < nextId
  BY Numbers
<1> HIDE DEF S
<1>2. Max(S) \in S /\ \A i \in S : i <= Max(S)
  BY <1>1, MaxIsMember
<1>3. PICK d \in L : Max(S) = d.id
  BY <1>2 DEF S
<1>4. Bounded(d.id)
  BY LogIsBounded DEF WatermarkInv
<1>5. Bounded(Max(S))
  BY <1>3, <1>4
<1> QED BY <1>2, <1>5 DEF S

\* What was read of the remote now is at least as new as its log.
LEMMA RowsAreNewer ==
  ASSUME TypeInv, WatermarkInv, NEW c \in log
  PROVE  /\ c.entity \in Entity /\ c.ver \in Nat /\ c.ver > 0
         /\ rows[c.entity].ver \in Nat /\ rows[c.entity].ver >= c.ver
<1>1. c.entity \in Entity /\ c.ver \in Nat
  BY Numbers
<1>2. c.ver > 0 /\ c.ver <= rows[c.entity].ver
  BY DEF WatermarkInv, LogCounts
<1>3. rows[c.entity].ver \in Nat
  BY <1>1, Versions
<1> QED BY <1>1, <1>2, <1>3

\* The rows a sweep passes over, because both sides have the same revision of
\* them, are applied.
LEMMA SameIsApplied ==
  ASSUME TypeInv, SafeInv, WatermarkInv, NEW s \in Station, NEW n,
         NEW revs, Copies(revs), Gone(revs),
         \A c \in Claimed(n) : revs[c.entity].ver >= c.ver,
         \A e \in Entity : revs[e].ver \in Nat
  PROVE  \A c \in Claimed(n) :
           Reflects(snapshot[s], c) \/ c.entity \in Differing(s, Entity, revs)
<1> SUFFICES ASSUME NEW c \in Claimed(n),
                    c.entity \notin Differing(s, Entity, revs)
             PROVE  Reflects(snapshot[s], c)
  OBVIOUS
<1>1. c \in log
  BY DEF Claimed
<1>2. c.entity \in Entity /\ c.ver \in Nat /\ c.ver > 0
  BY <1>1, RowsAreNewer
<1>3. /\ Held(revs[c.entity]) <=> Held(snapshot[s][c.entity])
      /\ revs[c.entity].rev = snapshot[s][c.entity].rev
  BY <1>2 DEF Differing, Held
<1>4. revs[c.entity].ver \in Nat /\ revs[c.entity].ver >= c.ver
  BY <1>2
<1> QED BY <1>2, <1>3, <1>4, SameReflects

\* The steps of a task that only read.
LEMMA ReadsClaim ==
  ASSUME TypeInv, SafeInv, MirrorInv, WatermarkInv,
         NEW s \in Station, NEW g \in Engine,
         \/ PullLog(s, g) \/ PullKinds(s, g) \/ ReadMarkers(s, g)
         \/ SweepMax(s, g) \/ SweepRevs(s, g) \/ ReadItems(s, g)
         \/ Abandon(s, g)
  PROVE  WatermarkInv'
<1> USE DEF remoteVars, localVars, linkVars, bounds
<1> DEFINE t == task[s][g]
<1>t. /\ t \in Task /\ t.upTo \in Nat /\ t.refs \subseteq Entity
      /\ \A e \in Entity : t.got[e].ver \in Nat
  BY Versions, Numbers
<1>k. KindOf \in [Entity -> Kind]
  BY ConstantsOK
<1>f. /\ rows' = rows /\ log' = log /\ nextId' = nextId
      /\ snapshot' = snapshot /\ mirror' = mirror /\ dirty' = dirty
      /\ persisted' = persisted /\ watermark' = watermark
  BY DEF PullLog, PullKinds, ReadMarkers, SweepMax, SweepRevs, ReadItems,
         Abandon
<1>s. \A h \in Engine : h # g => At(s, h, "idle")
  <2>1. ~At(s, g, "idle")
    BY DEF PullLog, PullKinds, ReadMarkers, SweepMax, SweepRevs, ReadItems,
           Abandon, At
  <2> QED BY <2>1, OthersIdle
<1>go. ASSUME NEW u, Go(s, g, u), u.step # "exec", Bounded(u.upTo),
              Reading(s, u)
       PROVE  WatermarkInv'
  BY <1>go, <1>f, <1>s, OnlyReads
<1>b. Bounded(t.upTo) /\ Reading(s, t)
  BY DEF WatermarkInv
<1>h. Honest(s) /\ watermark[s] \in Nat
  BY Numbers DEF WatermarkInv
<1> HIDE DEF t
<1>1. CASE PullLog(s, g)
  <2> DEFINE new == {c \in log : c.id > t.upTo}
             end == Max({c.id : c \in new})
             u == [t EXCEPT !.step = "kinds", !.refs = {c.entity : c \in new},
                            !.upTo = end]
  <2>1. t.op = "pull" /\ t.upTo = watermark[s]
    BY <1>1, <1>b DEF PullLog, At, t, Reading
  <2>2. CASE new = {}
    <3>1. Go(s, g, Idle)
      BY <1>1, <2>2 DEF PullLog, t
    <3> QED BY <3>1, <1>go, RestReads
  <2>3. CASE new # {}
    <3>1. Go(s, g, u)
      BY <1>1, <2>3 DEF PullLog, t
    <3>2. Bounded(end)
      BY <2>3, EndIsBounded
    <3> HIDE DEF end
    <3>3. /\ u.step = "kinds" /\ u.op = "pull" /\ u.upTo = end
          /\ u.refs = {c.entity : c \in new}
      BY <1>t, <2>1 DEF Task
    <3> HIDE DEF u
    <3>4. Covered(s, u)
      <4> SUFFICES ASSUME NEW c \in Claimed(end)
                   PROVE  Reflects(snapshot[s], c) \/ c.entity \in u.refs
        BY <3>3 DEF Covered
      <4>1. c \in log /\ ~c.late
        BY DEF Claimed
      <4>2. CASE c.id > t.upTo
        BY <3>3, <4>1, <4>2
      <4>3. CASE ~(c.id > t.upTo)
        <5>1. c.id <= watermark[s]
          BY <1>h, <2>1, <4>1, <4>3, Numbers
        <5> QED BY <1>h, <4>1, <5>1 DEF Honest, Applied, Claimed
      <4> QED BY <4>2, <4>3
    <3>5. Reading(s, u)
      BY <3>3, <3>4 DEF Reading
    <3> QED BY <3>1, <3>2, <3>3, <3>5, <1>go
  <2> HIDE DEF u
  <2> QED BY <2>2, <2>3
<1>2. CASE PullKinds(s, g)
  <2> DEFINE suspect == Suspects(s, {KindOf[e] : e \in t.refs})
             u == [t EXCEPT !.suspect = suspect,
                            !.step = IF suspect = {} THEN "items"
                                                     ELSE "marker"]
  <2>1. Go(s, g, u)
    BY <1>2 DEF PullKinds, t
  <2>2. /\ u.step \in {"items", "marker"} /\ u.upTo = t.upTo
        /\ u.refs = t.refs /\ u.op = t.op
    <3> HIDE DEF suspect
    <3> QED BY <1>t DEF Task
  <2> HIDE DEF u
  <2>3. t.op = "pull" /\ Covered(s, t)
    BY <1>2, <1>b DEF PullKinds, At, t, Reading
  <2>4. Reading(s, u)
    BY <2>2, <2>3 DEF Reading, Covered
  <2> QED BY <2>1, <2>2, <2>4, <1>b, <1>go
<1>3. CASE ReadMarkers(s, g)
  <2> DEFINE refused == t.suspect \ migrated
             owned == {e \in t.refs : KindOf[e] \notin refused}
             refs == IF t.op = "pull" THEN owned
                                      ELSE Differing(s, owned, t.got)
             next == [t EXCEPT !.suspect = {}, !.refused = refused,
                               !.refs = refs, !.got = Idle.got,
                               !.step = "items"]
             u == IF t.op # "pull" /\ refs = {} THEN AfterApply(s, g, next)
                                                ELSE next
  <2>1. /\ next.step = "items" /\ next.op = t.op /\ next.upTo = t.upTo
        /\ next.refs = refs /\ next.refused = refused
    <3>1. t \in Task
      BY <1>t
    <3> HIDE DEF refused, refs, t
    <3> QED BY <3>1 DEF Task
  <2>2. Go(s, g, u)
    BY <1>3 DEF ReadMarkers, t
  <2> HIDE DEF next
  <2>3. ASSUME refused = {}, t.op \in {"pull", "sweep"}
        PROVE  Covered(s, next)
    <3>1. owned = t.refs
      BY <2>3
    <3>2. CASE t.op = "pull"
      <4>1. Covered(s, t) /\ refs = t.refs
        BY <1>3, <1>b, <3>1, <3>2 DEF ReadMarkers, At, t, Reading
      <4> QED BY <2>1, <4>1 DEF Covered
    <3>3. CASE t.op = "sweep"
      <4>1. t.refs = Entity /\ Newer(t, t.upTo) /\ Gone(t.got)
        BY <1>3, <1>b, <3>3 DEF ReadMarkers, At, t, Reading
      <4>2. Copies(t.got)
        BY DEF t, SafeInv, CopiesEverywhere
      <4>3. refs = Differing(s, Entity, t.got)
        BY <3>1, <3>3, <4>1
      <4>4. \A c \in Claimed(t.upTo) : t.got[c.entity].ver >= c.ver
        BY <4>1, Numbers DEF Newer, Claimed
      <4>5. \A c \in Claimed(t.upTo) :
              \/ Reflects(snapshot[s], c)
              \/ c.entity \in Differing(s, Entity, t.got)
        BY <1>t, <4>1, <4>2, <4>4, SameIsApplied
      <4> HIDE DEF refs
      <4> QED BY <2>1, <4>3, <4>5 DEF Covered
    <3> QED BY <2>3, <3>2, <3>3
  <2> HIDE DEF refused, refs
  <2>4. Reading(s, next)
    BY <2>1, <2>3 DEF Reading
  <2>5. Bounded(next.upTo)
    BY <1>b, <2>1
  <2>6. CASE t.op # "pull" /\ refs = {}
    <3>1. next.op \in {"pull", "sweep"} /\ next.refused = {} =>
            Applied(s, next.upTo)
      BY <2>1, <2>3, <2>6 DEF Covered, Applied
    <3>2. u = AfterApply(s, g, next)
      BY <2>6
    <3> QED BY <2>2, <2>5, <3>1, <3>2, <1>go, AfterApplyReads
  <2>7. CASE ~(t.op # "pull" /\ refs = {})
    <3>1. u = next
      BY <2>7
    <3> QED BY <2>1, <2>2, <2>4, <2>5, <3>1, <1>go
  <2> QED BY <2>6, <2>7
<1>4. CASE SweepMax(s, g)
  <2> DEFINE end == IF log = {} THEN watermark[s]
                                ELSE Max({c.id : c \in log})
             u == [t EXCEPT !.step = "revs", !.upTo = end]
  <2>1. Go(s, g, u)
    BY <1>4 DEF SweepMax, t
  <2>2. Bounded(end)
    <3>1. CASE log = {}
      BY <1>h, <3>1 DEF Honest
    <3>2. CASE log # {}
      BY <3>2, EndIsBounded
    <3> QED BY <3>1, <3>2
  <2> HIDE DEF end
  <2>3. /\ u.step = "revs" /\ u.upTo = end /\ u.op = t.op
        /\ u.refs = t.refs
    BY <1>t DEF Task
  <2> HIDE DEF u
  <2>4. t.op \in {"sweep", "kinds"} /\ (t.op = "sweep" => t.refs = Entity)
    BY <1>4, <1>b DEF SweepMax, At, t, Reading
  <2>5. Reading(s, u)
    BY <2>3, <2>4 DEF Reading
  <2> QED BY <2>1, <2>2, <2>3, <2>5, <1>go
<1>5. CASE SweepRevs(s, g)
  <2> DEFINE suspect == Suspects(s, {KindOf[e] : e \in t.refs})
             refs == Differing(s, t.refs, rows)
  <2>1. t.op \in {"sweep", "kinds"} /\ (t.op = "sweep" => t.refs = Entity)
    BY <1>5, <1>b DEF SweepRevs, At, t, Reading
  <2>2. Copies(rows) /\ \A e \in Entity : rows[e].ver \in Nat
    BY RowsAreCopies, Versions
  <2>3. \A c \in log : rows[c.entity].ver >= c.ver
    BY RowsAreNewer
  <2>4. Gone(rows)
    BY DEF Gone
  <2>5. t.op = "sweep" => \A c \in Claimed(t.upTo) :
          Reflects(snapshot[s], c) \/ c.entity \in refs
    <3>1. \A c \in Claimed(t.upTo) : rows[c.entity].ver >= c.ver
      BY <2>3 DEF Claimed
    <3> QED BY <2>1, <2>2, <2>4, <3>1, SameIsApplied
  <2>6. Go(s, g,
          IF suspect # {} THEN [t EXCEPT !.suspect = suspect, !.got = rows,
                                         !.step = "marker"]
          ELSE IF refs = {} THEN AfterApply(s, g, t)
          ELSE [t EXCEPT !.refs = refs, !.step = "items"])
    BY <1>5 DEF SweepRevs, t
  <2> HIDE DEF suspect, refs
  <2>7. CASE suspect # {}
    <3> DEFINE u == [t EXCEPT !.suspect = suspect, !.got = rows,
                              !.step = "marker"]
    <3>1. Go(s, g, u)
      BY <2>6, <2>7
    <3>2. /\ u.step = "marker" /\ u.op = t.op /\ u.upTo = t.upTo
          /\ u.refs = t.refs /\ u.got = rows
      BY <1>t DEF Task
    <3> HIDE DEF u
    <3>3. Newer(u, u.upTo)
      BY <2>3, <3>2 DEF Newer, Claimed
    <3>4. Reading(s, u)
      BY <2>1, <2>4, <3>2, <3>3 DEF Reading
    <3> QED BY <1>b, <3>1, <3>2, <3>4, <1>go
  <2>8. CASE suspect = {} /\ refs = {}
    <3>1. Go(s, g, AfterApply(s, g, t))
      BY <2>6, <2>8
    <3>2. t.op \in {"pull", "sweep"} => Applied(s, t.upTo)
      BY <2>1, <2>5, <2>8 DEF Applied
    <3> QED BY <1>b, <3>1, <3>2, <1>go, AfterApplyReads
  <2>9. CASE suspect = {} /\ refs # {}
    <3> DEFINE u == [t EXCEPT !.refs = refs, !.step = "items"]
    <3>1. Go(s, g, u)
      BY <2>6, <2>9
    <3>2. /\ u.step = "items" /\ u.op = t.op /\ u.upTo = t.upTo
          /\ u.refs = refs
      BY <1>t DEF Task
    <3> HIDE DEF u
    <3>3. Reading(s, u)
      BY <2>1, <2>5, <3>2 DEF Reading, Covered
    <3> QED BY <1>b, <3>1, <3>2, <3>3, <1>go
  <2> QED BY <2>7, <2>8, <2>9
<1>6. CASE ReadItems(s, g)
  <2> DEFINE got == [e \in Entity |-> IF e \in t.refs THEN rows[e] ELSE NoItem]
             u == [t EXCEPT !.step = "apply", !.got = got]
  <2>1. Go(s, g, u)
    BY <1>6 DEF ReadItems, t
  <2>2. \A n : \A c \in Claimed(n) : c.entity \in t.refs =>
          got[c.entity].ver >= c.ver
    BY <1>t, RowsAreNewer DEF Claimed
  <2>3. Gone(got)
    BY DEF Gone, NoItem
  <2> HIDE DEF got
  <2>4. /\ u.step = "apply" /\ u.op = t.op /\ u.upTo = t.upTo
        /\ u.refs = t.refs /\ u.got = got /\ u.refused = t.refused
    BY <1>t DEF Task
  <2> HIDE DEF u
  <2>5. t.op \in {"pull", "sweep"} /\ t.refused = {} => Covered(s, t)
    BY <1>6, <1>b DEF ReadItems, At, t, Reading
  <2>6. Reading(s, u)
    BY <2>2, <2>3, <2>4, <2>5 DEF Reading, Newer, Covered
  <2> QED BY <1>b, <2>1, <2>4, <2>6, <1>go
<1>7. CASE Abandon(s, g)
  <2>1. Go(s, g, Idle)
    BY <1>7 DEF Abandon, Dropped
  <2> QED BY <2>1, <1>go, RestReads
<1> QED BY <1>1, <1>2, <1>3, <1>4, <1>5, <1>6, <1>7

-----------------------------------------------------------------------------
(* What a task does to the memory and to the disk.                         *)

\* A row that is written as the memory has it reflects what the memory does.
LEMMA WrittenIsStored ==
  ASSUME TypeInv, WatermarkInv, NEW s \in Station,
         log' = log, rows' = rows, snapshot' = snapshot, persisted' = persisted,
         \A e \in Entity : \/ mirror'[s][e] = snapshot[s][e]
                           \/ e \in dirty'[s]
                           \/ mirror'[s][e] = mirror[s][e] /\ e \notin dirty[s]
  PROVE  Stored(s, persisted[s])'
<1>1. /\ persisted[s] <= watermark[s] /\ Applied(s, watermark[s])
      /\ Stored(s, persisted[s]) /\ persisted[s] \in Nat /\ watermark[s] \in Nat
  BY Numbers DEF WatermarkInv, Honest
<1>2. Claimed(persisted[s]) \subseteq Claimed(watermark[s])
  BY <1>1, ClaimedBelow
<1>3. \A c \in Claimed(persisted[s]) :
        /\ Reflects(snapshot[s], c) /\ c.entity \in Entity
        /\ Reflects(mirror[s], c) \/ c.entity \in dirty[s]
  BY <1>1, <1>2, Numbers DEF Applied, Stored, Claimed
<1>4. Claimed(persisted[s])' = Claimed(persisted[s])
  BY DEF Claimed
<1> QED BY <1>3, <1>4 DEF Stored, Reflects

\* A step of the only task of s that only writes to its disk.
LEMMA DiskWrites ==
  ASSUME TypeInv, WatermarkInv, NEW s \in Station, NEW g \in Engine, NEW u,
         Go(s, g, u), \A h \in Engine : h # g => At(s, h, "idle"),
         rows' = rows, log' = log, nextId' = nextId, snapshot' = snapshot,
         watermark' = watermark, persisted' = persisted,
         \A r \in Station \ {s} : mirror'[r] = mirror[r] /\ dirty'[r] = dirty[r],
         \A e \in Entity : \/ mirror'[s][e] = snapshot[s][e]
                           \/ e \in dirty'[s]
                           \/ mirror'[s][e] = mirror[s][e] /\ e \notin dirty[s],
         "mirror" \notin Faults => dirty'[s] = {},
         u.step # "exec", Bounded(u.upTo), Reading(s, u)
  PROVE  WatermarkInv'
<1>1. Honest(s)'
  <2>1. PICK n : n = watermark[s]
    OBVIOUS
  <2>2. Bounded(n)'
    BY <2>1, BoundStays DEF WatermarkInv, Honest
  <2>3. Bounded(watermark[s])'
    BY <2>1, <2>2 DEF Bounded
  <2>4. Stored(s, persisted[s])'
    BY WrittenIsStored
  <2>5. Applied(s, watermark[s])'
    BY DEF WatermarkInv, Honest, Applied, Claimed, Reflects
  <2> QED BY <2>3, <2>4, <2>5 DEF WatermarkInv, Honest
<1>2. Reading(s, u)'
  BY DEF Reading, Covered, Newer, Applied, Claimed, Gone, Reflects
<1> QED BY <1>1, <1>2, StationStays

\* Writing the noted rows again stores what the memory has (_repairMirror).
LEMMA RepairClaims ==
  ASSUME TypeInv, MirrorInv, WatermarkInv, NEW s \in Station, NEW g \in Engine,
         RepairMirror(s, g)
  PROVE  WatermarkInv'
<1> USE DEF remoteVars, localVars, linkVars, bounds
<1> DEFINE t == task[s][g]
           u == [t EXCEPT !.step = ReadStep(t.op), !.told = {},
                          !.got = Idle.got]
<1>t. t \in Task /\ t.step = "repair" /\ t.told \subseteq Entity
  BY Versions DEF RepairMirror, At
<1>c. t.told = dirty[s] /\ \A e \in t.told : t.got[e] = snapshot[s][e]
  BY <1>t DEF MirrorInv, Carrying
<1>s. \A h \in Engine : h # g => At(s, h, "idle")
  BY <1>t, OthersIdle DEF At
<1>b. Bounded(t.upTo) /\ Reading(s, t)
  BY DEF WatermarkInv
<1>f. /\ rows' = rows /\ log' = log /\ nextId' = nextId
      /\ snapshot' = snapshot /\ watermark' = watermark
      /\ persisted' = persisted /\ Go(s, g, u)
  BY DEF RepairMirror
<1>d. "mirror" \notin Faults => dirty[s] = {}
  BY DEF WatermarkInv, Honest
<1>1. /\ \A r \in Station \ {s} : mirror'[r] = mirror[r] /\ dirty'[r] = dirty[r]
      /\ \A e \in Entity : \/ mirror'[s][e] = snapshot[s][e]
                           \/ e \in dirty'[s]
                           \/ mirror'[s][e] = mirror[s][e] /\ e \notin dirty[s]
      /\ "mirror" \notin Faults => dirty'[s] = {}
  <2>1. CASE mirror' = mirror /\ dirty' = dirty
    BY <1>d, <2>1
  <2>2. CASE Write(s, t.told, t.got) /\ dirty' = [dirty EXCEPT ![s] = {}]
    <3>1. /\ \A e \in Entity :
             mirror'[s][e] = IF e \in t.told THEN t.got[e] ELSE mirror[s][e]
          /\ \A r \in Station \ {s} : mirror'[r] = mirror[r]
      BY <2>2 DEF Write, TypeInv, TypeOK
    <3>2. dirty'[s] = {} /\ \A r \in Station \ {s} : dirty'[r] = dirty[r]
      BY <2>2 DEF TypeInv, TypeOK
    <3> HIDE DEF t
    <3> QED BY <1>c, <3>1, <3>2
  <2> QED BY <2>1, <2>2 DEF RepairMirror
<1> HIDE DEF t
<1>2. /\ u.step = ReadStep(t.op) /\ u.op = t.op /\ u.upTo = t.upTo
      /\ u.refs = t.refs
  BY <1>t DEF Task
<1> HIDE DEF u
<1>3. t.op \in {"sweep", "kinds"} /\ (t.op = "sweep" => t.refs = Entity)
  BY <1>b, <1>t DEF Reading
<1>4. u.step \in {"max", "revs"}
  BY <1>2 DEF ReadStep
<1>5. Reading(s, u)
  BY <1>2, <1>3, <1>4 DEF Reading
<1> QED BY <1>1, <1>2, <1>4, <1>5, <1>b, <1>f, <1>s, DiskWrites

\* Writing what was applied stores it, or notes what failed (_writeMirror).
LEMMA WriteClaims ==
  ASSUME TypeInv, MirrorInv, WatermarkInv, NEW s \in Station, NEW g \in Engine,
         WriteMirror(s, g)
  PROVE  WatermarkInv'
<1> USE DEF remoteVars, localVars, linkVars, bounds
<1> DEFINE t == task[s][g]
<1>t. t \in Task /\ t.step = "mirror" /\ t.refs \subseteq Entity
  BY Versions DEF WriteMirror, At
<1>c. \A e \in t.refs : t.got[e] = snapshot[s][e]
  BY <1>t DEF MirrorInv, Carrying
<1>s. \A h \in Engine : h # g => At(s, h, "idle")
  BY <1>t, OthersIdle DEF At
<1>b. Bounded(t.upTo) /\ Reading(s, t)
  BY DEF WatermarkInv
<1>f. /\ rows' = rows /\ log' = log /\ nextId' = nextId
      /\ snapshot' = snapshot /\ watermark' = watermark
      /\ persisted' = persisted
  BY DEF WriteMirror
<1>d. "mirror" \notin Faults => dirty[s] = {}
  BY DEF WatermarkInv, Honest
<1>1. /\ \A r \in Station \ {s} : mirror'[r] = mirror[r] /\ dirty'[r] = dirty[r]
      /\ \A e \in Entity : \/ mirror'[s][e] = snapshot[s][e]
                           \/ e \in dirty'[s]
                           \/ mirror'[s][e] = mirror[s][e] /\ e \notin dirty[s]
      /\ "mirror" \notin Faults => dirty'[s] = {}
  <2>1. CASE Write(s, t.refs, t.got) /\ dirty' = dirty
    <3>1. /\ \A e \in Entity :
             mirror'[s][e] = IF e \in t.refs THEN t.got[e] ELSE mirror[s][e]
          /\ \A r \in Station \ {s} : mirror'[r] = mirror[r]
      BY <2>1 DEF Write, TypeInv, TypeOK
    <3> HIDE DEF t
    <3> QED BY <1>c, <1>d, <2>1, <3>1
  <2>2. CASE Fault("mirror") /\ NoteDirty(s, t.refs) /\ mirror' = mirror
    <3>1. /\ dirty'[s] = dirty[s] \cup t.refs
          /\ \A r \in Station \ {s} : dirty'[r] = dirty[r]
      BY <2>2 DEF NoteDirty, TypeInv, TypeOK
    <3>2. "mirror" \in Faults
      BY <2>2 DEF Fault
    <3> HIDE DEF t
    <3> QED BY <2>2, <3>1, <3>2
  <2> QED BY <2>1, <2>2 DEF WriteMirror
<1>2. PICK u : Go(s, g, u) /\ u \in {[t EXCEPT !.step = "nudge"],
                                     AfterApply(s, g, t)}
  BY DEF WriteMirror
<1> HIDE DEF t
<1>3. CASE u = [t EXCEPT !.step = "nudge"]
  <2>1. u.step = "nudge" /\ u.upTo = t.upTo
    BY <1>t, <1>3 DEF Task
  <2>2. Reading(s, u) /\ Bounded(u.upTo) /\ u.step # "exec"
    BY <1>b, <2>1 DEF Reading
  <2> QED BY <1>1, <1>2, <1>f, <1>s, <2>2, DiskWrites
<1>4. CASE u = AfterApply(s, g, t)
  <2>1. t.op \in {"pull", "sweep"} /\ t.refused = {} => Applied(s, t.upTo)
    BY <1>b, <1>t DEF Reading
  <2>2. Reading(s, u) /\ Bounded(u.upTo) /\ u.step # "exec"
    BY <1>4, <1>b, <2>1, AfterApplyReads
  <2> QED BY <1>1, <1>2, <1>f, <1>s, <2>2, DiskWrites
<1> QED BY <1>2, <1>3, <1>4

\* What an apply does not take of the rows it has read is in the memory.
LEMMA UntakenIsApplied ==
  ASSUME TypeInv, SafeInv, WatermarkInv, NEW s \in Station, NEW t,
         Copies(t.got), Gone(t.got), NEW n, Newer(t, n),
         \A e \in Entity : t.got[e].ver \in Nat
  PROVE  \A c \in Claimed(n) : c.entity \in t.refs \ Taken(s, t) =>
           Reflects(snapshot[s], c)
<1> SUFFICES ASSUME NEW c \in Claimed(n), c.entity \in t.refs \ Taken(s, t)
             PROVE  Reflects(snapshot[s], c)
  OBVIOUS
<1>1. /\ c \in log /\ c.entity \in Entity /\ c.ver \in Nat /\ c.ver > 0
  BY RowsAreNewer DEF Claimed
<1>2. /\ Held(t.got[c.entity]) <=> Held(snapshot[s][c.entity])
      /\ Held(t.got[c.entity]) =>
           t.got[c.entity].rev = snapshot[s][c.entity].rev
  BY DEF Taken, Held
<1>3. t.got[c.entity].ver \in Nat /\ t.got[c.entity].ver >= c.ver
  BY <1>1 DEF Newer
<1> QED BY <1>1, <1>2, <1>3, SameReflects

\* An apply leaves the memory with what was read (_applyRemoteState).
LEMMA ApplyClaims ==
  ASSUME TypeInv, SafeInv, MirrorInv, WatermarkInv,
         NEW s \in Station, NEW g \in Engine, Apply(s, g)
  PROVE  WatermarkInv'
<1> USE DEF remoteVars, localVars, linkVars, bounds
<1> DEFINE t == task[s][g]
           fresh == Taken(s, t)
           told == {e \in fresh : t.got[e].val # snapshot[s][e].val}
<1>t. /\ t \in Task /\ t.step = "apply" /\ fresh \subseteq t.refs
      /\ t.refs \subseteq Entity /\ \A e \in Entity : t.got[e].ver \in Nat
  BY Versions DEF Apply, At, Taken
<1>s. /\ attached[s] /\ g = current[s]
      /\ \A h \in Engine : h # g => At(s, h, "idle")
  BY <1>t, OthersIdle DEF At
<1>b. Bounded(t.upTo) /\ Reading(s, t) /\ Honest(s)
  BY DEF WatermarkInv
<1>g. Copies(t.got)
  BY DEF SafeInv, CopiesEverywhere
<1>f. /\ rows' = rows /\ log' = log /\ nextId' = nextId /\ mirror' = mirror
      /\ dirty' = dirty /\ watermark' = watermark /\ persisted' = persisted
  BY DEF Apply
<1>r. /\ Newer(t, t.upTo) /\ Newer(t, watermark[s]) /\ Gone(t.got)
      /\ t.op \in {"pull", "sweep"} /\ t.refused = {} => Covered(s, t)
  BY <1>b, <1>t DEF Reading
<1>u. \A c \in Claimed(t.upTo) : c.entity \in t.refs \ Taken(s, t) =>
        Reflects(snapshot[s], c)
  BY <1>g, <1>r, <1>t, UntakenIsApplied
<1>1. CASE Go(s, g, AfterApply(s, g, t)) /\ snapshot' = snapshot /\ fresh = {}
  <2>1. t.op \in {"pull", "sweep"} /\ t.refused = {} => Applied(s, t.upTo)
    BY <1>1, <1>r, <1>u DEF Covered, Applied
  <2> HIDE DEF t
  <2>2. PICK u : u = AfterApply(s, g, t)
    OBVIOUS
  <2>3. Reading(s, u) /\ Bounded(u.upTo) /\ u.step # "exec"
    BY <1>b, <2>1, <2>2, AfterApplyReads
  <2> QED BY <1>1, <1>f, <1>s, <2>2, <2>3, OnlyReads
<1>2. CASE /\ snapshot' = [snapshot EXCEPT ![s] = [e \in Entity |->
                             IF e \in fresh THEN t.got[e] ELSE @[e]]]
           /\ Go(s, g, [t EXCEPT !.step = "mirror", !.refs = fresh,
                                 !.told = told])
  <2>1. /\ \A e \in Entity : snapshot'[s][e] =
             IF e \in fresh THEN t.got[e] ELSE snapshot[s][e]
        /\ \A r \in Station \ {s} : snapshot'[r] = snapshot[r]
    BY <1>2 DEF TypeInv, TypeOK
  <2>2. PICK u : /\ Go(s, g, u) /\ u.step = "mirror" /\ u.op = t.op
                 /\ u.upTo = t.upTo /\ u.refused = t.refused
    <3> DEFINE u == [t EXCEPT !.step = "mirror", !.refs = fresh,
                              !.told = told]
    <3>1. Go(s, g, u)
      BY <1>2
    <3> HIDE DEF t, fresh, told
    <3>2. /\ u.step = "mirror" /\ u.op = t.op /\ u.upTo = t.upTo
          /\ u.refused = t.refused
      BY <1>t DEF Task
    <3> HIDE DEF u
    <3> QED BY <3>1, <3>2
  <2>3. ASSUME NEW n, Newer(t, n), NEW c \in Claimed(n),
               Reflects(snapshot[s], c) \/ c.entity \in fresh
        PROVE  Reflects(snapshot[s], c)'
    <3>1. c.entity \in Entity
      BY Numbers DEF Claimed
    <3>2. CASE c.entity \in fresh
      <4>1. t.got[c.entity].ver >= c.ver
        BY <1>t, <2>3, <3>2 DEF Newer
      <4> QED BY <2>1, <3>1, <3>2, <4>1 DEF Reflects
    <3>3. CASE c.entity \notin fresh
      BY <1>f, <2>1, <2>3, <3>1, <3>3 DEF Reflects
    <3> QED BY <3>2, <3>3
  <2>4. u.op \in {"pull", "sweep"} /\ u.refused = {} => Applied(s, u.upTo)'
    <3> SUFFICES ASSUME Covered(s, t), NEW c \in Claimed(u.upTo)
                 PROVE  Reflects(snapshot[s], c)'
      BY <1>f, <1>r, <2>2 DEF Applied, Claimed
    <3>1. Reflects(snapshot[s], c) \/ c.entity \in fresh
      BY <1>u, <2>2 DEF Covered
    <3> QED BY <1>r, <2>2, <2>3, <3>1
  <2> HIDE DEF t, fresh, told
  <2>5. Applied(s, watermark[s])'
    <3> SUFFICES ASSUME NEW c \in Claimed(watermark[s])
                 PROVE  Reflects(snapshot[s], c)'
      BY <1>f DEF Applied, Claimed
    <3> QED BY <1>b, <1>r, <2>3 DEF Honest, Applied
  <2>6. Honest(s)'
    <3>1. PICK n : n = watermark[s]
      OBVIOUS
    <3>2. Bounded(n)'
      BY <1>b, <1>f, <2>2, <3>1, BoundStays DEF Honest
    <3>3. Bounded(watermark[s])'
      BY <1>f, <3>1, <3>2 DEF Bounded
    <3>4. Stored(s, persisted[s])'
      BY <1>b, <1>f DEF Honest, Stored, Claimed, Reflects
    <3> QED BY <1>b, <1>f, <2>5, <3>3, <3>4 DEF Honest
  <2>7. Reading(s, u)'
    BY <2>2, <2>4 DEF Reading
  <2>8. Bounded(u.upTo) /\ u.step # "exec"
    BY <1>b, <2>2
  <2> QED BY <1>f, <1>s, <2>1, <2>2, <2>6, <2>7, <2>8, StationStays
<1> QED BY <1>1, <1>2, <1>s DEF Apply, Stopped

\* The watermark moves to what was applied and stored (_advanceWatermark).
LEMMA AdvanceClaims ==
  ASSUME TypeInv, MirrorInv, WatermarkInv, NEW s \in Station, NEW g \in Engine,
         Advance(s, g)
  PROVE  WatermarkInv'
<1> USE DEF remoteVars, localVars, linkVars, bounds
<1> DEFINE t == task[s][g]
<1>t. t.step = "advance" /\ t.upTo \in Nat
  BY Numbers DEF Advance, At
<1>n. watermark[s] \in Nat /\ persisted[s] \in Nat
  BY Numbers
<1>s. Complete(s, t) /\ \A h \in Engine : h # g => At(s, h, "idle")
  BY <1>t, OthersIdle DEF At
<1>b. /\ Bounded(t.upTo) /\ Applied(s, t.upTo) /\ Honest(s)
  BY <1>t DEF WatermarkInv, Reading
<1>f. /\ rows' = rows /\ log' = log /\ nextId' = nextId /\ mirror' = mirror
      /\ dirty' = dirty /\ snapshot' = snapshot /\ Go(s, g, Idle)
  BY DEF Advance
<1> HIDE DEF t
<1>i. Bounded(Idle.upTo) /\ Reading(s, Idle) /\ Idle.step = "idle"
  BY RestReads
<1>1. CASE watermark' = watermark /\ persisted' = persisted
  BY <1>1, <1>f, <1>i, <1>s, OnlyReads
<1>2. CASE /\ t.upTo > watermark[s]
           /\ watermark' = [watermark EXCEPT ![s] = t.upTo]
           /\ persisted' \in {persisted, [persisted EXCEPT ![s] = t.upTo]}
  <2>1. /\ watermark'[s] = t.upTo /\ persisted'[s] \in {persisted[s], t.upTo}
        /\ \A r \in Station \ {s} :
             watermark'[r] = watermark[r] /\ persisted'[r] = persisted[r]
    BY <1>2 DEF TypeInv, TypeOK
  <2>2. persisted'[s] <= watermark'[s]
    BY <1>2, <1>b, <1>n, <1>t, <2>1 DEF Honest
  <2>3. Applied(s, watermark[s])'
    BY <1>b, <1>f, <2>1 DEF Applied, Claimed, Reflects
  <2>4. Stored(s, persisted[s])'
    <3>1. CASE persisted'[s] = persisted[s]
      BY <1>b, <1>f, <3>1 DEF Honest, Stored, Claimed, Reflects
    <3>2. CASE persisted'[s] = t.upTo
      <4> SUFFICES ASSUME NEW c \in Claimed(t.upTo)
                   PROVE  Reflects(mirror[s], c) \/ c.entity \in dirty[s]
        BY <1>f, <3>2 DEF Stored, Claimed, Reflects
      <4>1. c.entity \in Entity /\ Reflects(snapshot[s], c)
        BY <1>b, Numbers DEF Applied, Claimed
      <4>2. \/ mirror[s][c.entity] = snapshot[s][c.entity]
            \/ c.entity \in dirty[s]
        BY <1>s, <1>t, <4>1 DEF Complete
      <4> QED BY <4>1, <4>2 DEF Reflects
    <3> QED BY <2>1, <3>1, <3>2
  <2>5. Bounded(watermark[s])'
    <3>1. PICK n : n = t.upTo
      OBVIOUS
    <3>2. Bounded(n)'
      BY <1>b, <1>f, <1>i, <3>1, BoundStays
    <3> QED BY <2>1, <3>1, <3>2 DEF Bounded
  <2>6. Honest(s)'
    BY <1>b, <1>f, <2>2, <2>3, <2>4, <2>5 DEF Honest
  <2>7. Reading(s, Idle)'
    BY <1>i DEF Reading
  <2> QED BY <1>f, <1>i, <1>s, <2>1, <2>6, <2>7, StationStays
<1>3. \/ watermark' = watermark /\ persisted' = persisted
      \/ /\ t.upTo > watermark[s]
         /\ watermark' = [watermark EXCEPT ![s] = t.upTo]
         /\ persisted' \in {persisted, [persisted EXCEPT ![s] = t.upTo]}
  BY <1>n, <1>t DEF Advance, t
<1> QED BY <1>1, <1>2, <1>3

-----------------------------------------------------------------------------
(* The remote.                                                             *)

\* What the stations know holds on when the remote moves, if what joins the
\* log may not be claimed yet and no deleted row comes back.
LEMMA RemoteMoves ==
  ASSUME TypeInv, WatermarkInv, snapshot' = snapshot, mirror' = mirror,
         dirty' = dirty, watermark' = watermark, persisted' = persisted,
         \A n \in Nat : Bounded(n) =>
           Bounded(n)' /\ Claimed(n)' = Claimed(n),
         \A e \in Entity : ~Held(rows[e]) /\ rows[e].ver > 0 =>
           ~Held(rows'[e]) /\ rows'[e].ver > 0
  PROVE  /\ \A r \in Station : Honest(r)'
         /\ \A r \in Station, h \in Engine : \A t :
              /\ task'[r][h] = t
              /\ t.upTo \in Nat /\ Bounded(t.upTo) /\ Reading(r, t)
              => Bounded(task[r][h].upTo)' /\ Reading(r, task[r][h])'
<1>1. ASSUME NEW c \in log, NEW items, Reflects(items, c)
      PROVE  Reflects(items, c)'
  <2>1. /\ c.entity \in Entity /\ c.ver \in Nat /\ c.ver > 0
        /\ rows[c.entity].ver \in Nat /\ rows[c.entity].ver >= c.ver
    BY RowsAreNewer
  <2>2. rows[c.entity].ver > 0
    BY <2>1
  <2> QED BY <1>1, <2>1, <2>2 DEF Reflects
<1>2. \A n : \A c \in Claimed(n) : c \in log
  BY DEF Claimed
<1>3. \A r \in Station, n \in Nat : Bounded(n) /\ Applied(r, n)
        => Applied(r, n)'
  <2> SUFFICES ASSUME NEW r \in Station, NEW n \in Nat, Bounded(n),
                      Applied(r, n), NEW c \in Claimed(n)
               PROVE  Reflects(snapshot[r], c)'
    BY DEF Applied
  <2>1. PICK items : items = snapshot[r]
    OBVIOUS
  <2>2. Reflects(items, c)'
    BY <1>1, <1>2, <2>1 DEF Applied
  <2> QED BY <2>1, <2>2 DEF Reflects
<1>4. \A r \in Station, n \in Nat : Bounded(n) /\ Stored(r, n)
        => Stored(r, n)'
  <2> SUFFICES ASSUME NEW r \in Station, NEW n \in Nat, Bounded(n),
                      Stored(r, n), NEW c \in Claimed(n),
                      c.entity \notin dirty[r]
               PROVE  Reflects(mirror[r], c)'
    BY DEF Stored
  <2>1. PICK items : items = mirror[r]
    OBVIOUS
  <2>2. Reflects(items, c)'
    BY <1>1, <1>2, <2>1 DEF Stored
  <2> QED BY <2>1, <2>2 DEF Reflects
<1>5. \A r \in Station : Honest(r)'
  <2> SUFFICES ASSUME NEW r \in Station PROVE Honest(r)'
    OBVIOUS
  <2>1. PICK n, m : n = watermark[r] /\ m = persisted[r]
    OBVIOUS
  <2>2. /\ n \in Nat /\ m \in Nat /\ m <= n /\ Bounded(n)
        /\ Applied(r, n) /\ Stored(r, m)
    BY <2>1, Numbers DEF WatermarkInv, Honest
  <2>3. Bounded(m)
    BY <2>2, BoundedBelow
  <2>4. Bounded(n)' /\ Applied(r, n)' /\ Stored(r, m)'
    BY <1>3, <1>4, <2>2, <2>3
  <2>5. Bounded(watermark[r])' /\ Applied(r, watermark[r])'
        /\ Stored(r, persisted[r])'
    BY <2>1, <2>4 DEF Bounded, Applied, Stored, Claimed
  <2> QED BY <2>5 DEF WatermarkInv, Honest
<1>6. \A r \in Station : \A t : t.upTo \in Nat /\ Bounded(t.upTo)
        /\ Reading(r, t) => Reading(r, t)'
  <2> SUFFICES ASSUME NEW r \in Station, NEW t, t.upTo \in Nat,
                      Bounded(t.upTo), Reading(r, t)
               PROVE  Reading(r, t)'
    OBVIOUS
  <2>1. Applied(r, t.upTo) => Applied(r, t.upTo)'
    BY <1>3
  <2>2. Covered(r, t) => Covered(r, t)'
    <3> SUFFICES ASSUME Covered(r, t), NEW c \in Claimed(t.upTo),
                        c.entity \notin t.refs
                 PROVE  Reflects(snapshot[r], c)'
      BY DEF Covered
    <3>1. PICK items : items = snapshot[r]
      OBVIOUS
    <3>2. Reflects(items, c)'
      BY <1>1, <1>2, <3>1 DEF Covered
    <3> QED BY <3>1, <3>2 DEF Reflects
  <2>3. Gone(t.got) => Gone(t.got)'
    BY DEF Gone
  <2>4. Newer(t, t.upTo) => Newer(t, t.upTo)'
    BY DEF Newer
  <2>5. Newer(t, watermark[r]) => Newer(t, watermark[r])'
    <3>1. watermark[r] \in Nat /\ Bounded(watermark[r])
      BY Numbers DEF WatermarkInv, Honest
    <3>2. Claimed(watermark[r])' = Claimed(watermark[r])
      <4>1. PICK n \in Nat : n = watermark[r] /\ Bounded(n)
        BY <3>1
      <4>2. Claimed(n)' = Claimed(n)
        BY <4>1
      <4> QED BY <4>1, <4>2 DEF Claimed
    <3> QED BY <3>2 DEF Newer
  <2> QED BY <2>1, <2>2, <2>3, <2>4, <2>5 DEF Reading
<1>7. ASSUME NEW r \in Station, NEW h \in Engine, NEW t, task'[r][h] = t,
             t.upTo \in Nat, Bounded(t.upTo), Reading(r, t)
      PROVE  Bounded(task[r][h].upTo)' /\ Reading(r, task[r][h])'
  <2>1. Bounded(t.upTo)' /\ Reading(r, t)'
    BY <1>6, <1>7
  <2> QED BY <1>7, <2>1 DEF Bounded, Reading, Covered, Newer, Applied, Claimed,
                            Gone, Reflects
<1> QED BY <1>5, <1>7

\* A statement takes a number nobody may claim yet.
LEMMA StatementClaims ==
  ASSUME TypeInv, SafeInv, MirrorInv, WatermarkInv,
         NEW s \in Station, NEW g \in Engine, NEW e \in Entity,
         ExecStatement(s, g, e)
  PROVE  WatermarkInv'
<1> USE DEF remoteVars, localVars, linkVars, bounds
<1> DEFINE t == task[s][g]
           entry == [id |-> nextId, entity |-> e, ver |-> rows[e].ver + 1,
                     late |-> FALSE]
<1>t. t \in Task /\ t.step = "exec" /\ t.upTo \in Nat
  BY Versions, Numbers DEF ExecStatement, IsNext, At
<1>f. /\ rows' = rows /\ log' = log /\ snapshot' = snapshot
      /\ mirror' = mirror /\ dirty' = dirty /\ watermark' = watermark
      /\ persisted' = persisted
  BY DEF ExecStatement
<1>1. PICK more :
        /\ Go(s, g, [t EXCEPT !.todo = @ \ {e}, !.held = @ \cup {e},
                              !.entries = more])
        /\ \/ more = t.entries /\ nextId' = nextId
           \/ more = t.entries \cup {entry} /\ nextId' = nextId + 1
  <2>1. Go(s, g, [t EXCEPT !.todo = @ \ {e}, !.held = @ \cup {e},
                   !.entries = IF Logged(s, e) THEN @ \cup {entry} ELSE @])
    BY DEF ExecStatement
  <2>2. nextId' = IF Logged(s, e) THEN nextId + 1 ELSE nextId
    BY DEF ExecStatement
  <2> HIDE DEF entry
  <2> QED BY <2>1, <2>2
<1>i. entry.id = nextId
  OBVIOUS
<1> HIDE DEF t, entry
<1>2. PICK u : /\ Go(s, g, u) /\ u.step = "exec" /\ u.upTo = t.upTo
               /\ u.held = t.held \cup {e} /\ u.entries = more
  <2> DEFINE u == [t EXCEPT !.todo = @ \ {e}, !.held = @ \cup {e},
                            !.entries = more]
  <2>1. /\ u.step = "exec" /\ u.upTo = t.upTo /\ u.entries = more
        /\ u.held = t.held \cup {e}
    BY <1>t DEF Task
  <2>2. Go(s, g, u)
    BY <1>1
  <2> HIDE DEF u
  <2> QED BY <2>1, <2>2
<1>3. /\ task'[s][g] = u
      /\ \A r \in Station, h \in Engine :
           r # s \/ h # g => task'[r][h] = task[r][h]
  BY <1>2, GoIs
<1>n. nextId \in Nat /\ nextId' \in {nextId, nextId + 1}
  BY <1>1, Numbers
<1>4. \A r \in Station, h \in Engine : \A c \in task'[r][h].entries :
        \/ c \in task[r][h].entries
        \/ r = s /\ h = g /\ c.id = nextId
  BY <1>1, <1>2, <1>3, <1>i DEF t
<1>5. \A r \in Station, h \in Engine : At(r, h, "exec")' = At(r, h, "exec")
  BY <1>2, <1>3, <1>t DEF At, t
<1>6. \A n \in Nat : Bounded(n) => Bounded(n)' /\ Claimed(n)' = Claimed(n)
  <2> SUFFICES ASSUME NEW n \in Nat, Bounded(n)
               PROVE  Bounded(n)' /\ Claimed(n)' = Claimed(n)
    OBVIOUS
  <2>1. n < nextId /\ n < nextId'
    BY <1>n DEF Bounded
  <2>2. ASSUME NEW r \in Station, NEW h \in Engine, At(r, h, "exec")',
               NEW c \in task'[r][h].entries, c.id <= n
        PROVE  \E d \in log : d.id > c.id
    <3>1. c.id # nextId
      BY <1>n, <2>1, <2>2
    <3>2. c \in task[r][h].entries
      BY <1>4, <3>1
    <3> QED BY <1>5, <2>2, <3>2 DEF Bounded
  <2> QED BY <1>f, <2>1, <2>2 DEF Bounded, Claimed
<1>7. /\ \A r \in Station : Honest(r)'
      /\ \A r \in Station, h \in Engine : \A v :
           /\ task'[r][h] = v
           /\ v.upTo \in Nat /\ Bounded(v.upTo) /\ Reading(r, v)
           => Bounded(task[r][h].upTo)' /\ Reading(r, task[r][h])'
  BY <1>6, <1>f, RemoteMoves
<1>8. LogCounts'
  BY <1>f DEF WatermarkInv, LogCounts
<1>9. Numbered'
  <2> SUFFICES ASSUME NEW r \in Station, NEW h \in Engine, At(r, h, "exec")',
                      NEW c \in task'[r][h].entries
               PROVE  /\ \A d \in log : d.id # c.id
                      /\ \A q \in Station, i \in Engine : q # r \/ i # h =>
                           ~(/\ At(q, i, "exec")'
                             /\ \E d \in task'[q][i].entries : d.id = c.id)
    BY <1>f DEF Numbered
  <2>1. \A d \in log : d.id \in Nat /\ d.id < nextId
    BY Numbers
  <2>2. \A q \in Station, i \in Engine : \A d \in task[q][i].entries :
          d.id \in Nat /\ d.id < nextId
    BY Numbers
  <2>3. CASE c \in task[r][h].entries
    BY <1>4, <1>5, <2>2, <2>3 DEF WatermarkInv, Numbered
  <2>4. CASE r = s /\ h = g /\ c.id = nextId
    <3>1. \A d \in log : d.id # c.id
      BY <1>n, <2>1, <2>4
    <3>2. \A q \in Station, i \in Engine : q # r \/ i # h =>
            \A d \in task'[q][i].entries : d.id # c.id
      BY <1>4, <1>n, <2>2, <2>4
    <3> QED BY <3>1, <3>2
  <2> QED BY <1>4, <2>3, <2>4
<1>10. Replacing'
  <2>1. rows[e].ver > 0 => Held(rows[e])
    <3>1. Wins(s, e) /\ e \in t.todo /\ At(s, g, "exec")
      BY DEF ExecStatement, IsNext, t
    <3>2. CASE Held(draft[s].base[e])
      BY <3>1, <3>2 DEF Wins
    <3>3. CASE ~Held(draft[s].base[e])
      BY <3>1, <3>3 DEF SafeInv, CreatedOnce, Uncreated, t
    <3> QED BY <3>2, <3>3
  <2>2. \A r \in Station, h \in Engine, d \in Entity :
          LockedBy(r, h, d)' => LockedBy(r, h, d) \/ d = e
    BY <1>2, <1>3, <1>5 DEF LockedBy, At, t
  <2> QED BY <1>f, <2>1, <2>2 DEF WatermarkInv, Replacing
<1>11. ASSUME NEW r \in Station, NEW h \in Engine
       PROVE  Bounded(task[r][h].upTo)' /\ Reading(r, task[r][h])'
  <2>1. PICK v : v = task'[r][h]
    OBVIOUS
  <2>2. CASE r = s /\ h = g
    <3>1. v.step = "exec" /\ v.upTo = t.upTo
      BY <1>2, <1>3, <2>1, <2>2
    <3>2. Reading(r, v)
      BY <3>1 DEF Reading
    <3>3. Bounded(v.upTo)
      BY <3>1 DEF WatermarkInv, t
    <3> QED BY <1>7, <1>t, <2>1, <3>1, <3>2, <3>3
  <2>3. CASE r # s \/ h # g
    <3>1. v = task[r][h]
      BY <1>3, <2>1, <2>3
    <3>2. Bounded(v.upTo) /\ Reading(r, v) /\ v.upTo \in Nat
      BY <3>1, Numbers DEF WatermarkInv
    <3> QED BY <1>7, <2>1, <3>2
  <2> QED BY <2>2, <2>3
<1> QED BY <1>7, <1>8, <1>9, <1>10, <1>11 DEF WatermarkInv

\* A commit adds to the log what is late or beyond all that may be claimed.
LEMMA CommitClaims ==
  ASSUME TypeInv, SafeInv, MirrorInv, HistoryInv, WatermarkInv,
         NEW s \in Station, NEW g \in Engine, Commit(s, g)
  PROVE  WatermarkInv'
<1> USE DEF remoteVars, localVars, linkVars, bounds
<1> DEFINE t == task[s][g]
           new == [e \in Entity |->
                     IF e \in t.held THEN Written(draft[s], e) ELSE NoItem]
           Late(c) == \E d \in log : d.id > c.id
           logged == {[c EXCEPT !.late = Late(c)] : c \in t.entries}
<1>t. /\ t \in Task /\ t.step = "exec" /\ t.held \subseteq Entity
      /\ t.upTo \in Nat /\ t.entries \subseteq ChangeRow
  <2>1. task[s][g] \in Task
    BY Versions
  <2> QED BY <2>1, Versions, Numbers DEF Commit, At, Task
<1>r. Recorded(t)
  BY <1>t DEF HistoryInv, Accounted, At
<1>w. \A e \in t.held : new[e].ver = rows[e].ver + 1
  BY <1>t DEF Written
<1>f. /\ nextId' = nextId /\ snapshot' = snapshot /\ mirror' = mirror
      /\ dirty' = dirty /\ watermark' = watermark /\ persisted' = persisted
      /\ \A e \in Entity : rows'[e] = IF e \in t.held THEN new[e] ELSE rows[e]
      /\ log' = log \cup logged
  BY DEF Commit
<1>l. \A c \in logged : \E d \in t.entries :
        /\ c.id = d.id /\ c.entity = d.entity /\ c.ver = d.ver
        /\ c.late = Late(d)
  <2> SUFFICES ASSUME NEW d \in t.entries
               PROVE  LET c == [d EXCEPT !.late = Late(d)] IN
                      /\ c.id = d.id /\ c.entity = d.entity /\ c.ver = d.ver
                      /\ c.late = Late(d)
    <3> HIDE DEF Late, t, new
    <3> QED OBVIOUS
  <2> HIDE DEF Late, t, new, logged
  <2>1. d \in ChangeRow
    <3>1. t.entries \subseteq ChangeRow
      BY <1>t
    <3> QED BY <3>1
  <2> QED BY <2>1 DEF ChangeRow
<1>1. PICK u : /\ Go(s, g, u) /\ u.step = "ack" /\ u.upTo = t.upTo
               /\ u.refs = t.held /\ u.got = new
  <2> DEFINE u == [t EXCEPT !.step = "ack", !.refs = t.held, !.held = {},
                        !.entries = {}, !.told = t.held, !.got = new]
  <2>1. Go(s, g, u)
    BY DEF Commit
  <2>2. /\ u.step = "ack" /\ u.upTo = t.upTo /\ u.refs = t.held
        /\ u.got = new
    <3> HIDE DEF new, t
    <3> QED BY <1>t DEF Task
  <2> HIDE DEF u
  <2> QED BY <2>1, <2>2
<1>2. /\ task'[s][g] = u
      /\ \A r \in Station, h \in Engine :
           r # s \/ h # g => task'[r][h] = task[r][h]
  BY <1>1, GoIs
<1>e. \A r \in Station, h \in Engine : At(r, h, "exec")' =>
        /\ At(r, h, "exec") /\ task'[r][h] = task[r][h]
        /\ r # s \/ h # g
  BY <1>1, <1>2 DEF At
<1>x. At(s, g, "exec")
  BY DEF Commit
<1> HIDE DEF new, logged
<1>3. \A n \in Nat : Bounded(n) => Bounded(n)' /\ Claimed(n)' = Claimed(n)
  <2> SUFFICES ASSUME NEW n \in Nat, Bounded(n)
               PROVE  Bounded(n)' /\ Claimed(n)' = Claimed(n)
    OBVIOUS
  <2>1. Bounded(n)'
    BY <1>e, <1>f DEF Bounded
  <2>2. \A c \in logged : c.id <= n => c.late
    <3> SUFFICES ASSUME NEW c \in logged, c.id <= n PROVE c.late
      OBVIOUS
    <3>1. PICK d \in t.entries : c.id = d.id /\ c.late = Late(d)
      BY <1>l
    <3>2. \E b \in log : b.id > d.id
      BY <1>x, <3>1 DEF Bounded
    <3> QED BY <3>1, <3>2
  <2>3. Claimed(n)' = Claimed(n)
    BY <1>f, <2>2 DEF Claimed
  <2> QED BY <2>1, <2>3
<1>4. \A e \in Entity : ~Held(rows[e]) /\ rows[e].ver > 0 =>
        ~Held(rows'[e]) /\ rows'[e].ver > 0
  <2> SUFFICES ASSUME NEW e \in Entity, ~Held(rows[e]), rows[e].ver > 0
               PROVE  rows'[e] = rows[e]
    OBVIOUS
  <2>1. ~LockedBy(s, g, e)
    BY DEF WatermarkInv, Replacing
  <2> QED BY <1>f, <1>x, <2>1 DEF LockedBy
<1>5. /\ \A r \in Station : Honest(r)'
      /\ \A r \in Station, h \in Engine : \A v :
           /\ task'[r][h] = v
           /\ v.upTo \in Nat /\ Bounded(v.upTo) /\ Reading(r, v)
           => Bounded(task[r][h].upTo)' /\ Reading(r, task[r][h])'
  BY <1>3, <1>4, <1>f, RemoteMoves
<1>n. \A e \in Entity : rows[e].ver \in Nat
  BY Versions
<1> HIDE DEF t, Late
<1>6. LogCounts'
  <2> SUFFICES ASSUME NEW c \in log \cup logged
               PROVE  c.ver > 0 /\ c.ver <= rows'[c.entity].ver
    BY <1>f DEF LogCounts
  <2>1. CASE c \in log
    <3>1. /\ c.entity \in Entity /\ c.ver \in Nat /\ c.ver > 0
          /\ rows[c.entity].ver >= c.ver
      BY <2>1, RowsAreNewer
    <3>2. CASE c.entity \in t.held
      BY <1>f, <1>n, <1>w, <3>1, <3>2
    <3>3. CASE c.entity \notin t.held
      BY <1>f, <1>n, <3>1, <3>3
    <3> QED BY <3>2, <3>3
  <2>2. CASE c \in logged
    <3>1. PICK d \in t.entries : c.entity = d.entity /\ c.ver = d.ver
      BY <1>l, <2>2
    <3>2. c.entity \in t.held /\ c.ver = rows[c.entity].ver + 1
      BY <1>r, <3>1 DEF Recorded
    <3>3. c.entity \in Entity /\ rows'[c.entity].ver = rows[c.entity].ver + 1
      BY <1>f, <1>t, <1>w, <3>2
    <3> QED BY <1>n, <3>2, <3>3
  <2> QED BY <2>1, <2>2
<1>7. Numbered'
  <2> SUFFICES ASSUME NEW r \in Station, NEW h \in Engine, At(r, h, "exec")',
                      NEW c \in task'[r][h].entries
               PROVE  /\ \A d \in log \cup logged : d.id # c.id
                      /\ \A q \in Station, i \in Engine : q # r \/ i # h =>
                           ~(/\ At(q, i, "exec")'
                             /\ \E d \in task'[q][i].entries : d.id = c.id)
    BY <1>f DEF Numbered
  <2>1. /\ At(r, h, "exec") /\ task'[r][h] = task[r][h]
        /\ c \in task[r][h].entries /\ (r # s \/ h # g)
    BY <1>e
  <2>2. \A d \in log : d.id # c.id
    BY <2>1 DEF WatermarkInv, Numbered
  <2>3. \A d \in logged : d.id # c.id
    <3> SUFFICES ASSUME NEW d \in logged PROVE d.id # c.id
      OBVIOUS
    <3>1. PICK b \in task[s][g].entries : d.id = b.id
      BY <1>l DEF t
    <3>2. b.id # c.id
      BY <1>x, <2>1 DEF WatermarkInv, Numbered
    <3> QED BY <3>1, <3>2
  <2>4. \A q \in Station, i \in Engine : q # r \/ i # h =>
          ~(/\ At(q, i, "exec")'
            /\ \E d \in task'[q][i].entries : d.id = c.id)
    BY <1>e, <2>1 DEF WatermarkInv, Numbered
  <2> QED BY <2>2, <2>3, <2>4
<1>8. Replacing'
  <2> SUFFICES ASSUME NEW r \in Station, NEW h \in Engine, NEW e \in Entity,
                      LockedBy(r, h, e)', rows'[e].ver > 0
               PROVE  Held(rows'[e])
    BY DEF Replacing
  <2>1. LockedBy(r, h, e) /\ (r # s \/ h # g)
    BY <1>e DEF LockedBy, At
  <2>2. ~LockedBy(s, g, e)
    BY <2>1 DEF SafeInv, LocksExclude
  <2>3. rows'[e] = rows[e]
    BY <1>f, <1>x, <2>2 DEF LockedBy, t
  <2> QED BY <2>1, <2>3 DEF WatermarkInv, Replacing
<1>9. ASSUME NEW r \in Station, NEW h \in Engine
      PROVE  Bounded(task[r][h].upTo)' /\ Reading(r, task[r][h])'
  <2>1. PICK v : v = task'[r][h]
    OBVIOUS
  <2>2. CASE r = s /\ h = g
    <3>1. v = u
      BY <1>2, <2>1, <2>2
    <3>2. Bounded(t.upTo)
      BY DEF WatermarkInv, t
    <3>3. Newer(u, watermark[s])
      <4> SUFFICES ASSUME NEW c \in Claimed(watermark[s]), c.entity \in t.held
                   PROVE  new[c.entity].ver >= c.ver
        BY <1>1 DEF Newer
      <4>1. c \in log
        BY DEF Claimed
      <4>2. /\ c.ver \in Nat /\ rows[c.entity].ver \in Nat
            /\ rows[c.entity].ver >= c.ver
        BY <4>1, RowsAreNewer
      <4>3. new[c.entity].ver = rows[c.entity].ver + 1
        BY <1>w
      <4> QED BY <4>2, <4>3
    <3>4. Reading(s, u)
      BY <1>1, <3>3 DEF Reading
    <3> QED BY <1>1, <1>5, <1>t, <2>1, <2>2, <3>1, <3>2, <3>4
  <2>3. CASE r # s \/ h # g
    <3>1. v = task[r][h]
      BY <1>2, <2>1, <2>3
    <3>2. Bounded(v.upTo) /\ Reading(r, v) /\ v.upTo \in Nat
      BY <3>1, Numbers DEF WatermarkInv
    <3> QED BY <1>5, <2>1, <3>2
  <2> QED BY <2>2, <2>3
<1> QED BY <1>5, <1>6, <1>7, <1>8, <1>9 DEF WatermarkInv

\* A migration writes rows nobody has written, and its change rows have
\* numbers nobody may claim yet.
LEMMA MigrateClaims ==
  ASSUME TypeInv, WatermarkInv, NEW k \in Kind, Migrate(k)
  PROVE  WatermarkInv'
<1> USE DEF remoteVars, localVars, linkVars, bounds
<1> DEFINE blob == {e \in OfKind(k) : Plant[e] # NoValue}
           logged == blob \ Exempt
<1>1. \A e \in blob : /\ e \in Entity /\ rows[e].ver = 0
                      /\ \A s \in Station, g \in Engine : ~LockedBy(s, g, e)
  BY DEF Migrate, OfKind
<1>2. /\ \A e \in Entity \ blob : rows'[e] = rows[e]
      /\ \A e \in blob : rows'[e].ver = 1
      /\ snapshot' = snapshot /\ mirror' = mirror /\ dirty' = dirty
      /\ watermark' = watermark /\ persisted' = persisted /\ task' = task
  <2>1. rows' = [e \in Entity |->
                   IF e \in blob THEN [val |-> Plant[e], rev |-> 1, ver |-> 1]
                                 ELSE rows[e]]
    BY DEF Migrate
  <2>2. ASSUME NEW e \in blob PROVE rows'[e].ver = 1
    <3>1. rows'[e] = [val |-> Plant[e], rev |-> 1, ver |-> 1]
      BY <1>1, <2>1
    <3> QED BY <3>1
  <2>3. \A e \in Entity \ blob : rows'[e] = rows[e]
    BY <2>1
  <2>4. /\ snapshot' = snapshot /\ mirror' = mirror /\ dirty' = dirty
        /\ watermark' = watermark /\ persisted' = persisted /\ task' = task
    BY DEF Migrate
  <2> HIDE DEF blob
  <2> QED BY <2>2, <2>3, <2>4
<1>3. PICK ids \in [logged -> nextId..(nextId + Cardinality(logged) - 1)] :
        log' = log \cup {[id |-> ids[e], entity |-> e, ver |-> 1,
                          late |-> FALSE] : e \in logged}
  BY DEF Migrate
<1>4. nextId' = nextId + Cardinality(logged) /\ nextId \in Nat
      /\ Cardinality(logged) \in Nat
  <2>1. IsFiniteSet(logged)
    <3>1. logged \subseteq Entity
      BY <1>1
    <3> QED BY <3>1, FS_Subset, ConstantsOK
  <2> QED BY <2>1, FS_CardinalityType, Numbers DEF Migrate
<1> HIDE DEF blob
<1>5. \A c \in log' : c \in log \/ (/\ c.id \in Nat /\ c.id >= nextId
                                   /\ c.entity \in logged /\ c.ver = 1)
  <2>1. \A e \in logged : ids[e] \in Nat /\ ids[e] >= nextId
    BY <1>4
  <2> QED BY <1>3, <2>1
<1>6. \A n \in Nat : Bounded(n) => Bounded(n)' /\ Claimed(n)' = Claimed(n)
  <2> SUFFICES ASSUME NEW n \in Nat, Bounded(n)
               PROVE  Bounded(n)' /\ Claimed(n)' = Claimed(n)
    OBVIOUS
  <2>1. n < nextId /\ n < nextId'
    BY <1>4 DEF Bounded
  <2>2. Bounded(n)'
    BY <1>2, <1>3, <2>1 DEF Bounded, At
  <2>3. \A c \in log' : c.id <= n => c \in log
    BY <1>4, <1>5, <2>1
  <2>4. Claimed(n)' = Claimed(n)
    BY <1>3, <2>3 DEF Claimed
  <2> QED BY <2>2, <2>4
<1>7. \A e \in Entity : ~Held(rows[e]) /\ rows[e].ver > 0 =>
        ~Held(rows'[e]) /\ rows'[e].ver > 0
  BY <1>1, <1>2
<1>8. /\ \A r \in Station : Honest(r)'
      /\ \A r \in Station, h \in Engine : \A v :
           /\ task'[r][h] = v
           /\ v.upTo \in Nat /\ Bounded(v.upTo) /\ Reading(r, v)
           => Bounded(task[r][h].upTo)' /\ Reading(r, task[r][h])'
  BY <1>2, <1>6, <1>7, RemoteMoves
<1>9. LogCounts'
  <2> SUFFICES ASSUME NEW c \in log'
               PROVE  c.ver > 0 /\ c.ver <= rows'[c.entity].ver
    BY DEF LogCounts
  <2>1. CASE c \in log
    <3>1. /\ c.entity \in Entity /\ c.ver \in Nat /\ c.ver > 0
          /\ rows[c.entity].ver >= c.ver
      BY <2>1, RowsAreNewer
    <3>2. c.entity \notin blob
      BY <1>1, <3>1
    <3> QED BY <1>2, <3>1, <3>2
  <2>2. CASE c \notin log
    <3>1. c.ver = 1 /\ c.entity \in blob
      BY <1>5, <2>2
    <3>2. rows'[c.entity].ver = 1
      BY <1>1, <1>2, <3>1
    <3> QED BY <3>1, <3>2
  <2> QED BY <2>1, <2>2
<1>10. Numbered'
  <2>1. \A s \in Station, g \in Engine : \A c \in task[s][g].entries :
          c.id \in Nat /\ c.id < nextId
    BY Numbers
  <2>2. \A s \in Station, g \in Engine : At(s, g, "exec") =>
          \A c \in task[s][g].entries : \A d \in log' : d.id # c.id
    BY <1>4, <1>5, <2>1 DEF WatermarkInv, Numbered
  <2> QED BY <1>2, <2>2 DEF WatermarkInv, Numbered, At
<1>11. Replacing'
  <2> SUFFICES ASSUME NEW s \in Station, NEW g \in Engine, NEW e \in Entity,
                      LockedBy(s, g, e), rows'[e].ver > 0
               PROVE  Held(rows'[e])
    BY <1>2 DEF Replacing, LockedBy, At
  <2>1. rows'[e] = rows[e]
    BY <1>1, <1>2
  <2> QED BY <2>1 DEF WatermarkInv, Replacing
<1>12. ASSUME NEW r \in Station, NEW h \in Engine
       PROVE  Bounded(task[r][h].upTo)' /\ Reading(r, task[r][h])'
  <2>1. PICK v : v = task'[r][h]
    OBVIOUS
  <2>2. Bounded(v.upTo) /\ Reading(r, v) /\ v.upTo \in Nat
    BY <1>2, <2>1, Numbers DEF WatermarkInv
  <2> QED BY <1>8, <2>1, <2>2
<1> QED BY <1>8, <1>9, <1>10, <1>11, <1>12 DEF WatermarkInv

\* The steps of a save, and the link that dies under it.
LEMMA SavesClaim ==
  ASSUME TypeInv, SafeInv, MirrorInv, HistoryInv, WatermarkInv,
         NEW s \in Station, NEW g \in Engine, SaveStep(s, g) \/ LoseLink(s, g)
  PROVE  WatermarkInv'
<1> USE DEF remoteVars, localVars, linkVars, bounds
<1> DEFINE t == task[s][g]
<1>t. t \in Task /\ t.refs \subseteq Entity
  BY Versions
<1>b. Bounded(t.upTo) /\ Reading(s, t) /\ Honest(s)
  BY DEF WatermarkInv
<1> HIDE DEF t
<1>rest. ASSUME Go(s, g, Idle), ~At(s, g, "idle"),
                rows' = rows, log' = log, nextId' = nextId,
                snapshot' = snapshot, mirror' = mirror, dirty' = dirty,
                persisted' = persisted, watermark' = watermark
         PROVE  WatermarkInv'
  BY <1>rest, OthersIdle, OnlyReads, RestReads
<1>back. ASSUME NEW why, RollBack(s, g, why), t.step \in {"exec", "ack"}
         PROVE  WatermarkInv'
  BY <1>back, <1>rest DEF RollBack, At, t
<1>1. ASSUME NEW e \in Entity, ExecStatement(s, g, e) PROVE WatermarkInv'
  BY <1>1, StatementClaims
<1>2. ASSUME NEW e \in Entity, Conflict(s, g, e) PROVE WatermarkInv'
  BY <1>2, <1>back DEF Conflict, IsNext, At, t
<1>3. CASE Deadlock(s, g)
  BY <1>3, <1>back DEF Deadlock, IsNext, At, t
<1>4. CASE LoseLink(s, g)
  BY <1>4, <1>back DEF LoseLink, t
<1>5. CASE Commit(s, g)
  BY <1>5, CommitClaims
<1>6. CASE Acknowledge(s, g)
  <2>1. t.step = "ack" /\ t.op = "save"
    BY <1>6 DEF Acknowledge, At, SafeInv, OneSave, t
  <2>2. PICK u : /\ Go(s, g, u) /\ u.step = "mirror" /\ u.op = "save"
                 /\ u.upTo = t.upTo
    <3> DEFINE u == [t EXCEPT !.step = "mirror"]
    <3>1. Go(s, g, u)
      BY <1>6 DEF Acknowledge, t
    <3>2. u.step = "mirror" /\ u.op = "save" /\ u.upTo = t.upTo
      BY <1>t, <2>1 DEF Task
    <3> HIDE DEF u
    <3> QED BY <3>1, <3>2
  <2>3. /\ rows' = rows /\ log' = log /\ nextId' = nextId /\ mirror' = mirror
        /\ dirty' = dirty /\ watermark' = watermark /\ persisted' = persisted
    BY <1>6 DEF Acknowledge
  <2>4. /\ \A e \in Entity : snapshot'[s][e] =
             IF e \in t.refs THEN t.got[e] ELSE snapshot[s][e]
        /\ \A r \in Station \ {s} : snapshot'[r] = snapshot[r]
    BY <1>6 DEF Acknowledge, Swapped, t, TypeInv, TypeOK
  <2>5. \A h \in Engine : h # g => At(s, h, "idle")
    BY <2>1, OthersIdle DEF At, t
  <2>6. Applied(s, watermark[s])'
    <3> SUFFICES ASSUME NEW c \in Claimed(watermark[s])
                 PROVE  Reflects(snapshot[s], c)'
      BY <2>3 DEF Applied, Claimed
    <3>1. c.entity \in Entity /\ Reflects(snapshot[s], c)
      BY <1>b, Numbers DEF Honest, Applied, Claimed
    <3>2. c.entity \in t.refs => t.got[c.entity].ver >= c.ver
      BY <1>b, <2>1 DEF Reading, Newer
    <3> QED BY <2>3, <2>4, <3>1, <3>2 DEF Reflects
  <2>7. Honest(s)'
    <3>1. PICK n : n = watermark[s]
      OBVIOUS
    <3>2. Bounded(n)'
      BY <1>b, <2>2, <2>3, <3>1, BoundStays DEF Honest
    <3>3. Bounded(watermark[s])'
      BY <2>3, <3>1, <3>2 DEF Bounded
    <3>4. Stored(s, persisted[s])'
      BY <1>b, <2>3 DEF Honest, Stored, Claimed, Reflects
    <3> QED BY <1>b, <2>3, <2>6, <3>3, <3>4 DEF Honest
  <2>8. Reading(s, u)'
    BY <2>2 DEF Reading
  <2> QED BY <1>b, <2>2, <2>3, <2>4, <2>5, <2>7, <2>8, StationStays
<1>7. CASE Nudge(s, g)
  BY <1>7, <1>rest DEF Nudge, At
<1> QED BY <1>1, <1>2, <1>3, <1>4, <1>5, <1>6, <1>7 DEF SaveStep

-----------------------------------------------------------------------------
(* The link and crashes.                                                   *)

\* The beginning of an edit, a start or stop of an engine and what the channel
\* delivers move no claim.
LEMMA LinksClaim ==
  ASSUME TypeInv, MirrorInv, WatermarkInv, NoDetach, NEW s \in Station,
         LinkStep(s) \/ BeginEdit(s)
  PROVE  WatermarkInv'
<1> USE DEF remoteVars, localVars, linkVars, bounds
<1>1. CASE Attach(s)
  <2>1. PICK g \in Engine : g = 3 - current[s]
    <3>1. current[s] \in Engine
      BY DEF TypeInv, TypeOK
    <3> QED BY <3>1 DEF Engine
  <2>2. /\ Go(s, g, Sweep(s, "sweep", Entity)) /\ ~attached[s]
        /\ rows' = rows /\ log' = log /\ nextId' = nextId
        /\ snapshot' = snapshot /\ mirror' = mirror /\ dirty' = dirty
        /\ persisted' = persisted /\ watermark' = watermark
    BY <1>1, <2>1 DEF Attach, Begin, Fault, NoDetach
  <2>3. \A h \in Engine : At(s, h, "idle")
    BY <2>2 DEF MirrorInv, SoleTask
  <2> QED BY <2>2, <2>3, OnlyReads, SweepReads
<1>2. CASE Detach(s)
  BY <1>2 DEF Detach, Fault, NoDetach
<1>3. CASE ChannelOpen(s) \/ ChannelDrop(s) \/ Relisten(s) \/ BeginEdit(s)
  <2>1. /\ rows' = rows /\ log' = log /\ nextId' = nextId
        /\ snapshot' = snapshot /\ mirror' = mirror /\ dirty' = dirty
        /\ persisted' = persisted /\ watermark' = watermark /\ task' = task
    BY <1>3 DEF ChannelOpen, ChannelDrop, Relisten, BeginEdit
  <2> QED BY <2>1, NothingClaimed
<1> QED BY <1>1, <1>2, <1>3 DEF LinkStep

\* A station that starts again claims what its disk has: where it can crash,
\* no write of the disk has failed and nothing was noted.
LEMMA RestartClaims ==
  ASSUME TypeInv, WatermarkInv, DiskOrCrash, NEW s \in Station, Restart(s)
  PROVE  WatermarkInv'
<1> USE DEF remoteVars, localVars, linkVars, bounds
<1>1. /\ \A g \in Engine : task'[s][g] = Idle
      /\ \A r \in Station \ {s}, g \in Engine : task'[r][g] = task[r][g]
  BY DEF Restart, TypeInv, TypeOK
<1>2. /\ snapshot'[s] = mirror[s] /\ watermark'[s] = persisted[s]
      /\ dirty'[s] = {}
      /\ \A r \in Station \ {s} :
           /\ snapshot'[r] = snapshot[r] /\ watermark'[r] = watermark[r]
           /\ dirty'[r] = dirty[r]
      /\ rows' = rows /\ log' = log /\ nextId' = nextId /\ mirror' = mirror
      /\ persisted' = persisted
  BY DEF Restart, TypeInv, TypeOK
<1>3. dirty[s] = {}
  BY DEF Restart, Fault, DiskOrCrash, WatermarkInv, Honest
<1>4. Idle.step = "idle" /\ Idle.upTo = 0 /\ Bounded(0)
  BY ZeroIsBounded DEF Idle
<1>5. \A n : Bounded(n) => Bounded(n)'
  BY <1>1, <1>2, <1>4 DEF Bounded, At
<1>6. LogCounts' /\ Numbered' /\ Replacing'
  BY <1>1, <1>2, <1>4 DEF WatermarkInv, LogCounts, Numbered, Replacing,
                          LockedBy, At
<1>7. ASSUME NEW r \in Station \ {s} PROVE Honest(r)'
  <2>1. PICK n : n = watermark[r]
    OBVIOUS
  <2>2. Bounded(n)'
    BY <1>5, <2>1 DEF WatermarkInv, Honest
  <2>3. Bounded(watermark[r])'
    BY <1>2, <2>1, <2>2 DEF Bounded
  <2> QED BY <1>2, <2>3 DEF WatermarkInv, Honest, Applied, Stored, Claimed,
                            Reflects
<1>8. Honest(s)'
  <2>1. /\ persisted[s] \in Nat /\ watermark[s] \in Nat
        /\ persisted[s] <= watermark[s] /\ Bounded(watermark[s])
        /\ Stored(s, persisted[s])
    BY Numbers DEF WatermarkInv, Honest
  <2>2. PICK n : n = persisted[s]
    OBVIOUS
  <2>3. Bounded(n)'
    BY <1>5, <2>1, <2>2, BoundedBelow
  <2>4. Bounded(watermark[s])'
    BY <1>2, <2>2, <2>3 DEF Bounded
  <2>5. Applied(s, watermark[s])' /\ Stored(s, persisted[s])'
    BY <1>2, <1>3, <2>1 DEF Applied, Stored, Claimed, Reflects
  <2> QED BY <1>2, <2>1, <2>4, <2>5 DEF Honest
<1>9. ASSUME NEW r \in Station, NEW h \in Engine
      PROVE  Bounded(task[r][h].upTo)' /\ Reading(r, task[r][h])'
  <2>1. CASE r = s
    <3>1. Bounded(0)'
      BY <1>4, <1>5
    <3> QED BY <1>1, <1>4, <2>1, <3>1 DEF Bounded, Reading
  <2>2. CASE r # s
    <3>1. PICK t : t = task[r][h]
      OBVIOUS
    <3>2. Bounded(t.upTo)' /\ Reading(r, t)
      BY <1>5, <3>1 DEF WatermarkInv
    <3>3. Reading(r, t)'
      BY <1>2, <2>2, <3>2 DEF Reading, Covered, Newer, Applied, Claimed, Gone,
                              Reflects
    <3>4. task'[r][h] = t
      BY <1>1, <2>2, <3>1
    <3> QED BY <3>2, <3>3, <3>4 DEF Bounded, Reading, Covered, Newer, Applied,
                                    Claimed, Gone, Reflects
  <2> QED BY <2>1, <2>2
<1> QED BY <1>6, <1>7, <1>8, <1>9 DEF WatermarkInv

-----------------------------------------------------------------------------
\* At the start a station that is not fresh has every row of the log.
LEMMA WatermarkInit == Init => WatermarkInv
<1> SUFFICES ASSUME Init PROVE WatermarkInv
  OBVIOUS
<1> DEFINE n == Cardinality(Logged0)
<1>1. n \in Nat /\ nextId = n + 1
  BY LoggedIsFinite DEF Init, Logged0
<1> HIDE DEF n
<1>2. PICK ids \in [Logged0 -> 1..n] :
        log = {[id |-> ids[e], entity |-> e, ver |-> 1, late |-> FALSE] :
                 e \in Logged0}
  BY DEF Init, n
<1>3. \A c \in log : /\ c.id \in 1..n /\ c.entity \in Logged0 /\ c.ver = 1
  BY <1>2
<1>4. \A e \in Logged0 : /\ e \in Entity /\ Held(FirstRow(e))
                         /\ FirstRow(e).ver = 1 /\ Rehomed(e) = FirstRow(e)
  BY DEF Logged0, FirstRow, Rehomed, Held, NoItem
<1>5. /\ rows = [e \in Entity |-> FirstRow(e)] /\ snapshot = mirror
      /\ \A s \in Station, e \in Entity :
           mirror[s][e] = IF s \in Fresh THEN NoItem ELSE Rehomed(e)
      /\ \A s \in Station : /\ dirty[s] = {} /\ watermark[s] = persisted[s]
                            /\ persisted[s] = IF s \in Fresh THEN 0 ELSE n
  <2>1. /\ rows = [e \in Entity |-> FirstRow(e)] /\ snapshot = mirror
        /\ watermark = persisted /\ dirty = [s \in Station |-> {}]
    BY DEF Init
  <2>2. mirror = [s \in Station |-> [e \in Entity |->
                   IF s \in Fresh THEN NoItem ELSE Rehomed(e)]]
    BY DEF Init
  <2>3. persisted = [s \in Station |-> IF s \in Fresh THEN 0 ELSE nextId - 1]
    BY DEF Init
  <2>4. nextId - 1 = n
    BY <1>1
  <2>5. \A s \in Station, e \in Entity :
          mirror[s][e] = IF s \in Fresh THEN NoItem ELSE Rehomed(e)
    BY <2>2
  <2>6. \A s \in Station : persisted[s] = IF s \in Fresh THEN 0 ELSE n
    BY <2>3, <2>4
  <2> QED BY <2>1, <2>5, <2>6
<1>6. \A s \in Station, g \in Engine :
        task[s][g].step = "idle" /\ task[s][g].upTo = 0
  BY DEF Init, Idle
<1>7. LogCounts /\ Numbered /\ Replacing
  <2>1. LogCounts
    BY <1>3, <1>4, <1>5 DEF LogCounts
  <2> QED BY <1>6, <2>1 DEF Numbered, Replacing, LockedBy, At
<1>8. Bounded(0) /\ Bounded(n)
  BY <1>1, <1>6 DEF Bounded, At
<1>9. ASSUME NEW s \in Station PROVE Honest(s)
  <2>1. persisted[s] <= watermark[s] /\ Bounded(watermark[s])
    BY <1>1, <1>5, <1>8
  <2>2. \A c \in Claimed(persisted[s]) : Reflects(mirror[s], c)
    <3> SUFFICES ASSUME NEW c \in Claimed(persisted[s])
                 PROVE  Reflects(mirror[s], c)
      OBVIOUS
    <3>1. /\ c.id \in 1..n /\ c.entity \in Logged0 /\ c.ver = 1
          /\ c.id <= persisted[s]
      BY <1>3 DEF Claimed
    <3>2. s \notin Fresh
      BY <1>1, <1>5, <3>1
    <3>3. mirror[s][c.entity].ver = 1
      BY <1>4, <1>5, <3>1, <3>2
    <3> QED BY <3>1, <3>3 DEF Reflects
  <2> QED BY <1>5, <2>1, <2>2 DEF Honest, Applied, Stored
<1> QED BY <1>6, <1>7, <1>8, <1>9 DEF WatermarkInv, Reading

\* Every step keeps the invariant.
LEMMA WatermarkNext ==
  ASSUME TypeInv, SafeInv, MirrorInv, HistoryInv, WatermarkInv,
         NoDetach, DiskOrCrash, [Next]_vars
  PROVE  WatermarkInv'
<1>1. ASSUME NEW s \in Station, NEW g \in Engine,
             SyncStep(s, g) \/ Abandon(s, g)
      PROVE  WatermarkInv'
  BY <1>1, ReadsClaim, RepairClaims, WriteClaims, ApplyClaims, AdvanceClaims
     DEF SyncStep
<1>2. ASSUME NEW s \in Station, NEW g \in Engine,
             SaveStep(s, g) \/ LoseLink(s, g)
      PROVE  WatermarkInv'
  BY <1>2, SavesClaim
<1>3. ASSUME NEW s \in Station,
             BeginEdit(s) \/ StartStep(s) \/ LinkStep(s) \/ Restart(s)
      PROVE  WatermarkInv'
  BY <1>3, StartsClaim, LinksClaim, RestartClaims
<1>4. ASSUME NEW k \in Kind, Migrate(k) PROVE WatermarkInv'
  BY <1>4, MigrateClaims
<1>5. CASE UNCHANGED vars
  BY <1>5, NothingClaimed DEF vars, remoteVars, localVars
<1> QED BY <1>1, <1>2, <1>3, <1>4, <1>5 DEF Next

\* The invariant behind the two theorems, in every reachable state.
LEMMA WatermarkInvariant ==
  ASSUME ~Reuse, NoDetach, DiskOrCrash PROVE Spec => []WatermarkInv
<1>1. TypeInv /\ SafeInv /\ MirrorInv /\ HistoryInv /\ WatermarkInv
        /\ [Next]_vars => WatermarkInv'
  BY WatermarkNext
<1>2. Spec => [](TypeInv /\ SafeInv /\ MirrorInv /\ HistoryInv)
  BY TypesInvariant, SafeInvariant, MirrorInvariant, HistoryInvariant, PTL
<1> QED BY <1>1, <1>2, WatermarkInit, PTL DEF Spec

\* The watermark never passes a change row that is not in the memory, except
\* one that was committed out of order: whatever is read while others commit,
\* however a pull, a sweep and a save of the station follow each other, and
\* wherever an attempt fails (_pull, _reconcile, _advanceWatermark).
THEOREM WatermarkIsHonest ==
  ASSUME ~Reuse, NoDetach, DiskOrCrash PROVE Spec => []WatermarkClaimsApplied
<1>1. WatermarkInv => WatermarkClaimsApplied
  BY DEF WatermarkInv, Honest, Applied, Claimed, WatermarkClaimsApplied
<1> QED BY <1>1, WatermarkInvariant, PTL

\* Nor does the watermark row of config.sqlite pass a change row that is
\* neither in the mirror nor noted for repair: the next boot asks for whatever
\* it does not have (open, _readWatermark).
THEOREM DiskIsHonest ==
  ASSUME ~Reuse, NoDetach, DiskOrCrash PROVE Spec => []PersistedClaimsMirrored
<1>1. WatermarkInv => PersistedClaimsMirrored
  BY DEF WatermarkInv, Honest, Stored, Claimed, PersistedClaimsMirrored
<1> QED BY <1>1, WatermarkInvariant, PTL
=============================================================================
