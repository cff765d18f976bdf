------------------------------ MODULE DragDrop ------------------------------
(***************************************************************************)
(* drag_drop_lifetime.cpp: the reference counts of the drop targets that a *)
(* plugin registers on the child window of every engine.  Windows gives a  *)
(* rebuilt engine the same child window, so a registration nobody revoked  *)
(* meets the next one, and a target can be released after it was freed.    *)
(***************************************************************************)
EXTENDS Naturals

CONSTANT MaxTargets    \* bound: targets alive at a time

ASSUME TargetsAssumption == MaxTargets \in Nat \ {0, 1}

Target == 1 .. MaxTargets
NoTarget == 0

DropState ==
  [refs : [Target -> 0 .. 2],                 \* 0: freed, or never made
   registered : Target \cup {NoTarget},       \* OLE's slot of the window
   plugin : Target \cup {NoTarget},           \* what the live plugin holds
   use_after_free : BOOLEAN, leaked : BOOLEAN]

NoDropTargets ==
  [refs |-> [t \in Target |-> 0], registered |-> NoTarget,
   plugin |-> NoTarget, use_after_free |-> FALSE, leaked |-> FALSE]

AddRef(d, t) == [d EXCEPT !.refs[t] = @ + 1]

\* Drops one reference; the last one frees the target, whose destructor
\* revokes whatever the window's slot holds.
ReleaseOnce(d, t) ==
  IF d.refs[t] = 0 THEN [d EXCEPT !.use_after_free = TRUE]
  ELSE [d EXCEPT !.refs[t] = @ - 1]

Release(d, t) ==
  LET once == ReleaseOnce(d, t)
  IN IF t = NoTarget THEN d
     ELSE IF d.refs[t] # 1 \/ once.registered = NoTarget THEN once
     ELSE IF once.registered = t THEN [once EXCEPT !.registered = NoTarget]
     ELSE ReleaseOnce([once EXCEPT !.registered = NoTarget], once.registered)

Revoke(d) ==
  IF d.registered = NoTarget THEN d
  ELSE Release([d EXCEPT !.registered = NoTarget], d.registered)

\* A registration on an occupied slot fails, and the plugin does not notice.
CreateTarget(d) ==
  LET t == CHOOSE new \in Target :
             d.refs[new] = 0 /\ new \notin {d.registered, d.plugin}
      offered == IF d.registered # NoTarget THEN d
                 ELSE AddRef([d EXCEPT !.registered = t], t)
  IN [AddRef(offered, t) EXCEPT !.plugin = t]

\* The teardown before the runner revoked.
DestroyTargetUnrevoked(d) ==
  LET gone == [Release(d, d.plugin) EXCEPT !.plugin = NoTarget]
  IN [gone EXCEPT !.leaked = @ \/ gone.registered # NoTarget]

\* The runner revokes, then the plugin's destructor releases its own.
DestroyTarget(d) ==
  LET clean == Revoke(d)
      gone == [Release(clean, clean.plugin) EXCEPT !.plugin = NoTarget]
  IN IF d.plugin = NoTarget THEN d
     ELSE [gone EXCEPT !.leaked = @ \/ gone.registered # NoTarget]
=============================================================================
