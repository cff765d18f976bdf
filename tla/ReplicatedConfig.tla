-------------------------- MODULE ReplicatedConfig --------------------------
(***************************************************************************)
(* What the configuration store promises, with no transaction, change log, *)
(* watermark or notification in it.  Each entity has a line of versions;   *)
(* a station has seen a version of each and kept a version of each on      *)
(* disk.  A write moves a set of entities on together, and only a station  *)
(* that has seen their newest versions makes one.                          *)
(***************************************************************************)
EXTENDS Integers

CONSTANTS Station, Entity

VARIABLES
  head,  \* the newest version of each entity
  seen,  \* the version of each entity a station serves
  kept   \* the version of each entity a station would start again from

vars == <<head, seen, kept>>

TypeOK ==
  /\ head \in [Entity -> Nat]
  /\ seen \in [Station -> [Entity -> Nat]]
  /\ kept \in [Station -> [Entity -> Nat]]

Init ==
  /\ head \in [Entity -> {0, 1}]
  /\ seen \in [Station -> [Entity -> {0, 1}]]
  /\ \A s \in Station, e \in Entity : seen[s][e] <= head[e]
  /\ kept = seen

\* One transaction: every entity it moves was seen at its newest version.
Write(s) ==
  /\ head' \in [Entity -> Nat]
  /\ \A e \in Entity : \/ head'[e] = head[e]
                       \/ head'[e] = head[e] + 1 /\ seen[s][e] = head[e]
  /\ UNCHANGED <<seen, kept>>

\* The migration writes first versions.
Import ==
  /\ \A e \in Entity : head'[e] = head[e] \/ (head[e] = 0 /\ head'[e] = 1)
  /\ UNCHANGED <<seen, kept>>

\* A station comes forward, and never past the newest version.
Learn(s) ==
  /\ \A e \in Entity : seen[s][e] <= seen'[s][e] /\ seen'[s][e] <= head[e]
  /\ \A r \in Station \ {s} : seen'[r] = seen[r]
  /\ UNCHANGED <<head, kept>>

Keep(s) ==
  /\ \A e \in Entity : kept[s][e] <= kept'[s][e] /\ kept'[s][e] <= seen[s][e]
  /\ \A r \in Station \ {s} : kept'[r] = kept[r]
  /\ UNCHANGED <<head, seen>>

Restart(s) ==
  /\ seen' = [seen EXCEPT ![s] = kept[s]]
  /\ UNCHANGED <<head, kept>>

Next ==
  \/ \E s \in Station : Write(s) \/ Learn(s) \/ Keep(s) \/ Restart(s)
  \/ Import

Spec == Init /\ [][Next]_vars
=============================================================================
