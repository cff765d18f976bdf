---------------------------- MODULE EmbeddedProofs ----------------------------
(***************************************************************************)
(* Proofs about the plugins that run foreign engines, for any instances,   *)
(* players, outputs, views, pages, calls and values: the sweep of the      *)
(* browser's cache takes nothing away from an instance it has seen, what a *)
(* video output draws with and draws into is alive while it does, and with *)
(* the proofs of the browser and of its values all this holds of the       *)
(* plugins side by side.                                                   *)
(***************************************************************************)
EXTENDS Embedded, WebViewProofs, WValueProofs

-----------------------------------------------------------------------------
(***************************************************************************)
(* The cache: the inductive invariant.                                     *)
(***************************************************************************)
\* How far an instance has come with its files.
Stage == {"none", "locked", "made", "listening", "gone"}

\* The types, with the records and functions CacheTypeOK leaves open.
CacheTypes ==
  /\ file \in [File -> [owner : Owner, age : Age]]
  /\ dir \in [DirOwner -> [present : BOOLEAN, bound : BOOLEAN, age : Age]]
  /\ inst \in [Instances -> [at : Stage, since : 0 .. StartTime]]
  /\ sweep \in Sweep

\* An instance has no directory before it makes one, a cache directory has at
\* most one live instance, and no file is of another application.
World ==
  /\ \A i \in Instances : inst[i].at \in {"none", "locked"} => ~dir[i].present
  /\ \A i, j \in Peers : Alive(i) /\ Alive(j) => i = j
  /\ \A f \in File : file[f].owner \notin Others

\* What an instance has made is there, and no older than its start.
KeepsItsFiles(i) ==
  /\ i \in Peers /\ Alive(i) => file["lock"].owner = i
  /\ i \in Peers /\ inst[i].at \in {"locked", "made"} =>
       file["lock"].age <= inst[i].since
  /\ i \in Peers /\ inst[i].at = "listening" => file["socket"].owner = i
  /\ inst[i].at \in {"made", "listening"} => dir[i].present
  /\ inst[i].at = "listening" => dir[i].bound
  /\ inst[i].at = "made" => dir[i].age <= inst[i].since

\* Until the sweep deletes this holds of every instance, afterwards of those
\* that were there when it read the ages.
Deleted == sweep.pc \in {"remove", "done"}
Kept == \A i \in Instances : (Deleted => i \in sweep.met) => KeepsItsFiles(i)

\* The instances met had started.
Met == \A i \in sweep.met : inst[i].at # "none"

SocketAnswered == "socket" \in sweep.present /\ sweep.answers

\* Whoever listens was seen to, or its probe failed, or it bound after the look
\* and its lock is young: the probe is shorter than the grace.
Seen ==
  /\ sweep.pc = "connect" =>
       \A i \in Peers : inst[i].at = "listening" =>
         "socket" \in sweep.present \/ file["lock"].age <= StartTime + sweep.ticks
  /\ sweep.pc = "age" =>
       \A i \in Peers : inst[i].at = "listening" =>
         \/ SocketAnswered \/ i \in sweep.unheard
         \/ file["lock"].age <= StartTime + sweep.ticks
  /\ sweep.pc = "list" /\ sweep.met \cap Peers # {} =>
       SocketAnswered \/ sweep.age < FreshGrace

\* The directory judged is the one the link seen led to.
Target ==
  /\ sweep.pc \notin {"age", "list"} => sweep.target = "none"
  /\ sweep.target \notin Others
  /\ sweep.target \in DirOwner => "socket" \in sweep.present

\* The plan spares who was met.
Planned ==
  /\ sweep.pc # "unlink" => sweep.files = {}
  /\ sweep.pc \notin {"unlink", "remove"} => sweep.directories = {}
  /\ sweep.met \cap Peers # {} => sweep.files = {}
  /\ \A i \in sweep.met : Alive(i) => i \notin sweep.directories

CacheInv ==
  CacheTypes /\ World /\ Kept /\ Met /\ Seen /\ Target /\ Planned

-----------------------------------------------------------------------------
(***************************************************************************)
(* The cache: the initial states, and those the other instances reach.     *)
(***************************************************************************)
\* What the graces are.
LEMMA Graces ==
  /\ StartTime \in Nat /\ ProbeTime \in Nat /\ FreshGrace \in Nat
  /\ DirGrace \in Nat /\ MaxAge \in Nat
  /\ StartTime + ProbeTime < FreshGrace /\ FreshGrace <= DirGrace
  /\ DirGrace <= MaxAge /\ 0 \in Age /\ MaxAge \in Age
<1>1. /\ StartTime \in Nat /\ ProbeTime \in Nat /\ FreshGrace \in Nat
      /\ DirGrace \in Nat /\ MaxAge \in Nat
  BY CacheConstants, Zenon
<1>2. /\ StartTime + ProbeTime < FreshGrace /\ FreshGrace <= DirGrace
      /\ DirGrace <= MaxAge
  BY CacheConstants, Zenon
<1>3. 0 <= MaxAge /\ MaxAge <= MaxAge
  BY <1>1
<1> QED BY <1>1, <1>2, <1>3 DEF Age

\* The invariant holds before the sweep has begun, whatever a killed run left.
LEMMA InitCacheInv == InitCache => CacheInv
<1> SUFFICES ASSUME InitCache PROVE CacheInv
  OBVIOUS
<1>1. file \in [File -> [owner : Owner, age : Age]]
      /\ \A f \in File : file[f].owner \in {"killed run", "elsewhere", "none"}
  <2>1. PICK left \in {{}, {"lock", "cookie"}, File}, age \in {0, MaxAge},
               t \in {"killed run", "elsewhere"} :
          file = [f \in File |->
                   IF f \notin left THEN Absent
                   ELSE [owner |-> IF f = "socket" THEN t ELSE "killed run",
                         age |-> age]]
    BY DEF InitCache
  <2>2. age \in Age /\ 0 \in Age /\ t \in Owner /\ "killed run" \in Owner
        /\ "none" \in Owner
    BY Graces DEF Owner, DirOwner
  <2> QED BY <2>1, <2>2 DEF Absent
<1>2. dir \in [DirOwner -> [present : BOOLEAN, bound : BOOLEAN, age : Age]]
  <2>1. PICK d \in {NoDir} \cup {[NoDir EXCEPT !.present = TRUE, !.age = a] :
                                  a \in {0, MaxAge}} :
          dir = [o \in DirOwner |-> IF o = "killed run" THEN d ELSE NoDir]
    BY DEF InitCache
  <2>2. d \in [present : BOOLEAN, bound : BOOLEAN, age : Age]
        /\ NoDir \in [present : BOOLEAN, bound : BOOLEAN, age : Age]
    <3>1. 0 \in Age /\ MaxAge \in Age
      BY Graces
    <3>2. NoDir \in [present : BOOLEAN, bound : BOOLEAN, age : Age]
      BY <3>1 DEF NoDir
    <3>3. ASSUME NEW a \in Age
          PROVE  [NoDir EXCEPT !.present = TRUE, !.age = a]
                   \in [present : BOOLEAN, bound : BOOLEAN, age : Age]
      BY <3>2
    <3>4. d = NoDir \/ \E a \in {0, MaxAge} :
                          d = [NoDir EXCEPT !.present = TRUE, !.age = a]
      BY <2>1
    <3> QED BY <3>1, <3>2, <3>3, <3>4
  <2> QED BY <2>1, <2>2
<1>3. \A i \in Instances : dir[i] = NoDir
  BY CacheConstants DEF InitCache, DirOwner
<1>4. inst \in [Instances -> [at : Stage, since : 0 .. StartTime]]
      /\ \A i \in Instances : inst[i].at = "none"
  <2>1. 0 \in 0 .. StartTime
    BY Graces
  <2> QED BY <2>1 DEF InitCache, Stage
<1>5. sweep \in Sweep /\ sweep = NothingSeen
  <2>1. 0 \in Age /\ 0 \in 0 .. ProbeTime
    BY Graces
  <2> QED BY <2>1 DEF InitCache, NothingSeen, Sweep, Owner
<1>6. World
  <2>1. \A f \in File : file[f].owner \notin Others
    BY <1>1, CacheConstants, Zenon DEF Instances
  <2> QED BY <1>3, <1>4, <2>1 DEF World, Alive, NoDir, Instances
<1>7. Kept
  BY <1>4 DEF Kept, KeepsItsFiles, Alive
<1>8. Met /\ Seen /\ Planned
  BY <1>5 DEF Met, Seen, Planned, NothingSeen
<1>9. Target
  <2>1. "none" \notin Others /\ "none" \notin DirOwner
    BY CacheConstants DEF Instances, DirOwner
  <2> QED BY <1>5, <2>1 DEF Target, NothingSeen
<1> QED BY <1>1, <1>2, <1>4, <1>5, <1>6, <1>7, <1>8, <1>9
       DEF CacheInv, CacheTypes

\* An instance that starts takes the lock of a directory that is free.
LEMMA LocksKeeps ==
  ASSUME CacheInv, NEW i \in Instances, Locks(i)
  PROVE  CacheInv'
<1> USE DEF CacheInv
<1>1. /\ inst[i].at = "none"
      /\ inst' = [inst EXCEPT ![i] = [at |-> "locked", since |-> 0]]
      /\ dir' = dir /\ sweep' = sweep
      /\ i \in Peers => \A j \in Peers : ~Alive(j)
  BY DEF Locks
<1>2. inst' \in [Instances -> [at : Stage, since : 0 .. StartTime]]
  <2>1. [at |-> "locked", since |-> 0] \in [at : Stage, since : 0 .. StartTime]
    BY Graces DEF Stage
  <2> QED BY <1>1, <2>1 DEF CacheTypes
<1>3. inst'[i].at = "locked" /\ inst'[i].since = 0
      /\ \A j \in Instances : j # i => inst'[j] = inst[j]
  BY <1>1 DEF CacheTypes
<1>4. file' \in [File -> [owner : Owner, age : Age]]
      /\ \A f \in File : \/ file'[f].owner \in {file[f].owner, "none"}
                         \/ i \in Peers /\ file'[f].owner = i
  <2>1. CASE i \in Peers
    BY <2>1, Graces DEF Locks, File, Owner, DirOwner, Absent
  <2>2. CASE i \notin Peers
    BY <2>2 DEF Locks, CacheTypes
  <2> QED BY <2>1, <2>2
<1>5. CacheTypes'
  BY <1>1, <1>2, <1>4 DEF CacheTypes
<1>6. i \notin sweep.met
  BY <1>1 DEF Met
<1>7. World'
  <2>1. \A j \in Instances : inst'[j].at \in {"none", "locked"} => ~dir'[j].present
    BY <1>1, <1>3 DEF World
  <2>2. \A j, k \in Peers : Alive(j)' /\ Alive(k)' => j = k
    BY <1>1, <1>3 DEF World, Alive, Instances
  <2>3. \A f \in File : file'[f].owner \notin Others
    BY <1>4, CacheConstants DEF World, Instances
  <2> QED BY <2>1, <2>2, <2>3 DEF World
<1>8. Kept'
  <2> SUFFICES ASSUME NEW j \in Instances, Deleted' => j \in sweep'.met
               PROVE  KeepsItsFiles(j)'
    BY DEF Kept
  <2>1. CASE j = i
    <3>1. i \in Peers => file'["lock"].owner = i /\ file'["lock"].age = 0
      BY DEF Locks, File
    <3> QED BY <2>1, <1>3, <3>1 DEF KeepsItsFiles, Alive
  <2>2. CASE j # i
    <3>1. KeepsItsFiles(j) /\ inst'[j] = inst[j] /\ dir' = dir
      BY <2>2, <1>1, <1>3 DEF Kept, Deleted
    <3>2. CASE i \in Peers
      BY <3>1, <3>2, <1>1 DEF KeepsItsFiles, Alive
    <3>3. CASE i \notin Peers
      BY <3>1, <3>3, <1>1 DEF KeepsItsFiles, Alive, Locks
    <3> QED BY <3>2, <3>3
  <2> QED BY <2>1, <2>2
<1>9. Met'
  BY <1>1, <1>3, <1>6, <1>5 DEF Met, CacheTypes, Sweep
<1>10. Seen'
  <2>1. \A j \in Peers : inst'[j].at = "listening" =>
          inst[j].at = "listening" /\ file'["lock"] = file["lock"]
    <3>1. CASE i \in Peers
      BY <3>1, <1>1, <1>3 DEF Alive, Instances
    <3>2. CASE i \notin Peers
      BY <3>2, <1>1, <1>3 DEF Locks, Instances
    <3> QED BY <3>1, <3>2
  <2> QED BY <1>1, <2>1 DEF Seen, SocketAnswered
<1>11. Target' /\ Planned'
  BY <1>1, <1>3, <1>6, <1>5 DEF Target, Planned, Alive, CacheTypes, Sweep
<1> QED BY <1>5, <1>7, <1>8, <1>9, <1>10, <1>11

\* Its directory is new.
LEMMA MakesDirKeeps ==
  ASSUME CacheInv, NEW i \in Instances, MakesDir(i)
  PROVE  CacheInv'
<1> USE DEF CacheInv
<1>1. /\ inst[i].at = "locked" /\ inst' = [inst EXCEPT ![i].at = "made"]
      /\ dir' = [dir EXCEPT ![i] = [NoDir EXCEPT !.present = TRUE]]
      /\ file' = file /\ sweep' = sweep
  BY DEF MakesDir
<1>2. inst' \in [Instances -> [at : Stage, since : 0 .. StartTime]]
  BY <1>1 DEF CacheTypes, Stage
<1>3. inst'[i].at = "made" /\ inst'[i].since = inst[i].since
      /\ \A j \in Instances : j # i => inst'[j] = inst[j]
  BY <1>1 DEF CacheTypes
<1>4. dir' \in [DirOwner -> [present : BOOLEAN, bound : BOOLEAN, age : Age]]
  <2>1. [NoDir EXCEPT !.present = TRUE]
          \in [present : BOOLEAN, bound : BOOLEAN, age : Age]
    BY Graces DEF NoDir
  <2> QED BY <1>1, <2>1 DEF CacheTypes
<1>5. dir'[i].present /\ dir'[i].age = 0
      /\ \A j \in Instances : j # i => dir'[j] = dir[j]
  BY <1>1 DEF CacheTypes, DirOwner, NoDir
<1>6. CacheTypes'
  BY <1>1, <1>2, <1>4 DEF CacheTypes
<1>7. World'
  BY <1>1, <1>3, <1>5 DEF World, Alive, Instances
<1>8. Kept'
  <2> SUFFICES ASSUME NEW j \in Instances, Deleted' => j \in sweep'.met
               PROVE  KeepsItsFiles(j)'
    BY DEF Kept
  <2>1. KeepsItsFiles(j)
    BY <1>1 DEF Kept, Deleted
  <2>2. CASE j = i
    <3>1. inst[i].since \in Nat
      BY Graces DEF CacheTypes
    <3> QED BY <2>1, <2>2, <3>1, <1>1, <1>3, <1>5 DEF KeepsItsFiles, Alive
  <2>3. CASE j # i
    BY <2>1, <2>3, <1>1, <1>3, <1>5 DEF KeepsItsFiles, Alive
  <2> QED BY <2>2, <2>3
<1>9. Met' /\ Target'
  BY <1>1, <1>3, <1>6 DEF Met, Target, CacheTypes, Sweep
<1>10. Planned'
  BY <1>1, <1>3, <1>6 DEF Planned, Alive, CacheTypes, Sweep
<1>11. Seen'
  BY <1>1, <1>3 DEF Seen, SocketAnswered, Instances
<1> QED BY <1>6, <1>7, <1>8, <1>9, <1>10, <1>11

\* Its link is to itself, and its lock is young when it binds.
LEMMA BindsKeeps ==
  ASSUME CacheInv, NEW i \in Instances, Binds(i)
  PROVE  CacheInv'
<1> USE DEF CacheInv
<1>1. /\ inst[i].at = "made"
      /\ inst' = [inst EXCEPT ![i] = [at |-> "listening", since |-> 0]]
      /\ dir' = [dir EXCEPT ![i].bound = dir[i].present]
      /\ sweep' = sweep
  BY DEF Binds
<1>2. inst' \in [Instances -> [at : Stage, since : 0 .. StartTime]]
  <2>1. [at |-> "listening", since |-> 0] \in [at : Stage, since : 0 .. StartTime]
    BY Graces DEF Stage
  <2> QED BY <1>1, <2>1 DEF CacheTypes
<1>3. inst'[i].at = "listening"
      /\ \A j \in Instances : j # i => inst'[j] = inst[j]
  BY <1>1 DEF CacheTypes
<1>4. dir' \in [DirOwner -> [present : BOOLEAN, bound : BOOLEAN, age : Age]]
  <2>1. dir[i] \in [present : BOOLEAN, bound : BOOLEAN, age : Age]
    BY DEF CacheTypes, DirOwner
  <2>2. [dir[i] EXCEPT !.bound = dir[i].present]
          \in [present : BOOLEAN, bound : BOOLEAN, age : Age]
    BY <2>1
  <2> QED BY <1>1, <2>2 DEF CacheTypes
<1>5. dir'[i].present = dir[i].present /\ dir'[i].bound = dir[i].present
      /\ \A j \in Instances : j # i => dir'[j] = dir[j]
  BY <1>1 DEF CacheTypes, DirOwner
<1>6. file' \in [File -> [owner : Owner, age : Age]]
      /\ \A f \in File : \/ file'[f].owner = file[f].owner
                         \/ i \in Peers /\ file'[f].owner = i
  <2>1. CASE i \in Peers
    BY <2>1, Graces DEF Binds, File, Owner, DirOwner, CacheTypes
  <2>2. CASE i \notin Peers
    BY <2>2 DEF Binds, CacheTypes
  <2> QED BY <2>1, <2>2
<1>7. /\ file'["lock"] = file["lock"]
      /\ i \in Peers => file'["socket"].owner = i
      /\ i \notin Peers => file' = file
  BY DEF Binds, CacheTypes, File
<1>8. CacheTypes'
  BY <1>1, <1>2, <1>4, <1>6 DEF CacheTypes
<1>9. World'
  <2>1. \A j \in Instances : inst'[j].at \in {"none", "locked"} => ~dir'[j].present
    BY <1>1, <1>3, <1>5 DEF World
  <2>2. \A j, k \in Peers : Alive(j)' /\ Alive(k)' => j = k
    BY <1>1, <1>3 DEF World, Alive, Instances
  <2>3. \A f \in File : file'[f].owner \notin Others
    BY <1>6, CacheConstants DEF World
  <2> QED BY <2>1, <2>2, <2>3 DEF World
<1>10. Kept'
  <2> SUFFICES ASSUME NEW j \in Instances, Deleted' => j \in sweep'.met
               PROVE  KeepsItsFiles(j)'
    BY DEF Kept
  <2>1. KeepsItsFiles(j)
    BY <1>1 DEF Kept, Deleted
  <2>2. CASE j = i
    BY <2>1, <2>2, <1>1, <1>3, <1>5, <1>7 DEF KeepsItsFiles, Alive
  <2>3. CASE j # i
    <3>1. j \in Peers /\ Alive(j) => i \notin Peers
      BY <2>3, <1>1 DEF World, Alive
    <3>2. Alive(j)' = Alive(j) /\ inst'[j] = inst[j] /\ dir'[j] = dir[j]
      BY <2>3, <1>3, <1>5 DEF Alive
    <3> QED BY <2>1, <3>1, <3>2, <1>7 DEF KeepsItsFiles, Alive
  <2> QED BY <2>2, <2>3
<1>11. Met' /\ Target'
  BY <1>1, <1>3, <1>8 DEF Met, Target, CacheTypes, Sweep
<1>12. Planned'
  BY <1>1, <1>3, <1>8 DEF Planned, Alive, CacheTypes, Sweep
<1>13. Seen'
  <2>1. sweep.pc \in {"connect", "age"} /\ i \in Peers =>
          file["lock"].age <= StartTime + sweep.ticks
    <3>1. sweep.pc \in {"connect", "age"} => KeepsItsFiles(i)
      BY DEF Kept, Deleted
    <3>2. /\ inst[i].since \in Nat /\ inst[i].since <= StartTime
          /\ sweep.ticks \in Nat /\ file["lock"].age \in Nat
      BY Graces DEF CacheTypes, Sweep, File, Age
    <3> QED BY <3>1, <3>2, <1>1, Graces DEF KeepsItsFiles
  <2> QED BY <1>1, <1>3, <1>7, <2>1 DEF Seen, SocketAnswered, Instances
<1> QED BY <1>8, <1>9, <1>10, <1>11, <1>12, <1>13

\* An instance that dies no longer needs anything.
LEMMA DiesKeeps ==
  ASSUME CacheInv, NEW i \in Instances, Dies(i)
  PROVE  CacheInv'
<1> USE DEF CacheInv
<1>1. /\ Alive(i)
      /\ inst' = [inst EXCEPT ![i] = [at |-> "gone", since |-> 0]]
      /\ dir' = [dir EXCEPT ![i].bound = FALSE]
      /\ file' = file /\ sweep' = sweep
  BY DEF Dies
<1>2. inst' \in [Instances -> [at : Stage, since : 0 .. StartTime]]
  <2>1. [at |-> "gone", since |-> 0] \in [at : Stage, since : 0 .. StartTime]
    BY Graces DEF Stage
  <2> QED BY <1>1, <2>1 DEF CacheTypes
<1>3. inst'[i].at = "gone"
      /\ \A j \in Instances : j # i => inst'[j] = inst[j]
  BY <1>1 DEF CacheTypes
<1>4. dir' \in [DirOwner -> [present : BOOLEAN, bound : BOOLEAN, age : Age]]
  BY <1>1 DEF CacheTypes, DirOwner
<1>5. \A j \in Instances : j # i => dir'[j] = dir[j]
  BY <1>1 DEF CacheTypes, DirOwner
<1>6. CacheTypes'
  BY <1>1, <1>2, <1>4 DEF CacheTypes
<1>7. World'
  BY <1>1, <1>3, <1>5 DEF World, Alive, Instances
<1>8. Kept'
  <2> SUFFICES ASSUME NEW j \in Instances, Deleted' => j \in sweep'.met
               PROVE  KeepsItsFiles(j)'
    BY DEF Kept
  <2>1. KeepsItsFiles(j)
    BY <1>1 DEF Kept, Deleted
  <2>2. CASE j = i
    BY <2>2, <1>3 DEF KeepsItsFiles, Alive
  <2>3. CASE j # i
    BY <2>1, <2>3, <1>1, <1>3, <1>5 DEF KeepsItsFiles, Alive
  <2> QED BY <2>2, <2>3
<1>9. Met' /\ Target'
  BY <1>1, <1>3, <1>6 DEF Met, Target, CacheTypes, Sweep
<1>10. Planned'
  BY <1>1, <1>3, <1>6 DEF Planned, Alive, CacheTypes, Sweep
<1>11. Seen'
  BY <1>1, <1>3 DEF Seen, SocketAnswered, Instances
<1> QED BY <1>6, <1>7, <1>8, <1>9, <1>10, <1>11

\* Time makes files and directories no older than those they belong to.
LEMMA TickKeeps ==
  ASSUME CacheInv, Tick
  PROVE  CacheInv'
<1> USE DEF CacheInv
<1>1. /\ file' \in [File -> [owner : Owner, age : Age]]
      /\ \A f \in File : /\ file'[f].owner = file[f].owner
                         /\ file'[f].age \in Nat /\ file[f].age \in Nat
                         /\ file'[f].age <= file[f].age + 1
  <2>1. ASSUME NEW f \in File
        PROVE  LET g == IF file[f] = Absent THEN Absent
                        ELSE [file[f] EXCEPT !.age = Older(@)]
               IN /\ g \in [owner : Owner, age : Age]
                  /\ g.owner = file[f].owner /\ g.age \in Nat
                  /\ g.age <= file[f].age + 1 /\ file[f].age \in Nat
    <3>1. file[f] \in [owner : Owner, age : Age] /\ MaxAge \in Nat
      BY Graces DEF CacheTypes
    <3>2. Older(file[f].age) \in Age /\ Older(file[f].age) <= file[f].age + 1
          /\ file[f].age \in Nat /\ Older(file[f].age) \in Nat
      BY <3>1 DEF Older, Age
    <3>3. CASE file[f] = Absent
      BY <3>1, <3>2, <3>3
    <3>4. CASE file[f] # Absent
      BY <3>1, <3>2, <3>4
    <3> QED BY <3>3, <3>4
  <2> QED BY <2>1 DEF Tick
<1>2. /\ dir' \in [DirOwner -> [present : BOOLEAN, bound : BOOLEAN, age : Age]]
      /\ \A o \in DirOwner : /\ dir'[o].present = dir[o].present
                             /\ dir'[o].bound = dir[o].bound
                             /\ dir'[o].age \in Nat /\ dir[o].age \in Nat
                             /\ dir'[o].age <= dir[o].age + 1
  <2>1. ASSUME NEW o \in DirOwner
        PROVE  LET d == IF dir[o].present
                        THEN [dir[o] EXCEPT !.age = Older(@)] ELSE dir[o]
               IN /\ d \in [present : BOOLEAN, bound : BOOLEAN, age : Age]
                  /\ d.present = dir[o].present /\ d.bound = dir[o].bound
                  /\ d.age \in Nat /\ d.age <= dir[o].age + 1
                  /\ dir[o].age \in Nat
    <3>1. dir[o] \in [present : BOOLEAN, bound : BOOLEAN, age : Age]
          /\ MaxAge \in Nat
      BY Graces DEF CacheTypes
    <3>2. Older(dir[o].age) \in Age /\ Older(dir[o].age) <= dir[o].age + 1
          /\ dir[o].age \in Nat /\ Older(dir[o].age) \in Nat
      BY <3>1 DEF Older, Age
    <3>3. CASE dir[o].present
      BY <3>1, <3>2, <3>3
    <3>4. CASE ~dir[o].present
      BY <3>1, <3>2, <3>4
    <3> QED BY <3>3, <3>4
  <2> QED BY <2>1 DEF Tick
<1>3. /\ inst' \in [Instances -> [at : Stage, since : 0 .. StartTime]]
      /\ \A i \in Instances :
           /\ inst'[i].at = inst[i].at
           /\ inst[i].at \in {"locked", "made"}
                => inst'[i].since = inst[i].since + 1
  <2>1. ASSUME NEW i \in Instances
        PROVE  LET n == IF inst[i].at \in {"locked", "made"}
                        THEN [inst[i] EXCEPT !.since = @ + 1] ELSE inst[i]
               IN /\ n \in [at : Stage, since : 0 .. StartTime]
                  /\ n.at = inst[i].at
                  /\ inst[i].at \in {"locked", "made"}
                       => n.since = inst[i].since + 1
    <3>1. inst[i] \in [at : Stage, since : 0 .. StartTime]
      BY DEF CacheTypes
    <3>2. CASE inst[i].at \in {"locked", "made"}
      <4>1. inst[i].since < StartTime
        BY <3>2 DEF Tick
      <4>2. inst[i].since + 1 \in 0 .. StartTime
        BY <3>1, <4>1, Graces
      <4> QED BY <3>1, <3>2, <4>2
    <3>3. CASE inst[i].at \notin {"locked", "made"}
      BY <3>1, <3>3
    <3> QED BY <3>2, <3>3
  <2> QED BY <2>1 DEF Tick
<1>4. /\ sweep' \in Sweep /\ sweep'.pc = sweep.pc /\ sweep'.met = sweep.met
      /\ sweep'.present = sweep.present /\ sweep'.answers = sweep.answers
      /\ sweep'.target = sweep.target /\ sweep'.age = sweep.age
      /\ sweep'.files = sweep.files /\ sweep'.directories = sweep.directories
      /\ sweep.ticks \in Nat /\ sweep'.unheard = sweep.unheard
      /\ sweep.pc \in {"connect", "age"} => sweep'.ticks = sweep.ticks + 1
  <2>1. sweep \in Sweep /\ sweep.ticks \in 0 .. ProbeTime
    BY DEF CacheTypes, Sweep
  <2>2. CASE Probing
    <3>1. sweep' = [sweep EXCEPT !.ticks = @ + 1] /\ sweep.ticks < ProbeTime
      BY <2>2 DEF Tick
    <3>2. sweep.ticks + 1 \in 0 .. ProbeTime
      BY <2>1, <3>1, Graces
    <3> QED BY <2>1, <3>1, <3>2 DEF Sweep
  <2>3. CASE ~Probing
    <3>1. sweep' = sweep
      BY <2>3 DEF Tick
    <3> QED BY <2>1, <2>3, <3>1, Graces DEF Probing
  <2> QED BY <2>2, <2>3
<1>5. CacheTypes'
  BY <1>1, <1>2, <1>3, <1>4 DEF CacheTypes
<1>6. \A i \in Instances : Alive(i)' = Alive(i) /\ i \in DirOwner
  BY <1>3 DEF Alive, DirOwner
<1>7. World'
  BY <1>1, <1>2, <1>3, <1>6 DEF World, Instances
<1>8. Kept'
  <2> SUFFICES ASSUME NEW i \in Instances, Deleted' => i \in sweep'.met
               PROVE  KeepsItsFiles(i)'
    BY DEF Kept
  <2>1. KeepsItsFiles(i)
    BY <1>4 DEF Kept, Deleted
  <2>2. inst[i].since \in Nat
    BY Graces DEF CacheTypes
  <2>3. "lock" \in File /\ "socket" \in File
    BY DEF File
  <2>4. i \in Peers /\ inst[i].at \in {"locked", "made"} =>
          file'["lock"].age <= inst'[i].since
    BY <1>1, <1>3, <2>1, <2>2, <2>3 DEF KeepsItsFiles
  <2>5. inst[i].at = "made" => dir'[i].age <= inst'[i].since
    BY <1>2, <1>3, <1>6, <2>1, <2>2 DEF KeepsItsFiles
  <2> QED BY <1>1, <1>2, <1>3, <1>6, <2>1, <2>3, <2>4, <2>5 DEF KeepsItsFiles
<1>9. Met' /\ Target'
  BY <1>3, <1>4, <1>5 DEF Met, Target, CacheTypes, Sweep
<1>10. Planned'
  BY <1>4, <1>5, <1>6 DEF Planned, CacheTypes, Sweep
<1>11. Seen'
  <2>1. file'["lock"].age <= file["lock"].age + 1
        /\ file'["lock"].age \in Nat /\ file["lock"].age \in Nat
    BY <1>1 DEF File
  <2>2. sweep.pc \in {"connect", "age"}
        /\ file["lock"].age <= StartTime + sweep.ticks =>
          file'["lock"].age <= StartTime + sweep'.ticks
    BY <1>4, <2>1, Graces
  <2>3. SocketAnswered' = SocketAnswered
    BY <1>4 DEF SocketAnswered
  <2>4. \A i \in Peers : inst'[i].at = inst[i].at
    BY <1>3 DEF Instances
  <2> QED BY <1>4, <2>2, <2>3, <2>4 DEF Seen
<1> QED BY <1>5, <1>7, <1>8, <1>9, <1>10, <1>11

-----------------------------------------------------------------------------
(***************************************************************************)
(* The cache: the steps of the sweep.                                      *)
(***************************************************************************)
\* A step of the sweep that deletes nothing leaves the others what they have.
LEMMA WorldUnchanged ==
  ASSUME CacheInv, UNCHANGED <<file, dir, inst>>, ~Deleted, sweep' \in Sweep,
         sweep'.pc \in {"look", "connect", "age", "list", "unlink"}
  PROVE  CacheTypes' /\ World' /\ Kept'
<1>1. CacheTypes'
  BY DEF CacheInv, CacheTypes
<1>2. World'
  BY DEF CacheInv, World, Alive
<1>3. Kept'
  BY DEF CacheInv, Kept, KeepsItsFiles, Deleted, Alive
<1> QED BY <1>1, <1>2, <1>3

\* The directory found, or none to sweep.
LEMMA ResolveKeeps ==
  ASSUME CacheInv, Resolve
  PROVE  CacheInv'
<1>1. PICK p \in {"done", "look"} : sweep' = [sweep EXCEPT !.pc = p]
  BY DEF Resolve
<1>2. sweep \in Sweep /\ sweep.pc = "resolve" /\ UNCHANGED <<file, dir, inst>>
  BY DEF Resolve, At, CacheInv, CacheTypes
<1>3. /\ sweep' \in Sweep /\ sweep'.pc \in {"done", "look"}
      /\ sweep'.met = sweep.met /\ sweep'.files = sweep.files
      /\ sweep'.directories = sweep.directories
      /\ sweep'.target = sweep.target /\ sweep'.present = sweep.present
  BY <1>1, <1>2 DEF Sweep
<1>4. CacheTypes' /\ World' /\ Kept'
  BY <1>2, <1>3 DEF CacheInv, CacheTypes, World, Kept, KeepsItsFiles, Deleted, Alive
<1>5. Met' /\ Target' /\ Planned' /\ Seen'
  BY <1>2, <1>3 DEF CacheInv, Met, Target, Planned, Seen, Alive
<1> QED BY <1>4, <1>5 DEF CacheInv

\* What there was when the sweep looked.
LEMMA LookKeeps ==
  ASSUME CacheInv, Look
  PROVE  CacheInv'
<1>1. /\ sweep \in Sweep /\ sweep.pc = "look" /\ UNCHANGED <<file, dir, inst>>
      /\ sweep' = [sweep EXCEPT !.pc = "connect",
                                !.present = {f \in File : file[f].owner # "none"}]
  BY DEF Look, At, CacheInv, CacheTypes
<1> DEFINE here == {f \in File : file[f].owner # "none"}
<1>2. here \in SUBSET File
      /\ sweep' = [sweep EXCEPT !.pc = "connect", !.present = here]
  BY <1>1
<1> HIDE DEF here
<1>3. /\ sweep' \in Sweep /\ sweep'.pc = "connect" /\ sweep'.present = here
      /\ sweep'.met = sweep.met /\ sweep'.files = sweep.files
      /\ sweep'.directories = sweep.directories
      /\ sweep'.target = sweep.target
  BY <1>1, <1>2 DEF Sweep
<1>4. CacheTypes' /\ World' /\ Kept'
  BY <1>1, <1>3, WorldUnchanged DEF Deleted
<1>5. Met' /\ Planned'
  BY <1>1, <1>3 DEF CacheInv, Met, Planned, Alive
<1>6. \A i \in Peers : inst[i].at = "listening" => "socket" \in here
  <2> SUFFICES ASSUME NEW i \in Peers, inst[i].at = "listening"
               PROVE  "socket" \in here
    OBVIOUS
  <2>1. file["socket"].owner = i /\ "socket" \in File /\ i \in Instances
    BY <1>1 DEF CacheInv, Kept, KeepsItsFiles, Deleted, File, Instances
  <2>2. i # "none"
    BY <2>1, CacheConstants
  <2> QED BY <2>1, <2>2 DEF here
<1>7. Seen'
  BY <1>1, <1>3, <1>6 DEF Seen
<1>8. Target'
  <2>1. sweep'.target = "none" /\ "none" \notin Others /\ "none" \notin DirOwner
    BY <1>1, <1>3, CacheConstants DEF CacheInv, Target, Instances, DirOwner
  <2> QED BY <2>1 DEF Target
<1> QED BY <1>4, <1>5, <1>7, <1>8 DEF CacheInv

\* Whether the socket answers.
LEMMA ConnectKeeps ==
  ASSUME CacheInv, Connect
  PROVE  CacheInv'
<1> DEFINE target == IF "socket" \in sweep.present THEN file["socket"].owner
                     ELSE "none"
<1>0. PICK fails \in BOOLEAN :
        sweep' = [sweep EXCEPT
                   !.pc = "age", !.target = target,
                   !.answers = UnixSocketAnswers(target, fails),
                   !.unheard = IF fails THEN {target} \cap Instances ELSE {}]
  BY DEF Connect
<1> DEFINE answering == UnixSocketAnswers(target, fails)
           silent == IF fails THEN {target} \cap Instances ELSE {}
<1>1. /\ sweep \in Sweep /\ sweep.pc = "connect" /\ UNCHANGED <<file, dir, inst>>
      /\ sweep' = [sweep EXCEPT !.pc = "age", !.target = target,
                                !.answers = answering, !.unheard = silent]
  BY <1>0 DEF Connect, At, CacheInv, CacheTypes
<1>2. target \in Owner /\ answering \in BOOLEAN /\ silent \in SUBSET Instances
  <2>1. target \in Owner
    BY DEF CacheInv, CacheTypes, File, Owner
  <2>2. answering \in BOOLEAN
    <3>1. target \in DirOwner => dir[target].bound \in BOOLEAN
      BY DEF CacheInv, CacheTypes
    <3> QED BY <3>1, Zenon DEF UnixSocketAnswers
  <2> QED BY <2>1, <2>2
<1>3. target \notin Others /\ (target \in DirOwner => "socket" \in sweep.present)
  <2>1. "none" \notin Others /\ "none" \notin DirOwner
    BY CacheConstants DEF Instances, DirOwner
  <2>2. file["socket"].owner \notin Others
    BY DEF CacheInv, World, File
  <2> QED BY <2>1, <2>2
<1>4. \A i \in Peers : inst[i].at = "listening" /\ "socket" \in sweep.present =>
        answering = TRUE \/ i \in silent
  <2> SUFFICES ASSUME NEW i \in Peers, inst[i].at = "listening",
                      "socket" \in sweep.present
               PROVE  answering = TRUE \/ i \in silent
    OBVIOUS
  <2>1. i \in Instances /\ KeepsItsFiles(i) /\ dir[i].bound \in BOOLEAN
    BY <1>1 DEF CacheInv, CacheTypes, Kept, Deleted, Instances, DirOwner
  <2>2. target = i /\ dir[i].bound = TRUE
    BY <2>1 DEF KeepsItsFiles
  <2>3. CASE fails
    BY <2>1, <2>2, <2>3
  <2>4. CASE ~fails
    BY <2>1, <2>2, <2>4, Zenon DEF UnixSocketAnswers, DirOwner
  <2> QED BY <2>3, <2>4
<1> HIDE DEF target, answering, silent
<1>5. /\ sweep' \in Sweep /\ sweep'.pc = "age" /\ sweep'.target = target
      /\ sweep'.answers = answering /\ sweep'.present = sweep.present
      /\ sweep'.ticks = sweep.ticks /\ sweep'.unheard = silent
      /\ sweep'.met = sweep.met /\ sweep'.files = sweep.files
      /\ sweep'.directories = sweep.directories
  BY <1>1, <1>2 DEF Sweep
<1>6. CacheTypes' /\ World' /\ Kept'
  BY <1>1, <1>5, WorldUnchanged DEF Deleted
<1>7. Met' /\ Planned'
  BY <1>1, <1>5 DEF CacheInv, Met, Planned, Alive
<1>8. Target'
  BY <1>3, <1>5 DEF Target
<1>9. Seen'
  BY <1>1, <1>4, <1>5 DEF CacheInv, Seen, SocketAnswered
<1> QED BY <1>6, <1>7, <1>8, <1>9 DEF CacheInv

\* The youngest of the files is no older than the lock.
LEMMA Youngest ==
  ASSUME CacheInv
  PROVE  LET ages == {file[f].age : f \in {g \in File : file[g].owner # "none"}}
             young == IF ages = {} THEN 0
                      ELSE CHOOSE a \in ages : \A b \in ages : a <= b
         IN  /\ young \in Age
             /\ file["lock"].owner # "none" => young <= file["lock"].age
<1> DEFINE ages == {file[f].age : f \in {g \in File : file[g].owner # "none"}}
           young == IF ages = {} THEN 0
                    ELSE CHOOSE a \in ages : \A b \in ages : a <= b
<1> SUFFICES /\ young \in Age
             /\ file["lock"].owner # "none" => young <= file["lock"].age
  OBVIOUS
<1>1. /\ file["lock"].age \in Age /\ file["cookie"].age \in Age
      /\ file["socket"].age \in Age /\ 0 \in Age /\ Age \subseteq Nat
  BY Graces DEF CacheInv, CacheTypes, File, Age
<1>2. ages \subseteq {file["lock"].age, file["cookie"].age, file["socket"].age}
  BY DEF File
<1>3. file["lock"].owner # "none" => file["lock"].age \in ages
  BY DEF File
<1> HIDE DEF ages
<1>4. CASE ages = {}
  BY <1>1, <1>3, <1>4
<1>5. CASE ages # {}
  <2>1. \E a \in ages : \A b \in ages : a <= b
    <3> DEFINE l == file["lock"].age
               c == file["cookie"].age
               s == file["socket"].age
    <3>1. l \in Nat /\ c \in Nat /\ s \in Nat /\ ages \subseteq {l, c, s}
      BY <1>1, <1>2
    <3> HIDE DEF l, c, s
    <3>2. \/ l \in ages /\ (c \in ages => l <= c) /\ (s \in ages => l <= s)
          \/ c \in ages /\ (l \in ages => c <= l) /\ (s \in ages => c <= s)
          \/ s \in ages /\ (c \in ages => s <= c) /\ (l \in ages => s <= l)
      <4>1. l \in ages \/ c \in ages \/ s \in ages
        BY <1>5, <3>1, Zenon
      <4> QED BY <3>1, <4>1
    <3>3. l <= l /\ c <= c /\ s <= s
      BY <3>1
    <3> QED BY <3>1, <3>2, <3>3
  <2>2. young \in ages /\ \A b \in ages : young <= b
    BY <1>5, <2>1
  <2> HIDE DEF young
  <2> QED BY <1>1, <1>2, <1>3, <2>2
<1> QED BY <1>4, <1>5

\* Whoever lives now was seen, or has a young lock.
LEMMA ReadAgeKeeps ==
  ASSUME CacheInv, ReadAge
  PROVE  CacheInv'
<1> DEFINE ages == {file[f].age : f \in {g \in File : file[g].owner # "none"}}
           young == IF ages = {} THEN 0
                    ELSE CHOOSE a \in ages : \A b \in ages : a <= b
           met == {i \in Instances : Alive(i)} \
                    (IF young < FreshGrace THEN {} ELSE sweep.unheard)
<1>1. /\ sweep \in Sweep /\ sweep.pc = "age" /\ UNCHANGED <<file, dir, inst>>
      /\ sweep' = [sweep EXCEPT !.pc = "list", !.age = young, !.ticks = 0,
                                !.unheard = {}, !.met = met]
  BY DEF ReadAge, At, CacheInv, CacheTypes
<1>2. young \in Age /\ (file["lock"].owner # "none" => young <= file["lock"].age)
  BY Youngest, Zenon
<1>3. met \in SUBSET Instances /\ 0 \in 0 .. ProbeTime
      /\ \A i \in met : inst[i].at # "none" /\ Alive(i)
      /\ \A j \in met : j \in sweep.unheard => young < FreshGrace
  <2> HIDE DEF ages, young
  <2> QED BY Graces DEF Alive
<1> HIDE DEF ages, young, met
<1>4. \A i \in met \cap Peers : SocketAnswered \/ young < FreshGrace
  <2> SUFFICES ASSUME NEW i \in met \cap Peers
               PROVE SocketAnswered \/ young < FreshGrace
    OBVIOUS
  <2>1. i \in Instances /\ i \in Peers /\ Alive(i) /\ KeepsItsFiles(i)
    BY <1>1, <1>3 DEF CacheInv, Kept, Deleted
  <2>2. young <= file["lock"].age
    <3>1. file["lock"].owner = i /\ i # "none"
      BY <2>1, CacheConstants DEF KeepsItsFiles
    <3> QED BY <1>2, <3>1
  <2>3. /\ file["lock"].age \in Nat /\ young \in Nat
        /\ sweep.ticks \in 0 .. ProbeTime /\ inst[i].since \in 0 .. StartTime
    <3>1. file["lock"].age \in Age /\ Age \subseteq Nat
      BY Graces DEF CacheInv, CacheTypes, File, Age
    <3>2. sweep.ticks \in 0 .. ProbeTime
      BY <1>1 DEF Sweep
    <3>3. inst[i].since \in 0 .. StartTime
      BY <2>1 DEF CacheInv, CacheTypes
    <3> QED BY <1>2, <3>1, <3>2, <3>3
  <2>4. CASE inst[i].at \in {"locked", "made"}
    <3>1. file["lock"].age <= inst[i].since
      BY <2>1, <2>4 DEF KeepsItsFiles
    <3> QED BY <2>2, <2>3, <3>1, Graces
  <2>5. CASE inst[i].at = "listening"
    <3>1. \/ SocketAnswered \/ i \in sweep.unheard
          \/ file["lock"].age <= StartTime + sweep.ticks
      BY <1>1, <2>1, <2>5 DEF CacheInv, Seen
    <3> QED BY <1>3, <2>2, <2>3, <3>1, Graces
  <2> QED BY <2>1, <2>4, <2>5 DEF Alive
<1>5. /\ sweep' \in Sweep /\ sweep'.pc = "list" /\ sweep'.age = young
      /\ sweep'.target = sweep.target
      /\ sweep'.answers = sweep.answers /\ sweep'.present = sweep.present
      /\ sweep'.met = met /\ sweep'.files = sweep.files
      /\ sweep'.directories = sweep.directories
  BY <1>1, <1>2, <1>3 DEF Sweep
<1>6. CacheTypes' /\ World' /\ Kept'
  BY <1>1, <1>5, WorldUnchanged DEF Deleted
<1>7. Met' /\ Planned'
  BY <1>1, <1>3, <1>5 DEF CacheInv, Met, Planned, Alive
<1>8. Target'
  BY <1>1, <1>5 DEF CacheInv, Target
<1>9. Seen'
  BY <1>1, <1>4, <1>5 DEF CacheInv, Seen, SocketAnswered
<1> QED BY <1>6, <1>7, <1>8, <1>9 DEF CacheInv

\* The directory of an instance that is there is not abandoned.
LEMMA ListKeeps ==
  ASSUME CacheInv, List
  PROVE  CacheInv'
<1>0. PICK failed \in SUBSET Probed : sweep' = Planning(failed)
  BY DEF List
<1> DEFINE dirs == FindSocketDirs(failed)
           plan == PlanSingletonSweep(sweep, dirs)
           fs == plan.files
           ds == plan.directories
           met == sweep.met \ failed
<1>1. /\ sweep \in Sweep /\ sweep.pc = "list" /\ UNCHANGED <<file, dir, inst>>
      /\ sweep' = [NothingSeen EXCEPT !.pc = "unlink", !.files = fs,
                                      !.directories = ds, !.met = met]
  BY <1>0 DEF List, At, CacheInv, CacheTypes, Planning
<1> DEFINE judged == /\ ~SocketAnswered
                     /\ ~(sweep.present # {} /\ sweep.age < FreshGrace)
<1>2. /\ fs = (IF judged THEN sweep.present ELSE {})
      /\ ds = Abandoned(dirs)
               \cup (IF judged /\ sweep.target \in DirOwner
                        THEN {sweep.target} ELSE {})
  BY DEF PlanSingletonSweep, SocketAnswered, IsChromiumSocketDir
<1>3. \A x \in Abandoned(dirs) :
        /\ x \in DirOwner /\ dir[x].present /\ dir[x].age >= DirGrace
        /\ ~UnixSocketAnswers(x, x \in failed)
  <2> SUFFICES ASSUME NEW x \in Abandoned(dirs)
               PROVE  /\ x \in DirOwner /\ dir[x].present /\ dir[x].age >= DirGrace
                      /\ ~UnixSocketAnswers(x, x \in failed)
    OBVIOUS
  <2>1. PICK d \in dirs :
          ~d.answers /\ d.age >= DirGrace /\ x = d.owner
    BY Zenon DEF Abandoned
  <2>2. PICK o \in DirOwner :
          /\ dir[o].present
          /\ d = [owner |-> o, age |-> dir[o].age,
                  answers |-> /\ dir[o].age >= DirGrace
                              /\ UnixSocketAnswers(o, o \in failed)]
    BY Zenon DEF FindSocketDirs
  <2>3. x = o /\ dir[o].age >= DirGrace
    BY <2>1, <2>2
  <2>4. d.answers = (/\ dir[o].age >= DirGrace
                     /\ UnixSocketAnswers(o, o \in failed))
    BY <2>2, Zenon
  <2> QED BY <2>1, <2>2, <2>3, <2>4, Zenon
<1>4. fs \subseteq File /\ ds \subseteq DirOwner
  BY <1>1, <1>2, <1>3 DEF Sweep
<1>5. met \cap Peers # {} =>
        fs = {} /\ (judged => sweep.target \notin DirOwner)
  BY <1>1, <1>2 DEF CacheInv, Seen, Target
<1>6. \A i \in met : Alive(i) => i \notin ds
  <2> SUFFICES ASSUME NEW i \in met, Alive(i) PROVE i \notin ds
    OBVIOUS
  <2>1. i \in Instances /\ i \in DirOwner /\ KeepsItsFiles(i)
    BY <1>1 DEF CacheInv, Kept, Deleted, Sweep, DirOwner
  <2>2. i \notin Abandoned(dirs)
    <3>1. dir[i].age \in Nat /\ inst[i].since \in 0 .. StartTime
      BY <2>1, Graces DEF CacheInv, CacheTypes, Age
    <3>2. CASE inst[i].at = "locked"
      BY <1>3, <2>1, <3>2 DEF CacheInv, World
    <3>3. CASE inst[i].at = "made"
      <4>1. dir[i].age < DirGrace
        BY <2>1, <3>1, <3>3, Graces DEF KeepsItsFiles
      <4> QED BY <1>3, <3>1, <4>1, Graces
    <3>4. CASE inst[i].at = "listening"
      BY <1>3, <2>1, <3>4 DEF KeepsItsFiles, UnixSocketAnswers
    <3> QED BY <3>2, <3>3, <3>4 DEF Alive
  <2>3. ~(judged /\ sweep.target \in DirOwner /\ sweep.target = i)
    <3>1. CASE i \in Peers
      BY <1>5, <3>1
    <3>2. CASE i \in Others
      BY <3>2 DEF CacheInv, Target
    <3> QED BY <2>1, <3>1, <3>2 DEF Instances
  <2> QED BY <1>2, <2>2, <2>3
<1> HIDE DEF dirs, plan, fs, ds, judged
<1>7. /\ sweep' \in Sweep /\ sweep'.pc = "unlink" /\ sweep'.target = "none"
      /\ sweep'.met = met /\ sweep'.files = fs /\ sweep'.directories = ds
  <2>1. 0 \in Age /\ 0 \in 0 .. ProbeTime
    BY Graces
  <2>2. NothingSeen \in Sweep /\ NothingSeen.target = "none"
    BY <2>1 DEF NothingSeen, Sweep, Owner
  <2> QED BY <1>1, <1>4, <2>2 DEF Sweep, NothingSeen
<1>8. CacheTypes' /\ World' /\ Kept'
  BY <1>1, <1>7, WorldUnchanged DEF Deleted
<1>9. Met' /\ Planned'
  BY <1>1, <1>5, <1>6, <1>7 DEF CacheInv, Met, Planned, Alive
<1>10. Target'
  <2>1. "none" \notin Others /\ "none" \notin DirOwner
    BY CacheConstants DEF Instances, DirOwner
  <2> QED BY <1>7, <2>1 DEF Target
<1>11. Seen'
  BY <1>7 DEF Seen
<1> QED BY <1>8, <1>9, <1>10, <1>11 DEF CacheInv

\* A peer that was met keeps its files: the plan has none.
LEMMA UnlinkKeeps ==
  ASSUME CacheInv, Unlink
  PROVE  CacheInv'
<1>1. /\ sweep \in Sweep /\ sweep.pc = "unlink" /\ UNCHANGED <<dir, inst>>
      /\ sweep' = [sweep EXCEPT !.pc = "remove", !.files = {}]
      /\ file' = [f \in File |-> IF f \in sweep.files THEN Absent ELSE file[f]]
  BY DEF Unlink, At, CacheInv, CacheTypes
<1>2. /\ sweep' \in Sweep /\ sweep'.pc = "remove" /\ sweep'.files = {}
      /\ sweep'.met = sweep.met /\ sweep'.directories = sweep.directories
      /\ sweep'.target = sweep.target /\ sweep'.present = sweep.present
  BY <1>1 DEF Sweep
<1>3. file' \in [File -> [owner : Owner, age : Age]]
  <2>1. Absent \in [owner : Owner, age : Age]
    BY Graces DEF Absent, Owner
  <2> QED BY <1>1, <2>1 DEF CacheInv, CacheTypes
<1>4. CacheTypes'
  BY <1>1, <1>2, <1>3 DEF CacheInv, CacheTypes
<1>5. World'
  <2>1. \A f \in File : file'[f].owner \notin Others
    <3>1. Absent.owner \notin Others
      BY CacheConstants DEF Absent, Instances
    <3> QED BY <1>1, <3>1 DEF CacheInv, World
  <2> QED BY <1>1, <2>1 DEF CacheInv, World, Alive
<1>6. Kept'
  <2> SUFFICES ASSUME NEW i \in Instances, i \in sweep.met PROVE KeepsItsFiles(i)'
    BY <1>2 DEF Kept, Deleted
  <2>1. KeepsItsFiles(i)
    BY DEF CacheInv, Kept
  <2>2. CASE i \in Peers
    <3>1. sweep.files = {}
      BY <2>2 DEF CacheInv, Planned
    <3>2. file'["lock"] = file["lock"] /\ file'["socket"] = file["socket"]
      BY <1>1, <3>1 DEF File
    <3> QED BY <1>1, <2>1, <3>2 DEF KeepsItsFiles, Alive
  <2>3. CASE i \notin Peers
    BY <1>1, <2>1, <2>3 DEF KeepsItsFiles
  <2> QED BY <2>2, <2>3
<1>7. Met' /\ Planned' /\ Target' /\ Seen'
  BY <1>1, <1>2 DEF CacheInv, Met, Planned, Target, Seen, Alive
<1> QED BY <1>4, <1>5, <1>6, <1>7 DEF CacheInv

\* Whoever was met and lives keeps its directory: the plan does not name it.
LEMMA RemoveKeeps ==
  ASSUME CacheInv, RemoveTrees
  PROVE  CacheInv'
<1>1. /\ sweep \in Sweep /\ sweep.pc = "remove" /\ UNCHANGED <<file, inst>>
      /\ sweep' = [sweep EXCEPT !.pc = "done", !.directories = {}]
      /\ dir' = [o \in DirOwner |->
                   IF o \in sweep.directories THEN NoDir ELSE dir[o]]
  BY DEF RemoveTrees, At, CacheInv, CacheTypes
<1>2. /\ sweep' \in Sweep /\ sweep'.pc = "done" /\ sweep'.directories = {}
      /\ sweep'.met = sweep.met /\ sweep'.files = sweep.files
      /\ sweep'.target = sweep.target /\ sweep'.present = sweep.present
  BY <1>1 DEF Sweep
<1>3. dir' \in [DirOwner -> [present : BOOLEAN, bound : BOOLEAN, age : Age]]
  <2>1. NoDir \in [present : BOOLEAN, bound : BOOLEAN, age : Age]
    BY Graces DEF NoDir
  <2> QED BY <1>1, <2>1 DEF CacheInv, CacheTypes
<1>4. CacheTypes'
  BY <1>1, <1>2, <1>3 DEF CacheInv, CacheTypes
<1>5. \A i \in Instances : i \in DirOwner
  BY DEF DirOwner
<1>6. World'
  <2>1. \A i \in Instances : dir'[i].present => dir[i].present
    BY <1>1, <1>5 DEF NoDir
  <2> QED BY <1>1, <2>1 DEF CacheInv, World, Alive
<1>7. Kept'
  <2> SUFFICES ASSUME NEW i \in Instances, i \in sweep.met PROVE KeepsItsFiles(i)'
    BY <1>2 DEF Kept, Deleted
  <2>1. KeepsItsFiles(i)
    BY DEF CacheInv, Kept
  <2>2. CASE Alive(i)
    <3>1. dir'[i] = dir[i]
      BY <1>1, <1>5, <2>2 DEF CacheInv, Planned
    <3> QED BY <1>1, <2>1, <3>1 DEF KeepsItsFiles, Alive
  <2>3. CASE ~Alive(i)
    BY <1>1, <2>3 DEF KeepsItsFiles, Alive
  <2> QED BY <2>2, <2>3
<1>8. Met' /\ Planned' /\ Target' /\ Seen'
  BY <1>1, <1>2 DEF CacheInv, Met, Planned, Target, Seen, Alive
<1> QED BY <1>4, <1>6, <1>7, <1>8 DEF CacheInv

-----------------------------------------------------------------------------
(***************************************************************************)
(* The cache: the results.                                                 *)
(***************************************************************************)
\* Every step keeps the invariant.
LEMMA StepCacheInv == CacheInv /\ [NextCache]_cacheVars => CacheInv'
<1> SUFFICES ASSUME CacheInv, [NextCache]_cacheVars PROVE CacheInv'
  OBVIOUS
<1>1. CASE UNCHANGED cacheVars
  BY <1>1 DEF cacheVars, CacheInv, CacheTypes, World, Kept, KeepsItsFiles, Deleted, Met,
     Seen, SocketAnswered, Target, Planned, Alive
<1>2. CASE NextCache
  BY <1>2, LocksKeeps, MakesDirKeeps, BindsKeeps, DiesKeeps, TickKeeps,
     ResolveKeeps, LookKeeps, ConnectKeeps, ReadAgeKeeps, ListKeeps,
     UnlinkKeeps, RemoveKeeps DEF NextCache
<1> QED BY <1>1, <1>2

\* What the sweep has seen and the state of files, directories and instances
\* are of their types (cef_cache_paths.cc).
THEOREM CacheTypeCorrect == CacheSpec => []CacheTypeOK
<1>1. CacheInv => CacheTypeOK
  BY Graces DEF CacheInv, CacheTypes, CacheTypeOK
<1> QED BY <1>1, InitCacheInv, StepCacheInv, PTL DEF CacheSpec

\* However instances start, bind and die while it looks, asks, lists and
\* deletes, the sweep leaves a live instance that was there when it read the
\* ages its lock, its link to the socket and its socket directory
\* (PlanSingletonSweep and PrepareCefCachePaths), for any number of instances
\* and any times that fit the graces.
THEOREM OwnerSeenKeepsItsFiles == CacheSpec => []OwnerSeenIsKept
<1>1. CacheInv => OwnerSeenIsKept
  BY DEF CacheInv, CacheTypes, Sweep, Kept, KeepsItsFiles, OwnerSeenIsKept
<1> QED BY <1>1, InitCacheInv, StepCacheInv, PTL DEF CacheSpec

-----------------------------------------------------------------------------
(***************************************************************************)
(* Video: the inductive invariant.                                         *)
(***************************************************************************)
\* An output is freed with its last reference, the embedder holds one while
\* the raster thread has yet to let the texture go, and libmpv's callback and
\* the texture's number end before.
RefsCounted(o) ==
  /\ out[o].context = "live" <=> out[o].refs # {}
  /\ out[o].refs = {} => ~out[o].callback
  /\ out[o].texture_id <=> out[o].texture = "registered"
  /\ out[o].texture = "leaving" => "embedder" \in out[o].refs

\* The platform thread is giving the texture up.
GivingUp(o) ==
  shutting.output = o /\ shutting.step \in {"lock", "callback", "unregister"}

\* A texture in use belongs to an output of the map, or to one that is about to
\* give it up; at the end of the plugin only those left to do are in the map.
Registered(o) ==
  out[o].texture = "registered" =>
    \/ GivingUp(o)
    \/ /\ "map" \in out[o].refs
       /\ outputs[out[o].player] = o
       /\ shutting.ending => o \in shutting.left

\* The map holds a reference to what it names, until the plugin is gone.
Mapped ==
  /\ \A h \in Players : outputs[h] # 0 =>
       /\ outputs[h] \in Made
       /\ out[outputs[h]].player = h
       /\ "map" \in out[outputs[h]].refs
  /\ \A o \in shutting.left : o \in Made /\ "map" \in out[o].refs

\* Whoever shuts an output down holds a reference to it; the callback is
\* stopped when the texture is unregistered, and the texture is when it is done.
ShutDown ==
  /\ shutting.step = "idle" => ~shutting.ending
  /\ shutting.step \in {"leaving", "down"} => shutting.ending
  /\ shutting.step \in {"lock", "callback", "unregister", "return"} =>
       /\ shutting.output \in Made
       /\ "caller" \in out[shutting.output].refs
  /\ shutting.step \notin {"lock", "callback", "unregister", "return"} =>
       shutting.output = 0
  /\ shutting.step = "unregister" =>
       ~out[shutting.output].callback /\ shutting.output \notin marking
  /\ shutting.step = "return" => out[shutting.output].texture # "registered"

\* The raster thread is at work on a texture that it still knows.
Drawing ==
  raster.step # "idle" => raster.output \in Made /\ OnScreen(raster.output)

\* libmpv marks textures that are registered.
Marking ==
  marking \subseteq Made /\ \A o \in marking : out[o].texture = "registered"

VideoInv ==
  /\ VideoTypeOK
  /\ \A o \in Made : RefsCounted(o) /\ Registered(o)
  /\ Mapped /\ ShutDown /\ Drawing /\ Marking
-----------------------------------------------------------------------------
(***************************************************************************)
(* Video: lemmas.                                                          *)
(***************************************************************************)
Who == {"map", "caller", "embedder"}

\* An output that was made has the fields of one.
LEMMA MadeTypes ==
  ASSUME VideoTypeOK, NEW o \in Made
  PROVE  /\ out[o] \in OutputRecord
         /\ out[o].player \in Players /\ out[o].refs \subseteq Who
         /\ o \in Nat \ {0} /\ o <= Len(out) /\ o \in Output
<1>1. /\ out \in Seq(OutputRecord) /\ Len(out) <= MaxOutputs
      /\ MaxOutputs \in Nat /\ Made = 1 .. Len(out)
  BY VideoConstants DEF VideoTypeOK, Made
<1>2. out[o] \in OutputRecord /\ o \in 1 .. MaxOutputs
  BY <1>1
<1> QED BY <1>1, <1>2 DEF OutputRecord, Who, Output

\* One output changes, the others are as they were.
LEMMA OneOutput ==
  ASSUME VideoTypeOK, NEW o \in Made, NEW r \in OutputRecord,
         out' = [out EXCEPT ![o] = r]
  PROVE  /\ out' \in Seq(OutputRecord) /\ Len(out') = Len(out)
         /\ Made' = Made /\ out'[o] = r
         /\ \A p \in Made : p # o => out'[p] = out[p]
  BY DEF VideoTypeOK, Made

\* Dropping a reference changes the references, and frees with the last one.
LEMMA DroppedFacts ==
  ASSUME VideoTypeOK, NEW o \in Made, NEW who \in Who
  PROVE  LET r == Dropped(o, who)
         IN /\ r \in OutputRecord
            /\ r.player = out[o].player /\ r.texture = out[o].texture
            /\ r.texture_id = out[o].texture_id
            /\ r.refs = out[o].refs \ {who}
            /\ r.refs # {} => /\ r.context = out[o].context
                              /\ r.callback = out[o].callback
            /\ r.refs = {} => r.context = "freed" /\ ~r.callback
<1>1. out[o] \in OutputRecord
  BY MadeTypes
<1> DEFINE freed == [out[o] EXCEPT !.refs = {}, !.context = "freed",
      !.callback = FALSE]
           kept == [out[o] EXCEPT !.refs = @ \ {who}]
<1>2. CASE out[o].refs \subseteq {who}
  <2>1. Dropped(o, who) = freed
    BY <1>2 DEF Dropped
  <2>2. /\ freed \in OutputRecord
        /\ freed.player = out[o].player /\ freed.texture = out[o].texture
        /\ freed.texture_id = out[o].texture_id
        /\ freed.refs = {} /\ freed.context = "freed" /\ ~freed.callback
    BY <1>1 DEF OutputRecord
  <2> QED BY <2>1, <2>2, <1>2
<1>3. CASE ~(out[o].refs \subseteq {who})
  <2>1. Dropped(o, who) = kept
    BY <1>3 DEF Dropped
  <2>2. /\ kept \in OutputRecord
        /\ kept.player = out[o].player /\ kept.texture = out[o].texture
        /\ kept.texture_id = out[o].texture_id
        /\ kept.refs = out[o].refs \ {who} /\ kept.context = out[o].context
        /\ kept.callback = out[o].callback
    BY <1>1 DEF OutputRecord
  <2> QED BY <2>1, <2>2, <1>3
<1> QED BY <1>2, <1>3

\* Nothing has been made, and the platform thread rests.
LEMMA InitVideoInv == InitVideo => VideoInv
<1> SUFFICES ASSUME InitVideo PROVE VideoInv
  OBVIOUS
<1>1. Idle \in Shutting /\ Idle.step = "idle" /\ Idle.output = 0
      /\ Idle.left = {} /\ ~Idle.ending
  BY VideoConstants DEF Idle, Shutting
<1>2. out = <<>> /\ Made = {} /\ Len(out) = 0 /\ out \in Seq(OutputRecord)
  BY DEF InitVideo, Made
<1>3. VideoTypeOK
  BY <1>1, <1>2, VideoConstants DEF InitVideo, VideoTypeOK, Raster
<1>4. \A o \in Made : RefsCounted(o) /\ Registered(o)
  BY <1>2
<1>5. Mapped /\ ShutDown
  BY <1>1, <1>2 DEF InitVideo, Mapped, ShutDown
<1>6. Drawing /\ Marking
  BY DEF InitVideo, Drawing, Marking
<1> QED BY <1>3, <1>4, <1>5, <1>6 DEF VideoInv
-----------------------------------------------------------------------------
(***************************************************************************)
(* Video: what only the raster thread or libmpv changes.                   *)
(***************************************************************************)
\* What is said of an output depends on its record and on the platform thread.
LEMMA SameOutputs ==
  ASSUME VideoInv, UNCHANGED <<out, outputs, shutting>>,
         marking' \subseteq Output, raster' \in Raster, mpv' = mpv,
         Drawing', Marking', ShutDown'
  PROVE  VideoInv'
<1>1. VideoTypeOK'
  BY DEF VideoInv, VideoTypeOK
<1>2. \A o \in Made' : RefsCounted(o)' /\ Registered(o)'
  BY DEF VideoInv, Made, RefsCounted, Registered, GivingUp
<1>3. Mapped'
  BY DEF VideoInv, Mapped, Made
<1> QED BY <1>1, <1>2, <1>3 DEF VideoInv

\* The steps of a copy on the raster thread.
LEMMA RasterInv ==
  ASSUME VideoInv,
         (\E o \in Made : CopyPixelBuffer(o)) \/ Copied \/ Uploaded
  PROVE  VideoInv'
<1>1. UNCHANGED <<out, outputs, mpv, shutting, marking>>
  BY DEF CopyPixelBuffer, Copied, Uploaded
<1>2. Marking' /\ ShutDown' /\ marking' \subseteq Output
  BY <1>1 DEF VideoInv, VideoTypeOK, Marking, ShutDown, Made
<1>3. raster' \in Raster /\ Drawing'
  <2>1. CASE \E o \in Made : CopyPixelBuffer(o)
    <3>1. PICK o \in Made : CopyPixelBuffer(o)
      BY <2>1
    <3>2. o \in Output
      BY MadeTypes DEF VideoInv
    <3>3. raster' = [step |-> "copy", output |-> o] /\ OnScreen(o)
      BY <3>1 DEF CopyPixelBuffer
    <3> QED BY <3>2, <3>3, <1>1, VideoConstants
            DEF Drawing, Raster, Output, OnScreen, Made
  <2>2. CASE Copied
    <3>1. raster \in Raster /\ raster.step = "copy"
      BY <2>2 DEF VideoInv, VideoTypeOK, Copied
    <3>2. \/ raster' = [raster EXCEPT !.step = "upload"]
          \/ raster' = [step |-> "idle", output |-> 0]
      BY <2>2 DEF Copied
    <3>3. /\ raster' \in Raster
          /\ raster'.step # "idle" => raster'.output = raster.output
      BY <3>1, <3>2, VideoConstants DEF Raster
    <3> QED BY <3>1, <3>3, <1>1 DEF VideoInv, Drawing, OnScreen, Made
  <2>3. CASE Uploaded
    BY <2>3, VideoConstants DEF Uploaded, Raster, Drawing
  <2> QED BY <2>1, <2>2, <2>3
<1> QED BY <1>1, <1>2, <1>3, SameOutputs

\* The update callback of libmpv, from its call to its return.
LEMMA MarkInv ==
  ASSUME VideoInv, NEW o \in Made, OnMpvRenderUpdate(o) \/ Marked(o)
  PROVE  VideoInv'
<1>1. /\ UNCHANGED <<out, outputs, mpv, shutting, raster>>
      /\ o \in Output /\ marking \subseteq Output /\ raster \in Raster
  BY MadeTypes DEF VideoInv, VideoTypeOK, OnMpvRenderUpdate, Marked
<1>2. Drawing'
  BY <1>1 DEF VideoInv, Drawing, OnScreen, Made
<1>3. RefsCounted(o) /\ Marking /\ ShutDown
  BY DEF VideoInv
<1>4. CASE OnMpvRenderUpdate(o)
  <2>1. marking' = marking \cup {o} /\ out[o].callback /\ out[o].texture_id
    BY <1>4 DEF OnMpvRenderUpdate
  <2>2. Marking'
    BY <2>1, <1>1, <1>3 DEF Marking, RefsCounted, Made
  <2>3. ShutDown'
    BY <2>1, <1>1, <1>3 DEF ShutDown, Made
  <2> QED BY <2>1, <2>2, <2>3, <1>1, <1>2, SameOutputs
<1>5. CASE Marked(o)
  <2>1. marking' = marking \ {o}
    BY <1>5 DEF Marked
  <2>2. Marking' /\ ShutDown'
    BY <2>1, <1>1, <1>3 DEF Marking, ShutDown, Made
  <2> QED BY <2>1, <2>2, <1>1, <1>2, SameOutputs
<1> QED BY <1>4, <1>5

\* The raster thread runs an unregistration it was left.
LEMMA UnregisteredInv ==
  ASSUME VideoInv, NEW o \in Made, Unregistered(o)
  PROVE  VideoInv'
<1> DEFINE d == Dropped(o, "embedder")
           r == [d EXCEPT !.texture = "gone"]
<1>1. /\ VideoTypeOK /\ RefsCounted(o) /\ Registered(o)
      /\ out[o].texture \in {"leaving", "stray"}
  BY DEF VideoInv, Unregistered
<1>2. /\ d \in OutputRecord /\ d.player = out[o].player
      /\ d.texture = out[o].texture
      /\ d.texture_id = out[o].texture_id /\ d.refs = out[o].refs \ {"embedder"}
      /\ d.refs # {} => d.context = out[o].context /\ d.callback = out[o].callback
      /\ d.refs = {} => d.context = "freed" /\ ~d.callback
  BY <1>1, DroppedFacts DEF Who
<1>3. /\ out' = [out EXCEPT ![o] = r]
      /\ UNCHANGED <<outputs, mpv, shutting, raster, marking>>
      /\ raster.step = "idle"
  BY DEF Unregistered
<1> HIDE DEF d
<1>4. /\ r \in OutputRecord /\ r.player = d.player /\ r.texture = "gone"
      /\ r.texture_id = d.texture_id /\ r.refs = d.refs /\ r.context = d.context
      /\ r.callback = d.callback
  BY <1>2 DEF OutputRecord
<1> HIDE DEF r
<1>5. /\ out' \in Seq(OutputRecord) /\ Len(out') = Len(out) /\ Made' = Made
      /\ out'[o] = r /\ \A p \in Made : p # o => out'[p] = out[p]
  BY <1>1, <1>3, <1>4, OneOutput
<1>6. VideoTypeOK'
  BY <1>1, <1>3, <1>5 DEF VideoTypeOK
<1>7. \A p \in Made' : RefsCounted(p)' /\ Registered(p)'
  BY <1>1, <1>2, <1>3, <1>4, <1>5 DEF VideoInv, RefsCounted, Registered, GivingUp
<1>8. Mapped'
  BY <1>2, <1>3, <1>4, <1>5 DEF VideoInv, Mapped
<1>9. ShutDown'
  BY <1>2, <1>3, <1>4, <1>5 DEF VideoInv, ShutDown
<1>10. Drawing' /\ Marking'
  BY <1>1, <1>3, <1>4, <1>5 DEF VideoInv, Drawing, Marking
<1> QED BY <1>6, <1>7, <1>8, <1>9, <1>10 DEF VideoInv
-----------------------------------------------------------------------------
(***************************************************************************)
(* Video: the platform thread.                                             *)
(***************************************************************************)
\* A step of Shutdown that changes the output it is about, and goes on.
LEMMA StepOfShutdown ==
  ASSUME VideoInv, NEW step \in {"callback", "unregister", "return"}, Continue(step)
  PROVE  /\ shutting' \in Shutting /\ shutting'.step = step
         /\ shutting'.output = shutting.output /\ shutting'.left = shutting.left
         /\ shutting'.ending = shutting.ending
  BY DEF VideoInv, VideoTypeOK, Shutting, Continue

\* A shutdown takes the lock of its output.
LEMMA ShutLockInv ==
  ASSUME VideoInv, ShutLock PROVE VideoInv'
<1> DEFINE o == shutting.output
           r == [out[o] EXCEPT !.shut_down = TRUE]
<1>1. /\ VideoTypeOK /\ shutting.step = "lock" /\ o \in Made
      /\ out' = [out EXCEPT ![o] = r] /\ Continue("callback")
      /\ UNCHANGED <<outputs, mpv, raster, marking>>
  BY DEF VideoInv, ShutDown, ShutLock, Doing
<1>2. /\ shutting' \in Shutting /\ shutting'.step = "callback"
      /\ shutting'.output = o /\ shutting'.left = shutting.left
      /\ shutting'.ending = shutting.ending
  BY <1>1, StepOfShutdown
<1>3. /\ r \in OutputRecord /\ r.player = out[o].player
      /\ r.texture = out[o].texture /\ r.texture_id = out[o].texture_id
      /\ r.refs = out[o].refs /\ r.context = out[o].context
      /\ r.callback = out[o].callback
  <2>1. out[o] \in OutputRecord
    BY <1>1, MadeTypes
  <2> QED BY <2>1 DEF OutputRecord
<1> HIDE DEF r, o
<1>4. /\ out' \in Seq(OutputRecord) /\ Len(out') = Len(out) /\ Made' = Made
      /\ out'[o] = r /\ \A p \in Made : p # o => out'[p] = out[p]
  BY <1>1, <1>3, OneOutput
<1>5. VideoTypeOK'
  BY <1>1, <1>2, <1>4 DEF VideoTypeOK
<1>6. \A p \in Made' : RefsCounted(p)' /\ Registered(p)'
  BY <1>1, <1>2, <1>3, <1>4 DEF VideoInv, RefsCounted, Registered, GivingUp, o
<1>7. Mapped'
  BY <1>1, <1>2, <1>3, <1>4 DEF VideoInv, Mapped
<1>8. ShutDown'
  BY <1>1, <1>2, <1>3, <1>4 DEF VideoInv, ShutDown, o
<1>9. Drawing' /\ Marking'
  BY <1>1, <1>3, <1>4 DEF VideoInv, Drawing, Marking, OnScreen
<1> QED BY <1>5, <1>6, <1>7, <1>8, <1>9 DEF VideoInv

\* A shutdown takes the update callback back from libmpv.
LEMMA StopCallbackInv ==
  ASSUME VideoInv, StopCallback PROVE VideoInv'
<1> DEFINE o == shutting.output
           r == [out[o] EXCEPT !.callback = FALSE]
<1>1. /\ VideoTypeOK /\ shutting.step = "callback" /\ o \in Made
      /\ out' = [out EXCEPT ![o] = r] /\ Continue("unregister")
      /\ UNCHANGED <<outputs, mpv, raster, marking>> /\ o \notin marking
  BY DEF VideoInv, ShutDown, StopCallback, Doing
<1>2. /\ shutting' \in Shutting /\ shutting'.step = "unregister"
      /\ shutting'.output = o /\ shutting'.left = shutting.left
      /\ shutting'.ending = shutting.ending
  BY <1>1, StepOfShutdown
<1>3. /\ r \in OutputRecord /\ r.player = out[o].player
      /\ r.texture = out[o].texture /\ r.texture_id = out[o].texture_id
      /\ r.refs = out[o].refs /\ r.context = out[o].context
      /\ ~r.callback
  <2>1. out[o] \in OutputRecord
    BY <1>1, MadeTypes
  <2> QED BY <2>1 DEF OutputRecord
<1> HIDE DEF r, o
<1>4. /\ out' \in Seq(OutputRecord) /\ Len(out') = Len(out) /\ Made' = Made
      /\ out'[o] = r /\ \A p \in Made : p # o => out'[p] = out[p]
  BY <1>1, <1>3, OneOutput
<1>5. VideoTypeOK'
  BY <1>1, <1>2, <1>4 DEF VideoTypeOK
<1>6. \A p \in Made' : RefsCounted(p)' /\ Registered(p)'
  BY <1>1, <1>2, <1>3, <1>4 DEF VideoInv, RefsCounted, Registered, GivingUp, o
<1>7. Mapped'
  BY <1>1, <1>2, <1>3, <1>4 DEF VideoInv, Mapped
<1>8. ShutDown'
  BY <1>1, <1>2, <1>3, <1>4 DEF VideoInv, ShutDown, o
<1>9. Drawing' /\ Marking'
  BY <1>1, <1>3, <1>4 DEF VideoInv, Drawing, Marking, OnScreen
<1> QED BY <1>5, <1>6, <1>7, <1>8, <1>9 DEF VideoInv

\* A shutdown asks for its texture to be unregistered.
LEMMA UnregisterTextureInv ==
  ASSUME VideoInv, UnregisterTexture PROVE VideoInv'
<1> DEFINE o == shutting.output
           r == [out[o] EXCEPT !.texture_id = FALSE, !.texture = "leaving",
                               !.refs = @ \cup {"embedder"}]
<1>0. out' = [out EXCEPT ![o] = r]
  BY DEF UnregisterTexture
<1> HIDE DEF r
<1>1. /\ VideoTypeOK /\ shutting.step = "unregister" /\ o \in Made
      /\ out' = [out EXCEPT ![o] = r] /\ Continue("return")
      /\ UNCHANGED <<outputs, mpv, raster, marking>>
      /\ ~out[o].callback /\ o \notin marking /\ "caller" \in out[o].refs
      /\ RefsCounted(o)
  <2>1. /\ shutting.step = "unregister" /\ Continue("return")
        /\ UNCHANGED <<outputs, mpv, raster, marking>>
    BY DEF UnregisterTexture, Doing
  <2> QED BY <1>0, <2>1 DEF VideoInv, ShutDown
<1>2. /\ shutting' \in Shutting /\ shutting'.step = "return"
      /\ shutting'.output = o /\ shutting'.left = shutting.left
      /\ shutting'.ending = shutting.ending
  BY <1>1, StepOfShutdown
<1>3. /\ r \in OutputRecord /\ r.player = out[o].player
      /\ r.texture = "leaving" /\ ~r.texture_id
      /\ r.refs = out[o].refs \cup {"embedder"} /\ r.context = out[o].context
      /\ r.callback = out[o].callback
  <2>1. out[o] \in OutputRecord
    BY <1>1, MadeTypes
  <2> QED BY <2>1 DEF OutputRecord, r
<1> HIDE DEF o
<1>4. /\ out' \in Seq(OutputRecord) /\ Len(out') = Len(out) /\ Made' = Made
      /\ out'[o] = r /\ \A p \in Made : p # o => out'[p] = out[p]
  BY <1>1, <1>3, OneOutput
<1>5. VideoTypeOK'
  BY <1>1, <1>2, <1>4 DEF VideoTypeOK
<1>6. \A p \in Made' : RefsCounted(p)' /\ Registered(p)'
  BY <1>1, <1>2, <1>3, <1>4 DEF VideoInv, RefsCounted, Registered, GivingUp, o
<1>7. Mapped'
  BY <1>1, <1>2, <1>3, <1>4 DEF VideoInv, Mapped
<1>8. ShutDown'
  BY <1>1, <1>2, <1>3, <1>4 DEF VideoInv, ShutDown, o
<1>9. Drawing' /\ Marking'
  BY <1>1, <1>3, <1>4 DEF VideoInv, Drawing, Marking, OnScreen
<1> QED BY <1>5, <1>6, <1>7, <1>8, <1>9 DEF VideoInv

\* A shutdown returns to whoever began it.
LEMMA ShutReturnInv ==
  ASSUME VideoInv, ShutReturn PROVE VideoInv'
<1> DEFINE o == shutting.output
           r == Dropped(o, "caller")
<1>1. /\ VideoTypeOK /\ shutting.step = "return" /\ o \in Made
      /\ out' = [out EXCEPT ![o] = r]
      /\ UNCHANGED <<outputs, mpv, raster, marking>>
      /\ out[o].texture # "registered" /\ "caller" \in out[o].refs /\ RefsCounted(o)
  BY DEF VideoInv, ShutDown, ShutReturn, Doing
<1>2. /\ shutting' \in Shutting /\ shutting'.output = 0
      /\ shutting'.left = shutting.left /\ shutting'.ending = shutting.ending
      /\ shutting'.step = IF shutting.ending THEN "leaving" ELSE "idle"
  <2> DEFINE step == IF shutting.ending THEN "leaving" ELSE "idle"
             rest == [shutting EXCEPT !.step = step, !.output = 0]
  <2>1. shutting \in Shutting /\ shutting' = rest
    BY <1>1 DEF VideoTypeOK, ShutReturn
  <2>2. step \in {"idle", "leaving"} /\ 0 \in 0 .. MaxOutputs
    BY VideoConstants
  <2> HIDE DEF step
  <2>3. /\ rest \in Shutting /\ rest.output = 0 /\ rest.step = step
        /\ rest.left = shutting.left /\ rest.ending = shutting.ending
    BY <2>1, <2>2, Zenon DEF Shutting
  <2> QED BY <2>1, <2>3 DEF step
<1>3. /\ r \in OutputRecord
      /\ r.player = out[o].player /\ r.texture = out[o].texture
      /\ r.texture_id = out[o].texture_id /\ r.refs = out[o].refs \ {"caller"}
      /\ r.refs # {} => r.context = out[o].context /\ r.callback = out[o].callback
      /\ r.refs = {} => r.context = "freed" /\ ~r.callback
  BY <1>1, DroppedFacts DEF Who
<1> HIDE DEF r, o
<1>4. /\ out' \in Seq(OutputRecord) /\ Len(out') = Len(out) /\ Made' = Made
      /\ out'[o] = r /\ \A p \in Made : p # o => out'[p] = out[p]
  BY <1>1, <1>3, OneOutput
<1>5. VideoTypeOK'
  BY <1>1, <1>2, <1>4 DEF VideoTypeOK
<1>6. \A p \in Made' : RefsCounted(p)' /\ Registered(p)'
  BY <1>1, <1>2, <1>3, <1>4 DEF VideoInv, RefsCounted, Registered, GivingUp, o
<1>7. Mapped'
  BY <1>1, <1>2, <1>3, <1>4 DEF VideoInv, Mapped
<1>8. ShutDown'
  BY <1>1, <1>2, <1>3, <1>4 DEF VideoInv, ShutDown, o
<1>9. Drawing' /\ Marking'
  BY <1>1, <1>3, <1>4 DEF VideoInv, Drawing, Marking, OnScreen
<1> QED BY <1>5, <1>6, <1>7, <1>8, <1>9 DEF VideoInv

\* A player is disposed of, and the map gives its output up.
LEMMA DisposeInv ==
  ASSUME VideoInv, NEW h \in Players, DisposeOutput(h) PROVE VideoInv'
<1> DEFINE o == outputs[h]
           r == [out[o] EXCEPT !.refs = (@ \ {"map"}) \cup {"caller"}]
<1>1. /\ VideoTypeOK /\ shutting.step = "idle" /\ o \in Made
      /\ out[o].player = h /\ "map" \in out[o].refs
      /\ outputs' = [outputs EXCEPT ![h] = 0]
      /\ UNCHANGED <<mpv, raster, marking>> /\ RefsCounted(o) /\ ~shutting.ending
  BY DEF VideoInv, Mapped, ShutDown, DisposeOutput, Doing
<1>2. out' = [out EXCEPT ![o] = r]
  BY DEF DisposeOutput
<1>3. /\ shutting' \in Shutting /\ shutting'.step = "lock"
      /\ shutting'.output = o /\ shutting'.left = {} /\ ~shutting'.ending
  <2>1. shutting' = [step |-> "lock", output |-> o, left |-> {}, ending |-> FALSE]
    BY DEF DisposeOutput, Idle
  <2>2. o \in Output
    BY <1>1, MadeTypes
  <2> QED BY <2>1, <2>2, VideoConstants DEF Shutting, Output
<1>4. /\ r \in OutputRecord /\ r.player = out[o].player
      /\ r.texture = out[o].texture /\ r.texture_id = out[o].texture_id
      /\ r.refs = (out[o].refs \ {"map"}) \cup {"caller"}
      /\ r.context = out[o].context /\ r.callback = out[o].callback
  <2>1. out[o] \in OutputRecord
    BY <1>1, MadeTypes
  <2> QED BY <2>1 DEF OutputRecord
<1> HIDE DEF r, o
<1>5. /\ out' \in Seq(OutputRecord) /\ Len(out') = Len(out) /\ Made' = Made
      /\ out'[o] = r /\ \A p \in Made : p # o => out'[p] = out[p]
  BY <1>1, <1>2, <1>4, OneOutput
<1>6. /\ outputs' \in [Players -> 0 .. MaxOutputs] /\ outputs'[h] = 0
      /\ \A g \in Players : g # h => outputs'[g] = outputs[g]
      /\ o # 0
  BY <1>1, VideoConstants, MadeTypes DEF VideoTypeOK, o
<1>7. VideoTypeOK'
  BY <1>1, <1>3, <1>5, <1>6 DEF VideoTypeOK
<1>8. \A p \in Made' : RefsCounted(p)' /\ Registered(p)'
  <2> SUFFICES ASSUME NEW p \in Made PROVE RefsCounted(p)' /\ Registered(p)'
    BY <1>5
  <2>1. CASE p = o
    BY <2>1, <1>1, <1>3, <1>4, <1>5 DEF RefsCounted, Registered, GivingUp
  <2>2. CASE p # o
    <3>1. RefsCounted(p) /\ Registered(p) /\ out'[p] = out[p]
      BY <2>2, <1>5 DEF VideoInv
    <3>2. ~GivingUp(p)
      BY <1>1 DEF GivingUp
    <3>3. outputs[out[p].player] = p => outputs'[out[p].player] = p
      <4>1. out[p].player \in Players
        BY <1>1, MadeTypes
      <4> QED BY <4>1, <2>2, <1>6 DEF o
    <3> QED BY <3>1, <3>2, <3>3, <1>3 DEF RefsCounted, Registered
  <2> QED BY <2>1, <2>2
<1>9. Mapped'
  <2>1. \A g \in Players : outputs'[g] # 0 =>
          g # h /\ outputs'[g] = outputs[g] /\ outputs[g] \in Made
          /\ out[outputs[g]].player = g /\ "map" \in out[outputs[g]].refs
    BY <1>6 DEF VideoInv, Mapped
  <2>2. \A g \in Players : outputs'[g] # 0 => outputs[g] # o
    BY <2>1, <1>1
  <2> QED BY <2>1, <2>2, <1>3, <1>5 DEF Mapped
<1>10. ShutDown'
  BY <1>1, <1>3, <1>4, <1>5 DEF ShutDown
<1>11. Drawing' /\ Marking'
  BY <1>1, <1>4, <1>5 DEF VideoInv, Drawing, Marking, OnScreen
<1> QED BY <1>7, <1>8, <1>9, <1>10, <1>11 DEF VideoInv

\* The plug-in goes, with the outputs that are left.
LEMMA LeavePluginInv ==
  ASSUME VideoInv, LeavePlugin PROVE VideoInv'
<1> DEFINE left == {outputs[h] : h \in Players} \ {0}
<1>1. /\ shutting.step = "idle" /\ UNCHANGED <<out, outputs, mpv, raster, marking>>
      /\ VideoTypeOK /\ Mapped /\ shutting.output = 0
  BY DEF VideoInv, ShutDown, LeavePlugin, Doing
<1>2. \A o \in left : o \in Made /\ "map" \in out[o].refs
  BY <1>1 DEF Mapped
<1>3. left \subseteq Output
  BY <1>1, <1>2, MadeTypes
<1>4. shutting' = [step |-> "leaving", output |-> 0, left |-> left, ending |-> TRUE]
  BY DEF LeavePlugin, Idle
<1>5. \A o \in Made : "map" \in out[o].refs /\ outputs[out[o].player] = o
      => o \in left
  <2> SUFFICES ASSUME NEW o \in Made, outputs[out[o].player] = o PROVE o \in left
    OBVIOUS
  <2>1. out[o].player \in Players /\ o # 0
    BY <1>1, MadeTypes
  <2> QED BY <2>1
<1> HIDE DEF left
<1>6. VideoTypeOK'
  BY <1>1, <1>3, <1>4, VideoConstants DEF VideoTypeOK, Shutting
<1>7. \A o \in Made' : RefsCounted(o)' /\ Registered(o)'
  BY <1>1, <1>4, <1>5 DEF VideoInv, Made, RefsCounted, Registered, GivingUp
<1>8. Mapped'
  BY <1>1, <1>2, <1>4 DEF Mapped, Made
<1>9. ShutDown'
  BY <1>4 DEF ShutDown
<1>10. Drawing' /\ Marking'
  BY <1>1 DEF VideoInv, Drawing, Marking, OnScreen, Made
<1> QED BY <1>6, <1>7, <1>8, <1>9, <1>10 DEF VideoInv

\* The plug-in shuts the next output down.
LEMMA ShutNextInv ==
  ASSUME VideoInv, ShutNext PROVE VideoInv'
<1>1. /\ shutting.step = "leaving" /\ UNCHANGED <<outputs, mpv, raster, marking>>
      /\ VideoTypeOK /\ Mapped /\ shutting.left \subseteq Output
  BY DEF VideoInv, VideoTypeOK, Shutting, ShutNext, Doing
<1>2. PICK o \in shutting.left :
        /\ out' = [out EXCEPT ![o].refs = @ \cup {"caller"}]
        /\ shutting' = [shutting EXCEPT !.step = "lock", !.output = o,
                                        !.left = @ \ {o}]
  BY DEF ShutNext
<1> DEFINE r == [out[o] EXCEPT !.refs = @ \cup {"caller"}]
<1>3. o \in Made /\ "map" \in out[o].refs /\ o \in 0 .. MaxOutputs
  BY <1>1, VideoConstants DEF Mapped, Output
<1>4. /\ shutting' \in Shutting /\ shutting'.step = "lock"
      /\ shutting'.output = o /\ shutting'.left = shutting.left \ {o}
      /\ shutting'.ending = shutting.ending
  <2>1. shutting \in Shutting
    BY <1>1 DEF VideoTypeOK
  <2> QED BY <2>1, <1>2, <1>3, Zenon DEF Shutting
<1>5. /\ r \in OutputRecord /\ r.player = out[o].player
      /\ r.texture = out[o].texture /\ r.texture_id = out[o].texture_id
      /\ r.refs = out[o].refs \cup {"caller"}
      /\ r.context = out[o].context /\ r.callback = out[o].callback
  <2>1. out[o] \in OutputRecord
    BY <1>1, <1>3, MadeTypes
  <2> QED BY <2>1 DEF OutputRecord
<1>6. out' = [out EXCEPT ![o] = r]
  BY <1>2
<1> HIDE DEF r
<1>7. /\ out' \in Seq(OutputRecord) /\ Len(out') = Len(out) /\ Made' = Made
      /\ out'[o] = r /\ \A p \in Made : p # o => out'[p] = out[p]
  BY <1>1, <1>3, <1>5, <1>6, OneOutput
<1>8. VideoTypeOK'
  BY <1>1, <1>4, <1>7 DEF VideoTypeOK
<1>9. \A p \in Made' : RefsCounted(p)' /\ Registered(p)'
  BY <1>1, <1>3, <1>4, <1>5, <1>7 DEF VideoInv, RefsCounted, Registered, GivingUp
<1>10. Mapped'
  BY <1>1, <1>4, <1>5, <1>7 DEF Mapped
<1>11. ShutDown'
  BY <1>3, <1>4, <1>5, <1>7 DEF ShutDown
<1>12. Drawing' /\ Marking'
  BY <1>1, <1>5, <1>7 DEF VideoInv, Drawing, Marking, OnScreen
<1> QED BY <1>8, <1>9, <1>10, <1>11, <1>12 DEF VideoInv

\* The plug-in clears its map.
LEMMA ClearOutputsInv ==
  ASSUME VideoInv, ClearOutputs PROVE VideoInv'
<1> DEFINE r(o) == IF "map" \in out[o].refs THEN Dropped(o, "map") ELSE out[o]
<1>1. /\ shutting.step = "leaving" /\ shutting.left = {} /\ VideoTypeOK
      /\ UNCHANGED <<mpv, raster, marking>> /\ shutting.output = 0
      /\ outputs' = [h \in Players |-> 0]
      /\ out' = [o \in Made |-> r(o)] /\ Continue("down")
  BY DEF VideoInv, ShutDown, ClearOutputs, Doing
<1>2. /\ shutting' \in Shutting /\ shutting'.step = "down"
      /\ shutting'.output = 0 /\ shutting'.left = {}
      /\ shutting'.ending = shutting.ending
  BY <1>1 DEF VideoTypeOK, Shutting, Continue
<1>3. \A o \in Made :
        /\ r(o) \in OutputRecord
        /\ r(o).player = out[o].player /\ r(o).texture = out[o].texture
        /\ r(o).texture_id = out[o].texture_id /\ r(o).refs = out[o].refs \ {"map"}
        /\ r(o).refs # {} => /\ r(o).context = out[o].context
                            /\ r(o).callback = out[o].callback
        /\ r(o).refs = {} /\ out[o].refs # {}
             => r(o).context = "freed" /\ ~r(o).callback
        /\ r(o).refs = {} /\ out[o].refs = {} => r(o) = out[o]
  <2> SUFFICES ASSUME NEW o \in Made
               PROVE
        /\ r(o) \in OutputRecord
        /\ r(o).player = out[o].player /\ r(o).texture = out[o].texture
        /\ r(o).texture_id = out[o].texture_id /\ r(o).refs = out[o].refs \ {"map"}
        /\ r(o).refs # {} => /\ r(o).context = out[o].context
                            /\ r(o).callback = out[o].callback
        /\ r(o).refs = {} /\ out[o].refs # {}
             => r(o).context = "freed" /\ ~r(o).callback
        /\ r(o).refs = {} /\ out[o].refs = {} => r(o) = out[o]
    OBVIOUS
  <2>1. CASE "map" \in out[o].refs
    <3>1. r(o) = Dropped(o, "map")
      BY <2>1
    <3> QED BY <3>1, <2>1, <1>1, DroppedFacts DEF Who
  <2>2. CASE "map" \notin out[o].refs
    <3>1. out[o] \in OutputRecord
      BY <1>1, MadeTypes
    <3> QED BY <3>1, <2>2
  <2> QED BY <2>1, <2>2
<1> HIDE DEF r
<1>4. /\ out' \in Seq(OutputRecord) /\ Len(out') = Len(out) /\ Made' = Made
      /\ \A o \in Made : out'[o] = r(o)
  <2>1. Made = 1 .. Len(out) /\ Len(out) \in Nat
    BY <1>1 DEF VideoTypeOK, Made
  <2> QED BY <2>1, <1>1, <1>3 DEF Made
<1>5. VideoTypeOK'
  BY <1>1, <1>2, <1>4, VideoConstants DEF VideoTypeOK
<1>6. \A o \in Made : out[o].texture # "registered"
  <2> SUFFICES ASSUME NEW o \in Made, out[o].texture = "registered" PROVE FALSE
    OBVIOUS
  <2>1. Registered(o) /\ ~GivingUp(o) /\ o \notin shutting.left
    BY <1>1 DEF VideoInv, GivingUp
  <2>2. shutting.ending
    BY <1>1 DEF VideoInv, ShutDown
  <2> QED BY <2>1, <2>2 DEF Registered
<1>7. \A p \in Made' : RefsCounted(p)' /\ Registered(p)'
  BY <1>3, <1>4, <1>6 DEF VideoInv, RefsCounted, Registered
<1>8. Mapped' /\ ShutDown'
  <2>1. shutting.ending
    BY <1>1 DEF VideoInv, ShutDown
  <2>2. Mapped'
    BY <1>1, <1>2 DEF Mapped
  <2>3. ShutDown'
    BY <1>2, <2>1 DEF ShutDown
  <2> QED BY <2>2, <2>3
<1>9. Drawing'
  BY <1>1, <1>3, <1>4 DEF VideoInv, Drawing, OnScreen
<1>10. Marking'
  BY <1>1, <1>3, <1>4 DEF VideoInv, Marking
<1> QED BY <1>5, <1>7, <1>8, <1>9, <1>10 DEF VideoInv

\* An output is created.
LEMMA CreateInv ==
  ASSUME VideoInv, NEW h \in Players, CreateOutput(h) PROVE VideoInv'
<1> DEFINE n == Len(out) + 1
           r == Initialize(h, TRUE)
           f == Initialize(h, FALSE)
<1>1. /\ shutting.step = "idle" /\ UNCHANGED <<shutting, raster, marking>>
      /\ VideoTypeOK /\ outputs[h] = 0 /\ ~shutting.ending
  BY DEF VideoInv, ShutDown, CreateOutput, Doing
<1>2. mpv' \in {"unknown", "loaded", "missing"}
  BY <1>1 DEF CreateOutput, MpvApiForProcess, VideoTypeOK
<1>3. CASE UNCHANGED <<out, outputs>>
  <2>1. VideoTypeOK'
    BY <1>1, <1>2, <1>3 DEF VideoTypeOK
  <2>2. \A o \in Made' : RefsCounted(o)' /\ Registered(o)'
    BY <1>1, <1>3 DEF VideoInv, Made, RefsCounted, Registered, GivingUp
  <2>3. Mapped' /\ ShutDown' /\ Drawing' /\ Marking'
    BY <1>1, <1>3 DEF VideoInv, Mapped, ShutDown, Drawing, Marking, OnScreen, Made
  <2> QED BY <2>1, <2>2, <2>3 DEF VideoInv
<1>4. CASE /\ Len(out) < MaxOutputs /\ out' = Append(out, r)
           /\ outputs' = [outputs EXCEPT ![h] = n]
  <2>1. /\ r \in OutputRecord /\ r.player = h /\ r.texture = "registered"
        /\ r.texture_id /\ r.refs = {"map"} /\ r.context = "live"
    BY DEF Initialize, OutputRecord
  <2> HIDE DEF r
  <2>2. /\ out' \in Seq(OutputRecord) /\ Len(out') = n /\ Made = 1 .. Len(out)
        /\ Made' = Made \cup {n} /\ n \notin Made /\ n # 0 /\ n \in 0 .. MaxOutputs
        /\ out'[n] = r /\ \A p \in Made : out'[p] = out[p]
    BY <1>1, <1>4, <2>1, VideoConstants DEF VideoTypeOK, Made
  <2> HIDE DEF n
  <2>3. /\ outputs' \in [Players -> 0 .. MaxOutputs] /\ outputs'[h] = n
        /\ \A g \in Players : g # h => outputs'[g] = outputs[g]
    BY <1>1, <1>4, <2>2 DEF VideoTypeOK
  <2>4. VideoTypeOK'
    BY <1>1, <1>2, <2>2, <2>3 DEF VideoTypeOK, n
  <2>5. \A p \in Made : p # 0 /\ out[p].player \in Players
    BY <1>1, MadeTypes
  <2>6. \A p \in Made' : RefsCounted(p)' /\ Registered(p)'
    <3> SUFFICES ASSUME NEW p \in Made' PROVE RefsCounted(p)' /\ Registered(p)'
      OBVIOUS
    <3>1. CASE p = n
      BY <3>1, <1>1, <2>1, <2>2, <2>3 DEF RefsCounted, Registered
    <3>2. CASE p \in Made
      <4>1. RefsCounted(p) /\ Registered(p) /\ out'[p] = out[p] /\ p # 0
        BY <3>2, <2>2, <2>5 DEF VideoInv
      <4>2. ~GivingUp(p)
        BY <1>1 DEF GivingUp
      <4>3. outputs[out[p].player] = p => outputs'[out[p].player] = p
        BY <3>2, <4>1, <2>3, <2>5, <1>1
      <4> QED BY <4>1, <4>2, <4>3, <1>1 DEF RefsCounted, Registered
    <3> QED BY <3>1, <3>2, <2>2
  <2>7. Mapped'
    BY <1>1, <2>1, <2>2, <2>3 DEF VideoInv, Mapped
  <2>8. ShutDown'
    BY <1>1 DEF VideoInv, ShutDown
  <2>9. Drawing' /\ Marking'
    BY <1>1, <2>2 DEF VideoInv, Drawing, Marking, OnScreen
  <2> QED BY <2>4, <2>6, <2>7, <2>8, <2>9 DEF VideoInv
<1>5. CASE /\ Len(out) < MaxOutputs /\ out' = Append(out, f)
           /\ outputs' = outputs
  <2>1. /\ f \in OutputRecord /\ f.player = h /\ f.texture = "stray"
        /\ ~f.texture_id /\ f.refs = {} /\ f.context = "freed" /\ ~f.callback
    BY DEF Initialize, OutputRecord
  <2> HIDE DEF f
  <2>2. /\ out' \in Seq(OutputRecord) /\ Len(out') = n /\ Made = 1 .. Len(out)
        /\ Made' = Made \cup {n} /\ n \notin Made
        /\ out'[n] = f /\ \A p \in Made : out'[p] = out[p]
    BY <1>1, <1>5, <2>1, VideoConstants DEF VideoTypeOK, Made
  <2>3. n <= MaxOutputs
    BY <1>1, <1>5, VideoConstants DEF VideoTypeOK
  <2> HIDE DEF n
  <2>4. VideoTypeOK'
    BY <1>1, <1>2, <1>5, <2>2, <2>3 DEF VideoTypeOK
  <2>5. \A p \in Made' : RefsCounted(p)' /\ Registered(p)'
    <3> SUFFICES ASSUME NEW p \in Made' PROVE RefsCounted(p)' /\ Registered(p)'
      OBVIOUS
    <3>1. CASE p = n
      BY <3>1, <2>1, <2>2 DEF RefsCounted, Registered
    <3>2. CASE p \in Made
      <4>1. RefsCounted(p) /\ Registered(p) /\ out'[p] = out[p]
        BY <3>2, <2>2 DEF VideoInv
      <4> QED BY <4>1, <1>1, <1>5 DEF RefsCounted, Registered, GivingUp
    <3> QED BY <3>1, <3>2, <2>2
  <2>6. Mapped' /\ ShutDown'
    BY <1>1, <1>5, <2>2 DEF VideoInv, Mapped, ShutDown
  <2>7. Drawing' /\ Marking'
    BY <1>1, <2>2 DEF VideoInv, Drawing, Marking, OnScreen
  <2> QED BY <2>4, <2>5, <2>6, <2>7 DEF VideoInv
<1> HIDE DEF r, f
<1>6. \/ UNCHANGED <<out, outputs>>
      \/ /\ Len(out) < MaxOutputs /\ out' = Append(out, r)
         /\ outputs' = [outputs EXCEPT ![h] = n]
      \/ /\ Len(out) < MaxOutputs /\ out' = Append(out, f)
         /\ outputs' = outputs
  BY DEF CreateOutput, r, f
<1> QED BY <1>3, <1>4, <1>5, <1>6
-----------------------------------------------------------------------------
(***************************************************************************)
(* Video: the results.                                                     *)
(***************************************************************************)
\* No step of any thread leaves the invariant.
LEMMA StepVideoInv == VideoInv /\ [NextVideo]_videoVars => VideoInv'
<1> SUFFICES ASSUME VideoInv, [NextVideo]_videoVars PROVE VideoInv'
  OBVIOUS
<1>1. CASE \E h \in Players : CreateOutput(h) \/ DisposeOutput(h)
  BY <1>1, CreateInv, DisposeInv
<1>2. CASE LeavePlugin \/ ShutNext \/ ClearOutputs
  BY <1>2, LeavePluginInv, ShutNextInv, ClearOutputsInv
<1>3. CASE Shutdown
  BY <1>3, ShutLockInv, StopCallbackInv, UnregisterTextureInv, ShutReturnInv
  DEF Shutdown
<1>4. CASE \/ (\E o \in Made : CopyPixelBuffer(o)) \/ Copied \/ Uploaded
  BY <1>4, RasterInv
<1>5. CASE \E o \in Made : \/ Unregistered(o) \/ OnMpvRenderUpdate(o) \/ Marked(o)
  BY <1>5, UnregisteredInv, MarkInv
<1>6. CASE UNCHANGED videoVars
  <2>1. /\ UNCHANGED <<out, outputs, shutting>> /\ mpv' = mpv
        /\ raster' = raster /\ marking' = marking
    BY <1>6 DEF videoVars
  <2>2. Drawing' /\ Marking' /\ ShutDown'
    BY <2>1 DEF VideoInv, Drawing, Marking, ShutDown, OnScreen, Made
  <2>3. marking' \subseteq Output /\ raster' \in Raster
    BY <2>1 DEF VideoInv, VideoTypeOK
  <2> QED BY <2>1, <2>2, <2>3, SameOutputs
<1> QED BY <1>1, <1>2, <1>3, <1>4, <1>5, <1>6 DEF NextVideo

\* Whatever the players do and whenever the threads meet, the state of the
\* outputs is of its type (VideoOutput, MediaKitVideoElinuxPlugin).
THEOREM VideoTypeCorrect == VideoSpec => []VideoTypeOK
<1>1. VideoInv => VideoTypeOK
  BY DEF VideoInv
<1> QED BY <1>1, InitVideoInv, StepVideoInv, PTL DEF VideoSpec

\* The raster thread draws with a context that lives and uploads pixels that
\* are still there, and libmpv marks no texture that was given up, for any
\* number of players and outputs (VideoOutput::Shutdown and its keep_alive) and
\* creations that fail after their texture was registered, as long as no frame
\* asks for a number Dart was not told (VideoOutput::Initialize).
THEOREM OutputsRenderedWhileAlive == VideoSpec => []RenderedWhileAlive
<1>1. VideoInv => RenderedWhileAlive
  <2> SUFFICES ASSUME VideoInv PROVE RenderedWhileAlive
    OBVIOUS
  <2>1. \A o \in Made : OnScreen(o) => out[o].refs # {} /\ out[o].context = "live"
    <3> SUFFICES ASSUME NEW o \in Made, OnScreen(o)
                 PROVE  out[o].refs # {} /\ out[o].context = "live"
      OBVIOUS
    <3>1. RefsCounted(o) /\ Registered(o)
      BY DEF VideoInv
    <3>2. GivingUp(o) => out[o].refs # {}
      BY DEF VideoInv, ShutDown, GivingUp
    <3> QED BY <3>1, <3>2 DEF RefsCounted, Registered, OnScreen
  <2>2. raster.step # "idle" => raster.output \in Made /\ OnScreen(raster.output)
    BY DEF VideoInv, Drawing
  <2>3. \A o \in Made : out[o].callback => out[o].context = "live"
    BY DEF VideoInv, RefsCounted
  <2> QED BY <2>1, <2>2, <2>3 DEF VideoInv, Marking, RenderedWhileAlive
<1> QED BY <1>1, InitVideoInv, StepVideoInv, PTL DEF VideoSpec

-----------------------------------------------------------------------------
(***************************************************************************)
(* The plugins side by side.                                               *)
(***************************************************************************)
\* No plugin takes a step that is not one of its own.
LEMMA PartsRun == Spec => WebSpec /\ CacheSpec /\ VideoSpec /\ ValueSpec
<1>1. Init => InitWeb /\ InitCache /\ InitVideo /\ InitValue
  BY Zenon DEF Init
<1>2. ASSUME [Next]_embeddedVars
      PROVE  /\ [NextWeb]_webVars /\ [NextCache]_cacheVars
             /\ [NextVideo]_videoVars /\ [NextValue]_valueVars
  <2>1. CASE UNCHANGED embeddedVars
    BY <2>1, Zenon DEF embeddedVars
  <2>2. CASE Next
    BY <2>2, Zenon DEF Next
  <2> QED BY <1>2, <2>1, <2>2, Zenon
<1> QED BY <1>1, <1>2, PTL DEF Spec, WebSpec, CacheSpec, VideoSpec, ValueSpec

\* The state of every plugin stays of its type, for any number of views,
\* processes, pages, instances, players, outputs and values.
THEOREM EmbeddedTypeCorrect == Spec => []TypeOK
<1>1. WebTypeOK /\ CacheTypeOK /\ VideoTypeOK /\ ValueTypeOK => TypeOK
  BY Zenon DEF TypeOK
<1> QED BY <1>1, PartsRun, WebTypeCorrect, CacheTypeCorrect, VideoTypeCorrect,
           ValueTypeCorrect, PTL

\* What was proved of each plugin holds of them in one process: calls are
\* answered once and replies reach their requests (webview_plugin.cc,
\* webview_js_handler.cc), an instance that was seen keeps its files
\* (cef_cache_paths.cc), outputs draw while they live (video_output.cc), and
\* every value is counted (webview_value.cc).
THEOREM PluginsSafe ==
  Spec => [](/\ AnsweredOnce /\ ReplyToItsRequest /\ OwnerSeenIsKept
             /\ RenderedWhileAlive /\ EveryReferenceCounted)
BY PartsRun, CallsAnsweredOnce, RepliesReachTheirRequests,
   OwnerSeenKeepsItsFiles, OutputsRenderedWhileAlive, ReferencesAreCounted, PTL
=============================================================================
