------------------------------- MODULE CefCache -------------------------------
(***************************************************************************)
(* cef_cache_paths.cc and cef_cache_paths_host.cc: before CEF starts, the  *)
(* plugin picks a cache directory and clears what a killed run left of     *)
(* Chromium's process singleton, in that directory and under the temporary *)
(* one, which other applications use as well.  It must not take away what  *)
(* an instance needs that is there, or on its way.                         *)
(*                                                                         *)
(* The sweep looks at the files, asks the socket, reads the ages, lists    *)
(* the socket directories and only then deletes; other instances start,    *)
(* bind and die between any two of these steps, and time passes.           *)
(*                                                                         *)
(* External: the other instances.  One creates its lock and cookie, then a *)
(* socket directory, then binds and links the socket.                      *)
(***************************************************************************)
EXTENDS Naturals, Sequences

CONSTANTS
  Peers,         \* instances that use the same cache directory
  Others,        \* instances of other applications
  StartTime,     \* ticks an instance takes at most to bind its socket
  ProbeTime,     \* ticks from the look at the files to the reading of their ages
  FreshGrace,    \* kFreshSingletonStateGraceSeconds
  DirGrace,      \* kAbandonedSocketDirGraceSeconds
  MaxAge         \* bound: ages are not told apart beyond it

Instances == Peers \cup Others

ASSUME CacheConstants ==
  /\ {StartTime, ProbeTime, FreshGrace, DirGrace, MaxAge} \subseteq Nat
  /\ StartTime + ProbeTime < FreshGrace /\ FreshGrace <= DirGrace
  /\ DirGrace <= MaxAge
  /\ Peers \cap Others = {}
  /\ Instances \cap {"killed run", "elsewhere", "none"} = {}

VARIABLES
  file,      \* the singleton's files: whose each is, and its age
  dir,       \* the socket directories by owner
  inst,      \* how far each instance is, and since when
  sweep      \* how far the sweep is, and what it has seen

cacheVars == <<file, dir, inst, sweep>>

File == {"lock", "cookie", "socket"}
Age == 0 .. MaxAge
DirOwner == Instances \cup {"killed run"}

\* A socket link may also lead elsewhere.
Owner == DirOwner \cup {"elsewhere", "none"}

Absent == [owner |-> "none", age |-> 0]
NoDir == [present |-> FALSE, bound |-> FALSE, age |-> 0]

Sweep ==
  [pc : {"resolve", "look", "connect", "age", "list", "unlink", "remove", "done"},
   present : SUBSET File, target : Owner, answers : BOOLEAN, age : Age,
   files : SUBSET File, directories : SUBSET DirOwner,
   ticks : 0 .. ProbeTime, unheard : SUBSET Instances,
   met : SUBSET Instances]

NothingSeen ==
  [pc |-> "resolve", present |-> {}, target |-> "none", answers |-> FALSE,
   age |-> 0, files |-> {}, directories |-> {}, ticks |-> 0,
   unheard |-> {}, met |-> {}]

\* What a killed run left: nothing, or its files without or with the link to
\* its socket, and the directory or not.
InitCache ==
  /\ \E left \in {{}, {"lock", "cookie"}, File}, age \in {0, MaxAge},
       t \in {"killed run", "elsewhere"} :
       file = [f \in File |->
                IF f \notin left THEN Absent
                ELSE [owner |-> IF f = "socket" THEN t ELSE "killed run",
                      age |-> age]]
  /\ \E d \in {NoDir} \cup {[NoDir EXCEPT !.present = TRUE, !.age = a] :
                              a \in {0, MaxAge}} :
       dir = [o \in DirOwner |-> IF o = "killed run" THEN d ELSE NoDir]
  /\ inst = [i \in Instances |-> [at |-> "none", since |-> 0]]
  /\ sweep = NothingSeen

NothingLeft ==
  /\ \A f \in File : file[f] = Absent
  /\ \A o \in DirOwner : dir[o] = NoDir

\* Once the sweep is done, nothing of it can change any more.
Starting == sweep.pc # "done"

Alive(i) == inst[i].at \in {"locked", "made", "listening"}
-----------------------------------------------------------------------------
(***************************************************************************)
(* The other instances and the clock.                                      *)
(***************************************************************************)
\* One that finds a live instance in its directory hands over to it.
Locks(i) ==
  /\ Starting
  /\ inst[i].at = "none"
  /\ i \in Peers => \A j \in Peers : ~Alive(j)
  /\ inst' = [inst EXCEPT ![i] = [at |-> "locked", since |-> 0]]
  /\ file' = IF i \in Peers
             THEN [f \in File |-> IF f = "socket" THEN Absent
                                  ELSE [owner |-> i, age |-> 0]]
             ELSE file
  /\ UNCHANGED <<dir, sweep>>

MakesDir(i) ==
  /\ Starting
  /\ inst[i].at = "locked"
  /\ inst' = [inst EXCEPT ![i].at = "made"]
  /\ dir' = [dir EXCEPT ![i] = [NoDir EXCEPT !.present = TRUE]]
  /\ UNCHANGED <<file, sweep>>

Binds(i) ==
  /\ Starting
  /\ inst[i].at = "made"
  /\ inst' = [inst EXCEPT ![i] = [at |-> "listening", since |-> 0]]
  /\ dir' = [dir EXCEPT ![i].bound = dir[i].present]
  /\ file' = IF i \in Peers
             THEN [file EXCEPT !["socket"] = [owner |-> i, age |-> 0]] ELSE file
  /\ UNCHANGED sweep

Dies(i) ==
  /\ Starting
  /\ Alive(i)
  /\ inst' = [inst EXCEPT ![i] = [at |-> "gone", since |-> 0]]
  /\ dir' = [dir EXCEPT ![i].bound = FALSE]
  /\ UNCHANGED <<file, sweep>>

Older(a) == IF a < MaxAge THEN a + 1 ELSE a

Probing == sweep.pc \in {"connect", "age"}

Tick ==
  /\ Starting
  /\ \A i \in Instances :
       inst[i].at \in {"locked", "made"} => inst[i].since < StartTime
  /\ Probing => sweep.ticks < ProbeTime
  /\ file' = [f \in File |-> IF file[f] = Absent THEN Absent
                             ELSE [file[f] EXCEPT !.age = Older(@)]]
  /\ dir' = [o \in DirOwner |-> IF dir[o].present
                                THEN [dir[o] EXCEPT !.age = Older(@)] ELSE dir[o]]
  /\ inst' = [i \in Instances |->
               IF inst[i].at \in {"locked", "made"}
               THEN [inst[i] EXCEPT !.since = @ + 1] ELSE inst[i]]
  /\ sweep' = IF Probing THEN [sweep EXCEPT !.ticks = @ + 1] ELSE sweep
-----------------------------------------------------------------------------
(***************************************************************************)
(* PrepareCefCachePaths.                                                   *)
(***************************************************************************)
\* An override counts when it is an absolute path.
RootCacheCandidates(set) ==
  (IF set THEN <<"override">> ELSE <<>>) \o <<"home", "temp">>

\* The first candidate that can be written to.
ResolveCachePaths(candidates, writable) ==
  LET good == {k \in DOMAIN candidates : candidates[k] \in writable}
  IN IF good = {} THEN "none"
     ELSE candidates[CHOOSE k \in good : \A other \in good : k <= other]

At(pc) == sweep.pc = pc

Resolve ==
  /\ At("resolve")
  /\ \E set \in BOOLEAN, writable \in SUBSET {"override", "home", "temp"} :
       LET root == ResolveCachePaths(RootCacheCandidates(set), writable)
       IN sweep' = [sweep EXCEPT
                     !.pc = IF root = "none" THEN "done" ELSE "look"]
  /\ UNCHANGED <<file, dir, inst>>

Look ==
  /\ At("look")
  /\ sweep' = [sweep EXCEPT !.pc = "connect",
                            !.present = {f \in File : file[f].owner # "none"}]
  /\ UNCHANGED <<file, dir, inst>>

\* A listener that is wedged or slow answers too.  A probe that fails itself,
\* for want of a descriptor or in poll, is taken for no answer, although the
\* function's comment has every inconclusive outcome read as an answer.
UnixSocketAnswers(o, fails) == o \in DirOwner /\ dir[o].bound /\ ~fails

\* unheard: the instance that would have answered the probe that failed.
Connect ==
  /\ At("connect")
  /\ \E fails \in BOOLEAN :
     LET target == IF "socket" \in sweep.present THEN file["socket"].owner
                   ELSE "none"
     IN /\ fails => UnixSocketAnswers(target, FALSE)
        /\ sweep' = [sweep EXCEPT
             !.pc = "age", !.target = target,
             !.answers = UnixSocketAnswers(target, fails),
             !.unheard = IF fails THEN {target} \cap Instances ELSE {}]
  /\ UNCHANGED <<file, dir, inst>>

\* met: who was there when the youngest file's age was read, without the one
\* whose probe failed if not even that file is young enough to protect it.
ReadAge ==
  /\ At("age")
  /\ LET ages == {file[f].age : f \in {g \in File : file[g].owner # "none"}}
         age == IF ages = {} THEN 0
                ELSE CHOOSE a \in ages : \A b \in ages : a <= b
     IN sweep' = [sweep EXCEPT
          !.pc = "list", !.age = age, !.ticks = 0, !.unheard = {},
          !.met = {i \in Instances : Alive(i)} \
                    (IF age < FreshGrace THEN {} ELSE sweep.unheard)]
  /\ UNCHANGED <<file, dir, inst>>

\* A directory that is too young to be judged is not asked.
Probed ==
  {o \in DirOwner : dir[o].age >= DirGrace /\ UnixSocketAnswers(o, FALSE)}

FindSocketDirs(failed) ==
  {[owner |-> o, age |-> dir[o].age,
    answers |-> dir[o].age >= DirGrace /\ UnixSocketAnswers(o, o \in failed)] :
   o \in {p \in DirOwner : dir[p].present}}

IsChromiumSocketDir(o) == o \in DirOwner

Abandoned(dirs) ==
  {d.owner : d \in {e \in dirs : ~e.answers /\ e.age >= DirGrace}}

\* The plan without the grace for an instance that has yet to bind.
PlanSingletonSweepAtOnce(s, socket_dirs) ==
  LET judged == ~("socket" \in s.present /\ s.answers)
  IN [files |-> IF judged THEN s.present ELSE {},
      directories |->
        Abandoned(socket_dirs)
          \cup IF judged /\ IsChromiumSocketDir(s.target) THEN {s.target} ELSE {}]

\* An owner that answers keeps its files, and so does one that may be
\* starting; the directory of a dead owner goes with its files at any age.
PlanSingletonSweep(s, socket_dirs) ==
  LET owner_alive == "socket" \in s.present /\ s.answers
      mid_startup == s.present # {} /\ s.age < FreshGrace
      judged == ~owner_alive /\ ~mid_startup
  IN [files |-> IF judged THEN s.present ELSE {},
      directories |->
        Abandoned(socket_dirs)
          \cup IF judged /\ IsChromiumSocketDir(s.target) THEN {s.target} ELSE {}]

\* failed: the owners of old directories whose probe failed.
Planning(failed) ==
  LET plan == PlanSingletonSweep(sweep, FindSocketDirs(failed))
  IN [NothingSeen EXCEPT !.pc = "unlink", !.files = plan.files,
                         !.directories = plan.directories,
                         !.met = sweep.met \ failed]

List ==
  /\ At("list")
  /\ \E failed \in SUBSET Probed : sweep' = Planning(failed)
  /\ UNCHANGED <<file, dir, inst>>

Unlink ==
  /\ At("unlink")
  /\ file' = [f \in File |-> IF f \in sweep.files THEN Absent ELSE file[f]]
  /\ sweep' = [sweep EXCEPT !.pc = "remove", !.files = {}]
  /\ UNCHANGED <<dir, inst>>

RemoveTrees ==
  /\ At("remove")
  /\ dir' = [o \in DirOwner |->
              IF o \in sweep.directories THEN NoDir ELSE dir[o]]
  /\ sweep' = [sweep EXCEPT !.pc = "done", !.directories = {}]
  /\ UNCHANGED <<file, inst>>
-----------------------------------------------------------------------------
NextCache ==
  \/ \E i \in Instances : Locks(i) \/ MakesDir(i) \/ Binds(i) \/ Dies(i)
  \/ Tick
  \/ Resolve \/ Look \/ Connect \/ ReadAge \/ List \/ Unlink \/ RemoveTrees

CacheSpec == InitCache /\ [][NextCache]_cacheVars

CacheTypeOK ==
  /\ \A f \in File : file[f].owner \in Owner /\ file[f].age \in Age
  /\ \A o \in DirOwner : dir[o].age \in Age
  /\ sweep \in Sweep /\ \A i \in Instances : inst[i].since <= StartTime

\* An instance that was there when the ages were read keeps all it needs: its
\* lock, its link to the socket and the directory of the socket; unless what
\* it has is older than the grace and the probe of its socket failed for a
\* reason of the prober's own, which the code takes for no answer.
OwnerSeenIsKept ==
  \A i \in sweep.met :
    Alive(i) =>
      /\ i \in Peers => file["lock"].owner = i
      /\ i \in Peers /\ inst[i].at = "listening" => file["socket"].owner = i
      /\ inst[i].at \in {"made", "listening"} => dir[i].present
=============================================================================
