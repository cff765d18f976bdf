----------------------------- MODULE LogRotation -----------------------------
(***************************************************************************)
(* log_rotation.cpp and RotateLogs of the Windows runner: the logs of the  *)
(* runs before this one are moved one generation up before this run opens  *)
(* its own.  Generation 0 is the live file, a run is named by its number,  *)
(* 0 is no file.                                                           *)
(*                                                                         *)
(* The plan is carried out one file operation at a time, and each may fail *)
(* without anybody noticing: RotateLogs looks at no result.  A file held   *)
(* open from outside can be neither deleted, nor renamed, nor replaced.    *)
(***************************************************************************)
EXTENDS Naturals, Sequences

CONSTANT MaxArchives   \* bound: archives any launch asks to keep

ASSUME ArchivesAssumption == MaxArchives \in Nat

Generation == 0 .. MaxArchives
NothingHeld == MaxArchives + 1
Held == Generation \cup {NothingHeld}    \* the generation held from outside

FileOp == [op : {"delete"}, from : Generation]
            \cup [op : {"rename"}, from : Generation, to : Generation]

Delete(g) == [op |-> "delete", from |-> g]
Rename(g) == [op |-> "rename", from |-> g, to |-> g + 1]

\* A plan that walks upwards, onto generations that have not moved yet.
PlanRotationUpwards(archives) ==
  IF archives = 0 THEN <<Delete(0)>>
  ELSE <<Delete(archives)>> \o [i \in 1 .. archives |-> Rename(i - 1)]

\* The oldest has nowhere to go; the rest move downwards through the list, so
\* that each destination is free.
PlanRotation(archives) ==
  IF archives = 0 THEN <<Delete(0)>>
  ELSE <<Delete(archives)>> \o [i \in 1 .. archives |-> Rename(archives - i)]

\* One DeleteFileW or MoveFileExW(MOVEFILE_REPLACE_EXISTING) of RotateLogs.
RotateFile(disk, step, held) ==
  IF held = step.from \/ disk[step.from] = 0 THEN disk
  ELSE IF step.op = "delete" THEN [disk EXCEPT ![step.from] = 0]
  ELSE IF held = step.to THEN disk
  ELSE [disk EXCEPT ![step.to] = disk[step.from], ![step.from] = 0]
=============================================================================
