-------------------------------- MODULE Volume --------------------------------
(***************************************************************************)
(* A data volume from its upgrade to daily use. With the server stopped,   *)
(* migrate-layout moves the files of every site into its "@site" leaf      *)
(* (Migrate); then the server runs, and what it serves and replaces        *)
(* (ReadFile, Upload) is one of these leaves.                              *)
(***************************************************************************)
EXTENDS Migrate, ReadFile

CONSTANT Home  \* the path of the live site looked at

(* A name is no step along a path, and no file has another one below it.   *)
ASSUME VolumeAssumption ==
  /\ Home \in Live
  /\ Names \subseteq STRING \ {"", ".", ".."}
  /\ \A v \in Volumes :
       /\ IsFiniteSet(v)
       /\ \A f, g \in v : f.tree = g.tree /\ IsPrefix(f.path, g.path) => f = g

VARIABLE phase  \* "offline", "upgraded", or "serving" once live has changed

allVars == <<volumeVars, live, up, ses, phase>>

(* What lies below a directory, by its path there.                         *)
Below(t, dir) ==
  LET files == {f \in vol : f.tree = t /\ IsStrictPrefix(dir, f.path)}
      rest(p) == SubSeq(p, Len(dir) + 1, Len(p))
  IN  [p \in {rest(f.path) : f \in files} |->
         (CHOOSE f \in files : rest(f.path) = p).data]

(* Mutant: the server still looks under the path of the site itself.       *)
OldContentDir(s) == s

(* Where the files of a site are served from.                              *)
ContentDir(s) == Append(s, Leaf)

-----------------------------------------------------------------------------
VolumeInit == MigrateInit /\ ReadInit /\ phase = "offline"

Maintain ==
  /\ phase = "offline" /\ MigrateNext
  /\ UNCHANGED <<live, up, ses, phase>>

(* The server comes up again after a full run of the command.              *)
StartServer ==
  /\ phase = "offline" /\ run = "finished"
  /\ phase' = "upgraded" /\ live' = Below("sites", ContentDir(Home))
  /\ UNCHANGED <<volumeVars, up, ses>>

Serve ==
  /\ phase \in {"upgraded", "serving"} /\ ContentStep
  /\ phase' = IF live' = live THEN phase ELSE "serving"
  /\ UNCHANGED volumeVars

VolumeNext == Maintain \/ StartServer \/ Serve

VolumeSpec == VolumeInit /\ [][VolumeNext]_allVars

-----------------------------------------------------------------------------
(* The files of a site as they were before the upgrade, in the leaf or out *)
(* of it, without those in directories that lead to nested sites. A file   *)
(* that has the name of the leaf itself is none of them: no directory can  *)
(* take its place, and a run that finds others to move beside it fails.    *)
OwnPath(f) ==
  SubSeq(f.path, Len(Home) + IF f.path[Len(Home) + 1] = Leaf THEN 2 ELSE 1,
         Len(f.path))

OwnFiles(v) ==
  {f \in v : /\ f.tree = "sites" /\ Home \in Owners(f) /\ Owner(f) = Home
             /\ f.path # ContentDir(Home)
             /\ f.path[Len(Home) + 1] \notin ChildSegments(Home)}

(* The upgrade is not visible: what the server offers of a site after it   *)
(* are the site's own files from before, each with what it held, and none  *)
(* of a site nested under it, dead or alive.                               *)
MigratedSiteReads ==
  phase = "upgraded" /\ Unambiguous(before) =>
    /\ DOMAIN live = {OwnPath(f) : f \in OwnFiles(before)}
    /\ \A f \in OwnFiles(before) : live[OwnPath(f)] = f.data
=============================================================================
