------------------------------- MODULE Migrate -------------------------------
(***************************************************************************)
(* gotifacts migrate-layout (cmd/gotifacts/migrate.go): the files a site   *)
(* has directly under its path, from before the "@site" leaf, move into    *)
(* that leaf, in each of the three trees of the data volume. The command   *)
(* runs while the server is stopped; it may die anywhere, and be repeated. *)
(*                                                                         *)
(* The volume is a set of files; a path is a sequence of names. What       *)
(* directories exist follows from the files (empty ones are left out).     *)
(***************************************************************************)
EXTENDS Naturals, Sequences, SequencesExt

CONSTANTS
  Live, Trashed,  \* the paths of the sites in the registry, by deleted_at
  Names,          \* the names of files and directories
  Leaf,           \* router.ContentLeaf
  Volumes         \* the volumes an upgrade may find, each a set of files

MaxDepth   == 3
Trees      == <<"sites", "versions", "deleted">>
Registered == Live \union Trashed
File       == [tree : {Trees[i] : i \in DOMAIN Trees},
               path : Seq(Names), data : Seq(Nat)]

ASSUME MigrateAssumption ==
  /\ \A s \in Registered : s \in Seq(Names) /\ Len(s) \in 1..MaxDepth
  /\ \A s \in Registered : \A i \in DOMAIN s : s[i] # Leaf
  /\ \A v \in Volumes : v \subseteq File
  /\ Leaf \in Names

VARIABLES
  vol,     \* the files
  before,  \* history: the files when the new version was installed
  run,     \* the command: "idle", "choose", "read", "move" or "finished"
  todo,    \* the sites still to visit
  site,    \* the site it is at, and the index of the tree
  tree,
  loose    \* toMove: the names still to rename

volumeVars == <<vol, before, run, todo, site, tree, loose>>

-----------------------------------------------------------------------------
(* Mutant: the children of a site are looked for among the live sites.     *)
LiveChildren(s) == {q[Len(s) + 1] : q \in {c \in Live : IsStrictPrefix(s, c)}}

(* The names directly under a site's path that lead to other sites.        *)
ChildSegments(s) ==
  {q[Len(s) + 1] : q \in {c \in Registered : IsStrictPrefix(s, c)}}

(* What os.ReadDir finds in a directory of tree t.                         *)
Entries(t, dir) ==
  {f.path[Len(dir) + 1] :
     f \in {g \in vol : g.tree = t /\ IsStrictPrefix(dir, g.path)}}

(* Mutant: the leaf is moved into itself, like every other entry.          *)
AllEntries(t, s) == Entries(t, s) \ ChildSegments(s)

(* The entries of a site's directory that are to move.                     *)
Loose(t, s) == Entries(t, s) \ (ChildSegments(s) \union {Leaf})

(* The files that os.Rename of an entry takes along, and where they go.    *)
Within(t, entry) == {f \in vol : f.tree = t /\ IsPrefix(entry, f.path)}
Relocated(f, s)  == [f EXCEPT !.path = InsertAt(@, Len(s) + 1, Leaf)]

(* A file where os.ReadDir or os.MkdirAll needs a directory.               *)
FileAt(t, dir) == \E f \in vol : f.tree = t /\ IsPrefix(f.path, dir)

-----------------------------------------------------------------------------
MigrateInit ==
  /\ vol \in Volumes /\ before = vol
  /\ run = "idle" /\ todo = {} /\ site = << >> /\ tree = 1 /\ loose = {}

(* The registry is read once; the sites come in no particular order.       *)
StartMigration ==
  /\ run \in {"idle", "finished"}
  /\ run' = "choose" /\ todo' = Registered
  /\ UNCHANGED <<vol, before, site, tree, loose>>

TakeSite(s) ==
  /\ run = "choose" /\ s \in todo
  /\ run' = "read" /\ todo' = todo \ {s} /\ site' = s /\ tree' = 1
  /\ UNCHANGED <<vol, before, loose>>

(* A directory that is not there has no entries; a file there is an error. *)
ReadDir ==
  /\ run = "read" /\ ~FileAt(Trees[tree], site)
  /\ run' = "move" /\ loose' = Loose(Trees[tree], site)
  /\ UNCHANGED <<vol, before, todo, site, tree>>

(* Into the leaf, made if need be. A rename replaces a file by a file; it  *)
(* fails where one of the two is a directory (see MigrationFails).         *)
Move(n) ==
  LET moved == Within(Trees[tree], Append(site, n))
      there == Within(Trees[tree], site \o <<Leaf, n>>)
  IN  /\ run = "move" /\ n \in loose
      /\ ~FileAt(Trees[tree], Append(site, Leaf))
      /\ \/ there = {}
         \/ /\ \A f \in moved : f.path = Append(site, n)
            /\ \A f \in there : f.path = site \o <<Leaf, n>>
      /\ vol' = (vol \ (moved \union there)) \union
                {Relocated(f, site) : f \in moved}
      /\ loose' = loose \ {n}
      /\ UNCHANGED <<before, run, todo, site, tree>>

(* Mutant: the tree of archived versions is forgotten.                     *)
SkipVersions ==
  /\ run = "move" /\ loose = {}
  /\ IF tree < Len(Trees) THEN run' = "read" /\ tree' = 3
                          ELSE run' = "choose" /\ tree' = tree
  /\ UNCHANGED <<vol, before, todo, site, loose>>

NextTree ==
  /\ run = "move" /\ loose = {}
  /\ IF tree < Len(Trees) THEN run' = "read" /\ tree' = tree + 1
                          ELSE run' = "choose" /\ tree' = tree
  /\ UNCHANGED <<vol, before, todo, site, loose>>

FinishMigration ==
  /\ run = "choose" /\ todo = {}
  /\ run' = "finished" /\ site' = << >> /\ tree' = 1
  /\ UNCHANGED <<vol, before, todo, loose>>

(* A call returns an error, which ends the command, or the process dies.   *)
MigrationFails ==
  /\ run \in {"choose", "read", "move"}
  /\ run' = "idle" /\ todo' = {} /\ site' = << >> /\ tree' = 1 /\ loose' = {}
  /\ UNCHANGED <<vol, before>>

MigrateStep ==
  \/ \E s \in Registered : TakeSite(s)
  \/ ReadDir \/ (\E n \in loose : Move(n)) \/ NextTree \/ FinishMigration

MigrateNext == StartMigration \/ MigrateStep \/ MigrationFails

MigrateSpec == MigrateInit /\ [][MigrateNext]_volumeVars

-----------------------------------------------------------------------------
(* What the command is for. A file belongs to the deepest site above it.   *)
Owners(f) == {s \in Registered : IsStrictPrefix(s, f.path)}
Owner(f)  == CHOOSE s \in Owners(f) : \A q \in Owners(f) : Len(q) <= Len(s)

(* A file already in the leaf, of no site, or in a directory that leads to *)
(* a nested site, has no other place.                                      *)
InPlace(f) ==
  \/ Owners(f) = {}
  \/ f.path[Len(Owner(f)) + 1] \in ChildSegments(Owner(f)) \union {Leaf}

Placed(f) == IF InPlace(f) THEN f ELSE Relocated(f, Owner(f))

(* No entry to move has its name taken in the leaf, as it would if a site  *)
(* was published under the new layout before the migration.                *)
Unambiguous(v) ==
  \A f, g \in v : f.tree = g.tree =>
    /\ f.path = g.path => f = g
    /\ ~InPlace(f) =>
       ~IsPrefix(SubSeq(Placed(f).path, 1, Len(Owner(f)) + 2), g.path)

(* Every file is either where it was or where it belongs, never in both    *)
(* places or in another one, whenever the command died and however often   *)
(* it was repeated.                                                        *)
NothingLost ==
  Unambiguous(before) =>
    /\ \A f \in before : f \in vol \/ Placed(f) \in vol
    /\ \A f \in before : {f, Placed(f)} \subseteq vol => InPlace(f)
    /\ \A g \in vol : \E f \in before : g \in {f, Placed(f)}

(* A run that ends without an error has put every file of every tree in    *)
(* its place, whatever runs were interrupted before it.                    *)
MigratedInFull ==
  run = "finished" /\ Unambiguous(before) =>
    vol = {Placed(f) : f \in before}

(* "Already-migrated sites are left untouched": a file in its place stays  *)
(* there with what it holds, in this run and in every later one.           *)
PlacedFilesStay ==
  [][\A f \in vol \ vol' : Unambiguous(before) => ~InPlace(f)]_volumeVars
=============================================================================
