------------------------------ MODULE Publisher ------------------------------
(***************************************************************************)
(* The publish pipeline of internal/ingest over the registry of            *)
(* internal/store and the directory trees of the data volume.              *)
(*                                                                         *)
(* A site has a registry row (SQLite), a live directory, a quarantine      *)
(* directory and a set of archived versions named by their time stamp.     *)
(* Nothing locks a site: every HTTP handler, every MCP tool and the purge  *)
(* loop is a process of its own, and each database statement and each      *)
(* file-system call of an operation is one step here, so the steps of two  *)
(* operations interleave as they do in the code.                           *)
(***************************************************************************)
EXTENDS Naturals, FiniteSets

CONSTANTS
  Sites,       \* site paths
  Contents,    \* what a client may upload
  Workers,     \* request handlers, MCP tool calls, CLI processes
  Janitor,     \* the purge loop of cmd/gotifacts/serve.go
  Below,       \* Below[s]: s and the sites nested under its path
  Versioning,  \* GOTIFACTS_VERSIONING_ENABLED
  Keep,        \* GOTIFACTS_VERSIONING_KEEP
  Ops,         \* the operations the clients of this deployment use
  Serial,      \* TRUE: an operation starts only when no other one runs
  Faults,      \* TRUE: a call may fail, and the process may die, at any step
  MaxStamp,    \* bound: no archiving operation starts once stamp reaches it
  NoDir, NoIcon, NoSite

AllOps == {"publish", "rollback", "rollbackTo", "unpublish", "restore",
           "purge", "favicons"}

ASSUME JanitorAssumption == Janitor \notin Workers
ASSUME OpsAssumption     == Ops \subseteq AllOps
ASSUME ModeAssumption    == /\ Versioning \in BOOLEAN
                            /\ Serial \in BOOLEAN
                            /\ Faults \in BOOLEAN
ASSUME KeepAssumption    == Keep \in Nat \ {0}
ASSUME BoundAssumption   == MaxStamp \in Nat
ASSUME BelowAssumption   == /\ Below \in [Sites -> SUBSET Sites]
                            /\ \A s \in Sites : s \in Below[s]
ASSUME NoneAssumption    == /\ NoIcon \notin Contents
                            /\ NoSite \notin Sites

VARIABLES
  reg,      \* the row of a site: none, live, or deleted (deleted_at is set)
  expired,  \* deleted_at is older than the retention TTL
  size,     \* the size column: the directories whose bytes it counts
  icon,     \* the favicon column: the content it was taken from
  live,     \* sites/<path>/@site
  quar,     \* .deleted/<path>/@site
  vers,     \* .versions/<path>/@site: one directory per stamp
  stamp,    \* the clock that names versions
  job,      \* what each process is doing
  todo      \* the expired sites the purge loop has listed and not yet reached

registry == <<reg, expired, size, icon>>
disk     == <<live, quar, vers, stamp>>
vars     == <<reg, expired, size, icon, live, quar, vers, stamp, job, todo>>

Procs == Workers \union {Janitor}

(***************************************************************************)
(* A directory holds one uploaded content. It is torn when a RemoveAll has *)
(* deleted some of its files and not yet all of them.                      *)
(***************************************************************************)
Dir     == [c : Contents, torn : BOOLEAN]
AnyDir  == Dir \union {NoDir}
Version == [stamp : Nat, dir : Dir]
Sized   == SUBSET (Sites \X Dir)

ASSUME NoDirAssumption == NoDir \notin Dir

Whole(c)   == [c |-> c, torn |-> FALSE]
TornDir(d) == [d EXCEPT !.torn = TRUE]

(***************************************************************************)
(* dirSize over the content directories of the sites in S.                 *)
(***************************************************************************)
Measure(S) == {<<t, live[t]>> : t \in {u \in S : live[u] # NoDir}}

(***************************************************************************)
(* detectFavicon: the icon of a whole content, none without a directory,   *)
(* either of the two when files are disappearing under the scan.           *)
(***************************************************************************)
DetectFavicon(d) ==
  IF d = NoDir THEN {NoIcon} ELSE IF d.torn THEN {NoIcon, d.c} ELSE {d.c}

(***************************************************************************)
(* The job of a process: where it stands (pc), for which operation and     *)
(* site, and its locals.                                                   *)
(***************************************************************************)
PCs == {"idle", "stat", "rbstat", "stamp", "archive", "prune", "drop", "clear",
        "movein", "measure", "upsert", "touch", "reread", "resize", "detect",
        "compare", "icon", "qstat", "qclear", "qmove", "qcheck", "wipe",
        "delete"}

(* What the operations read on a best-effort basis.                        *)
Reads == {"size", "icon"}

Job == [pc     : PCs,
        op     : AllOps \union {"none", "reap"},
        site   : Sites \union {NoSite},
        stage  : AnyDir,          \* .tmp/<random>, private to the process
        src    : Nat,             \* the stamp Rollback has chosen
        name   : Nat,             \* the stamp archiveVersion has taken
        size   : Sized,           \* what dirSize returned
        icon   : Contents \union {NoIcon},
        doomed : SUBSET Nat,      \* the stamps pruneVersions will remove
        missed : SUBSET Reads]    \* history: what it has failed to read

Idle == [pc |-> "idle", op |-> "none", site |-> NoSite, stage |-> NoDir,
         src |-> 0, name |-> 0, size |-> {}, icon |-> NoIcon, doomed |-> {},
         missed |-> {}]

Goto(p, l) == job' = [job EXCEPT ![p].pc = l]
Done(p)    == job' = [job EXCEPT ![p] = Idle]
At(p, l)   == job[p].pc = l

AllIdle == \A p \in Procs : At(p, "idle")
MayStart(p) == At(p, "idle") /\ (Serial => AllIdle)

Init ==
  /\ reg     = [s \in Sites |-> "none"]
  /\ expired = [s \in Sites |-> FALSE]
  /\ size    = [s \in Sites |-> {}]
  /\ icon    = [s \in Sites |-> NoIcon]
  /\ live    = [s \in Sites |-> NoDir]
  /\ quar    = [s \in Sites |-> NoDir]
  /\ vers    = [s \in Sites |-> {}]
  /\ stamp   = 1
  /\ job     = [p \in Procs |-> Idle]
  /\ todo    = {}

-----------------------------------------------------------------------------
(* The registry: one statement of internal/store each. A statement whose   *)
(* WHERE matches no row is ErrNotFound or has no effect.                   *)

(* UPDATE ... SET deleted_at=now WHERE deleted_at IS NULL.                 *)
SoftDeleteSite(s) ==
  /\ reg[s] = "live"
  /\ reg'     = [reg EXCEPT ![s] = "deleted"]
  /\ expired' = [expired EXCEPT ![s] = FALSE]
  /\ UNCHANGED <<size, icon>>

(* UPDATE ... SET deleted_at=NULL WHERE deleted_at IS NOT NULL.            *)
RestoreSite(s) ==
  /\ reg[s] = "deleted"
  /\ reg'     = [reg EXCEPT ![s] = "live"]
  /\ expired' = [expired EXCEPT ![s] = FALSE]
  /\ UNCHANGED <<size, icon>>

(* DELETE, whatever the state of the row: its columns go with it.          *)
HardDeleteSite(s) ==
  /\ reg'     = [reg EXCEPT ![s] = "none"]
  /\ expired' = [expired EXCEPT ![s] = FALSE]
  /\ size'    = [size EXCEPT ![s] = {}]
  /\ icon'    = [icon EXCEPT ![s] = NoIcon]

(* DELETE ... WHERE deleted_at IS NOT NULL.                                *)
PurgeDeletedSite(s) == reg[s] = "deleted" /\ HardDeleteSite(s)

(* Mutant: the conflict clause does not set the size.                      *)
UpsertKeepsSize(s, n) ==
  /\ reg'     = [reg EXCEPT ![s] = "live"]
  /\ expired' = [expired EXCEPT ![s] = FALSE]
  /\ size'    = [size EXCEPT ![s] = IF reg[s] = "none" THEN n ELSE @]
  /\ UNCHANGED icon

(* Insert, or update with deleted_at=NULL. The favicon column is not among *)
(* those it writes.                                                        *)
UpsertSite(s, n) ==
  /\ reg'     = [reg EXCEPT ![s] = "live"]
  /\ expired' = [expired EXCEPT ![s] = FALSE]
  /\ size'    = [size EXCEPT ![s] = n]
  /\ UNCHANGED icon

(* UPDATE ... SET deleted_at=NULL of an existing row.                      *)
UpsertSiteTouch(s) ==
  /\ reg'     = [reg EXCEPT ![s] = IF @ = "none" THEN @ ELSE "live"]
  /\ expired' = [expired EXCEPT ![s] = FALSE]
  /\ UNCHANGED <<size, icon>>

SetSiteSize(s, n) ==
  /\ size' = [size EXCEPT ![s] = IF reg[s] = "none" THEN @ ELSE n]
  /\ UNCHANGED <<reg, expired, icon>>

SetSiteFavicon(s, i) ==
  /\ icon' = [icon EXCEPT ![s] = IF reg[s] = "none" THEN @ ELSE i]
  /\ UNCHANGED <<reg, expired, size>>

GetSiteFavicon(s) == IF reg[s] = "live" THEN icon[s] ELSE NoIcon

(* ListDeletedBefore(now - TTL).                                           *)
Expired == {s \in Sites : reg[s] = "deleted" /\ expired[s]}

-----------------------------------------------------------------------------
(* Requests. Each begins with the first call of the operation that others  *)
(* can see: a request refused by it leaves no trace and is not a step.      *)

CanArchive == stamp < MaxStamp

(* Publish up to the validated stage: extraction writes only to a private  *)
(* directory.                                                              *)
BeginPublish(w, s, c) ==
  /\ "publish" \in Ops /\ MayStart(w) /\ CanArchive
  /\ job' = [job EXCEPT ![w] = [Idle EXCEPT !.pc = "stat", !.op = "publish",
                                            !.site = s, !.stage = Whole(c)]]
  /\ UNCHANGED <<registry, disk, todo>>

(* RollbackTo up to the staged copy of the named revision, as whole or as  *)
(* torn as the directory it was copied from.                               *)
BeginRollbackTo(w, s, v) ==
  /\ "rollbackTo" \in Ops /\ Versioning /\ MayStart(w) /\ CanArchive
  /\ v \in vers[s]
  /\ job' = [job EXCEPT ![w] = [Idle EXCEPT !.pc = "stat",
                                            !.op = "rollbackTo",
                                            !.site = s, !.stage = v.dir]]
  /\ UNCHANGED <<registry, disk, todo>>

IsNewest(v, V) == \A u \in V : u.stamp <= v.stamp

BeginRollback(w, s, v) ==
  /\ "rollback" \in Ops /\ Versioning /\ MayStart(w) /\ CanArchive
  /\ v \in vers[s] /\ IsNewest(v, vers[s])
  /\ job' = [job EXCEPT ![w] = [Idle EXCEPT !.pc = "rbstat",
                                            !.op = "rollback",
                                            !.site = s, !.src = v.stamp]]
  /\ UNCHANGED <<registry, disk, todo>>

BeginUnpublish(w, s) ==
  /\ "unpublish" \in Ops /\ MayStart(w)
  /\ SoftDeleteSite(s)
  /\ job' = [job EXCEPT ![w] = [Idle EXCEPT !.pc = "qstat",
                                            !.op = "unpublish", !.site = s]]
  /\ UNCHANGED <<disk, todo>>

BeginRestore(w, s) ==
  /\ "restore" \in Ops /\ MayStart(w)
  /\ RestoreSite(s)
  /\ job' = [job EXCEPT ![w] = [Idle EXCEPT !.pc = "qcheck",
                                            !.op = "restore", !.site = s]]
  /\ UNCHANGED <<disk, todo>>

(* Mutant: DELETE FROM sites without "deleted_at IS NOT NULL".             *)
BeginPurgeAny(w, s) ==
  /\ "purge" \in Ops /\ MayStart(w)
  /\ reg[s] # "none" /\ HardDeleteSite(s)
  /\ job' = [job EXCEPT ![w] = [Idle EXCEPT !.pc = "wipe",
                                            !.op = "purge", !.site = s]]
  /\ UNCHANGED <<disk, todo>>

BeginPurge(w, s) ==
  /\ "purge" \in Ops /\ MayStart(w)
  /\ PurgeDeletedSite(s)
  /\ job' = [job EXCEPT ![w] = [Idle EXCEPT !.pc = "wipe",
                                            !.op = "purge", !.site = s]]
  /\ UNCHANGED <<disk, todo>>

(* One site of the backfill-favicons command: it lists the live rows.      *)
BeginFavicons(w, s) ==
  /\ "favicons" \in Ops /\ MayStart(w)
  /\ reg[s] = "live"
  /\ job' = [job EXCEPT ![w] = [Idle EXCEPT !.pc = "detect",
                                            !.op = "favicons", !.site = s]]
  /\ UNCHANGED <<registry, disk, todo>>

Begin(w) ==
  \E s \in Sites :
    \/ \E c \in Contents : BeginPublish(w, s, c)
    \/ \E v \in vers[s] : BeginRollbackTo(w, s, v)
    \/ \E v \in vers[s] : BeginRollback(w, s, v)
    \/ BeginUnpublish(w, s)
    \/ BeginRestore(w, s)
    \/ BeginPurge(w, s)
    \/ BeginFavicons(w, s)

-----------------------------------------------------------------------------
(* swap, archiveVersion and pruneVersions.                                 *)

(* Mutant: swap never looks at VersioningEnabled.                          *)
StatAlwaysClears(w) ==
  LET s == job[w].site
  IN  /\ At(w, "stat") \/ At(w, "rbstat")
      /\ Goto(w, IF live[s] = NoDir THEN "movein" ELSE "clear")
      /\ UNCHANGED <<registry, disk, todo>>

(* os.Stat(live) in swap (Publish, RollbackTo) and in Rollback.            *)
Stat(w) ==
  LET s == job[w].site
      displace == IF Versioning THEN "stamp" ELSE "clear"
  IN  /\ At(w, "stat") \/ At(w, "rbstat")
      /\ Goto(w, IF live[s] = NoDir THEN "movein" ELSE displace)
      /\ UNCHANGED <<registry, disk, todo>>

(* time.Now() in archiveVersion. Another process may archive between this  *)
(* and the rename, so stamps are not always in the order of the renames.   *)
TakeStamp(w) ==
  /\ At(w, "stamp")
  /\ stamp' = stamp + 1
  /\ job' = [job EXCEPT ![w].pc = "archive", ![w].name = stamp]
  /\ UNCHANGED <<registry, live, quar, vers, todo>>

(* Rename(live, versions/<name>): fails when live has meanwhile gone.      *)
Archive(w) ==
  LET s == job[w].site
  IN  /\ At(w, "archive")
      /\ \/ /\ live[s] # NoDir
            /\ vers' = [vers EXCEPT ![s] =
                          @ \union {[stamp |-> job[w].name, dir |-> live[s]]}]
            /\ live' = [live EXCEPT ![s] = NoDir]
            /\ job' = [job EXCEPT ![w].pc = "prune", ![w].name = 0]
         \/ /\ live[s] = NoDir
            /\ Done(w)
            /\ UNCHANGED <<live, vers>>
      /\ UNCHANGED <<registry, quar, stamp, todo>>

Newer(v, V)  == {u \in V : u.stamp > v.stamp}

(* Mutants: keeps one version too few; keeps one too many; sorts the       *)
(* versions the wrong way round.                                           *)
SuperfluousEarly(V) ==
  {v.stamp : v \in {x \in V : Cardinality(Newer(x, V)) >= Keep - 1}}
SuperfluousLate(V) ==
  {v.stamp : v \in {x \in V : Cardinality(Newer(x, V)) > Keep}}
SuperfluousNewest(V) ==
  {v.stamp : v \in {x \in V : Cardinality(V \ Newer(x, V)) > Keep}}

(* All but the Keep newest of the listed versions.                         *)
Superfluous(V) ==
  {v.stamp : v \in {x \in V : Cardinality(Newer(x, V)) >= Keep}}

Prune(w) ==
  LET s == job[w].site
  IN  /\ At(w, "prune")
      /\ job' = [job EXCEPT ![w].pc = "drop",
                            ![w].doomed = Superfluous(vers[s])]
      /\ UNCHANGED <<registry, disk, todo>>

Oldest(D) == {m \in D : \A n \in D : m <= n}

(* Mutants: having nothing to drop ends the operation; the loop never      *)
(* advances to the next version.                                           *)
DropThenStop(w) ==
  LET s == job[w].site
      d == job[w].doomed
  IN  /\ At(w, "drop")
      /\ \/ d = {} /\ Done(w) /\ UNCHANGED vers
         \/ \E m \in Oldest(d) :
              /\ vers' = [vers EXCEPT ![s] = {v \in @ : v.stamp # m}]
              /\ job' = [job EXCEPT ![w].doomed = @ \ {m}]
      /\ UNCHANGED <<registry, live, quar, stamp, todo>>
DropForever(w) ==
  LET s == job[w].site
      d == job[w].doomed
  IN  /\ At(w, "drop")
      /\ \/ d = {} /\ Goto(w, "movein") /\ UNCHANGED vers
         \/ \E m \in Oldest(d) :
              /\ vers' = [vers EXCEPT ![s] = {v \in @ : v.stamp # m}]
              /\ UNCHANGED job
      /\ UNCHANGED <<registry, live, quar, stamp, todo>>

(* RemoveAll of the oldest listed version; it is no error that another     *)
(* process has removed it or moved it away.                                *)
Drop(w) ==
  LET s == job[w].site
      d == job[w].doomed
  IN  /\ At(w, "drop")
      /\ \/ d = {} /\ Goto(w, "movein") /\ UNCHANGED vers
         \/ \E m \in Oldest(d) :
              /\ vers' = [vers EXCEPT ![s] = {v \in @ : v.stamp # m}]
              /\ job' = [job EXCEPT ![w].doomed = @ \ {m}]
      /\ UNCHANGED <<registry, live, quar, stamp, todo>>

(* RemoveAll(live): Publish without versioning, and Restore.               *)
Clear(w) ==
  LET s == job[w].site
  IN  /\ At(w, "clear")
      /\ live' = [live EXCEPT ![s] = NoDir]
      /\ Goto(w, "movein")
      /\ UNCHANGED <<registry, quar, vers, stamp, todo>>

(* Mutant: a move that replaces whatever another process has put there.    *)
SwapInOverwrites(w) ==
  LET s == job[w].site
  IN  /\ At(w, "movein") /\ job[w].op \in {"publish", "rollbackTo"}
      /\ live' = [live EXCEPT ![s] = job[w].stage]
      /\ job' = [job EXCEPT ![w].stage = NoDir,
                            ![w].pc = IF job[w].op = "publish"
                                      THEN "measure" ELSE "touch"]
      /\ UNCHANGED <<registry, quar, vers, stamp, todo>>

(* Rename(stage, live) fails when another process has filled live.         *)
SwapIn(w) ==
  LET s == job[w].site
  IN  /\ At(w, "movein") /\ job[w].op \in {"publish", "rollbackTo"}
      /\ \/ /\ live[s] = NoDir
            /\ live' = [live EXCEPT ![s] = job[w].stage]
            /\ job' = [job EXCEPT ![w].stage = NoDir,
                                  ![w].pc = IF job[w].op = "publish"
                                            THEN "measure" ELSE "touch"]
         \/ /\ live[s] # NoDir
            /\ Done(w)
            /\ UNCHANGED live
      /\ UNCHANGED <<registry, quar, vers, stamp, todo>>

(* Mutant: the chosen version is copied and stays in the history.          *)
RollbackInCopies(w) ==
  LET s == job[w].site
  IN  /\ At(w, "movein") /\ job[w].op = "rollback"
      /\ \/ \E v \in vers[s] :
              /\ v.stamp = job[w].src /\ live[s] = NoDir
              /\ live' = [live EXCEPT ![s] = v.dir]
              /\ Goto(w, "touch")
         \/ /\ live[s] # NoDir \/ \A v \in vers[s] : v.stamp # job[w].src
            /\ Done(w)
            /\ UNCHANGED live
      /\ UNCHANGED <<registry, quar, vers, stamp, todo>>

(* Rename(versions/<src>, live): moves the chosen version out of the       *)
(* history; fails when that version is gone or live is filled.             *)
RollbackIn(w) ==
  LET s == job[w].site
  IN  /\ At(w, "movein") /\ job[w].op = "rollback"
      /\ \/ \E v \in vers[s] :
              /\ v.stamp = job[w].src /\ live[s] = NoDir
              /\ live' = [live EXCEPT ![s] = v.dir]
              /\ vers' = [vers EXCEPT ![s] = @ \ {v}]
              /\ Goto(w, "touch")
         \/ /\ live[s] # NoDir \/ \A v \in vers[s] : v.stamp # job[w].src
            /\ Done(w)
            /\ UNCHANGED <<live, vers>>
      /\ UNCHANGED <<registry, quar, stamp, todo>>

-----------------------------------------------------------------------------
(* The registry half of Publish, RollbackTo and Rollback.                  *)

(* size, _ := dirSize(live): n is what it returns, with or without error.  *)
TakeSize(w, n, failed) ==
  job' = [job EXCEPT ![w].size = n, ![w].missed = @ \union failed,
                     ![w].pc = IF job[w].op = "publish"
                               THEN "upsert" ELSE "resize"]

MeasureLive(w) ==
  /\ At(w, "measure")
  /\ TakeSize(w, Measure({job[w].site}), {})
  /\ UNCHANGED <<registry, disk, todo>>

(* UpsertSite, with the size measured the step before.                     *)
Upsert(w) ==
  /\ At(w, "upsert")
  /\ UpsertSite(job[w].site, job[w].size)
  /\ job' = [job EXCEPT ![w].pc = "reread", ![w].size = {}]
  /\ UNCHANGED <<disk, todo>>

Touch(w) ==
  /\ At(w, "touch")
  /\ UpsertSiteTouch(job[w].site)
  /\ Goto(w, "reread")
  /\ UNCHANGED <<disk, todo>>

(* GetSite, with which UpsertSite and UpsertSiteTouch end: a row that does *)
(* not exist, or that another process has deleted since, is ErrNotFound,   *)
(* and the operation ends with its files already moved.                    *)
Reread(w) ==
  /\ At(w, "reread")
  /\ IF reg[job[w].site] = "live"
     THEN Goto(w, IF job[w].op = "publish" THEN "detect" ELSE "measure")
     ELSE Done(w)
  /\ UNCHANGED <<registry, disk, todo>>

(* Mutant: Rollback forgets SetSiteSize.                                   *)
ResizeForgotten(w) ==
  /\ At(w, "resize")
  /\ IF job[w].op = "rollback"
     THEN job' = [job EXCEPT ![w].pc = "detect", ![w].size = {}]
     ELSE Done(w)
  /\ UNCHANGED <<registry, disk, todo>>

(* SetSiteSize: the end of RollbackTo; Rollback goes on to the favicon.    *)
Resize(w) ==
  /\ At(w, "resize")
  /\ SetSiteSize(job[w].site, job[w].size)
  /\ IF job[w].op = "rollback"
     THEN job' = [job EXCEPT ![w].pc = "detect", ![w].size = {}]
     ELSE Done(w)
  /\ UNCHANGED <<disk, todo>>

(* data, ct := detectFavicon(live): it has no error to return.             *)
TakeIcon(w, i, failed) ==
  job' = [job EXCEPT ![w].icon = i, ![w].missed = @ \union failed,
                     ![w].pc = IF job[w].op = "favicons"
                               THEN "compare" ELSE "icon"]

Detect(w) ==
  /\ At(w, "detect")
  /\ \E i \in DetectFavicon(live[job[w].site]) : TakeIcon(w, i, {})
  /\ UNCHANGED <<registry, disk, todo>>

(* BackfillFavicons writes only what differs from GetSiteFavicon, which    *)
(* finds nothing unless the row is live.                                   *)
Compare(w) ==
  /\ At(w, "compare")
  /\ IF GetSiteFavicon(job[w].site) = job[w].icon
     THEN Done(w) ELSE Goto(w, "icon")
  /\ UNCHANGED <<registry, disk, todo>>

(* SetSiteFavicon, the last call of Publish, Rollback and the backfill.    *)
SetIcon(w) ==
  /\ At(w, "icon")
  /\ SetSiteFavicon(job[w].site, job[w].icon)
  /\ Done(w)
  /\ UNCHANGED <<disk, todo>>

-----------------------------------------------------------------------------
(* Quarantine: Unpublish, Restore, Purge and the purge loop.               *)

(* Stat(live) in Unpublish.                                                *)
QStat(w) ==
  /\ At(w, "qstat")
  /\ IF live[job[w].site] = NoDir THEN Done(w) ELSE Goto(w, "qclear")
  /\ UNCHANGED <<registry, disk, todo>>

(* Mutant: removes the live directory instead of the old quarantine.       *)
QClearLive(w) ==
  /\ At(w, "qclear")
  /\ live' = [live EXCEPT ![job[w].site] = NoDir]
  /\ Goto(w, "qmove")
  /\ UNCHANGED <<registry, quar, vers, stamp, todo>>

(* RemoveAll of a prior quarantine entry in Unpublish.                     *)
QClear(w) ==
  /\ At(w, "qclear")
  /\ quar' = [quar EXCEPT ![job[w].site] = NoDir]
  /\ Goto(w, "qmove")
  /\ UNCHANGED <<registry, live, vers, stamp, todo>>

(* Rename(live, quarantine), the last step of Unpublish.                   *)
QMove(w) ==
  LET s == job[w].site
  IN  /\ At(w, "qmove")
      /\ IF live[s] # NoDir /\ quar[s] = NoDir
         THEN /\ quar' = [quar EXCEPT ![s] = live[s]]
              /\ live' = [live EXCEPT ![s] = NoDir]
         ELSE UNCHANGED <<live, quar>>
      /\ Done(w)
      /\ UNCHANGED <<registry, vers, stamp, todo>>

(* Stat(quarantine) in Restore.                                            *)
QCheck(w) ==
  /\ At(w, "qcheck")
  /\ IF quar[job[w].site] = NoDir THEN Done(w) ELSE Goto(w, "clear")
  /\ UNCHANGED <<registry, disk, todo>>

(* Rename(quarantine, live), the last step of Restore.                     *)
RestoreIn(w) ==
  LET s == job[w].site
  IN  /\ At(w, "movein") /\ job[w].op = "restore"
      /\ IF quar[s] # NoDir /\ live[s] = NoDir
         THEN /\ live' = [live EXCEPT ![s] = quar[s]]
              /\ quar' = [quar EXCEPT ![s] = NoDir]
         ELSE UNCHANGED <<live, quar>>
      /\ Done(w)
      /\ UNCHANGED <<registry, vers, stamp, todo>>

(* Mutant: the loop runs one site past the end of the list.                *)
AdvancePastEnd(p, rest) ==
  LET following == IF rest = {} THEN NoSite ELSE CHOOSE s \in rest : TRUE
  IN  job' = [job EXCEPT ![p] = [Idle EXCEPT !.pc = "wipe", !.op = "reap",
                                             !.site = following]]

(* The next listed site of PurgeDeleted, or the end of the cycle.          *)
Advance(p, rest) ==
  IF rest = {}
  THEN Done(p)
  ELSE \E s \in rest :
         job' = [job EXCEPT ![p] = [Idle EXCEPT !.pc = "wipe", !.op = "reap",
                                                !.site = s]]

(* ListDeletedBefore: the snapshot PurgeDeleted works through.             *)
BeginReap ==
  /\ MayStart(Janitor) /\ Expired # {}
  /\ todo' = Expired
  /\ Advance(Janitor, Expired)
  /\ UNCHANGED <<registry, disk>>

(* Mutant: PurgeDeleted removes the files and leaves the row.              *)
WipeOnly(p) ==
  /\ At(p, "wipe")
  /\ quar' = [quar EXCEPT ![job[p].site] = NoDir]
  /\ Done(p)
  /\ UNCHANGED <<registry, live, vers, stamp, todo>>

(* RemoveAll(quarantine) in Purge and in PurgeDeleted.                     *)
Wipe(p) ==
  LET s == job[p].site
  IN  /\ At(p, "wipe")
      /\ quar' = [quar EXCEPT ![s] = NoDir]
      /\ IF job[p].op = "reap" THEN Goto(p, "delete") ELSE Done(p)
      /\ UNCHANGED <<registry, live, vers, stamp, todo>>

(* DeleteSite: deletes the row whatever has become of it since the list.   *)
DeleteSite ==
  LET s == job[Janitor].site
  IN  /\ At(Janitor, "delete")
      /\ HardDeleteSite(s)
      /\ todo' = todo \ {s}
      /\ Advance(Janitor, todo \ {s})
      /\ UNCHANGED disk

-----------------------------------------------------------------------------
(* The environment: time, partial deletion, failing calls, restarts.       *)

(* The retention TTL of a site in the trash runs out.                      *)
Expire(s) ==
  /\ reg[s] = "deleted" /\ ~expired[s]
  /\ expired' = [expired EXCEPT ![s] = TRUE]
  /\ UNCHANGED <<reg, size, icon, disk, job, todo>>

(* A RemoveAll in progress has deleted some files of its directory.        *)
Tear(p) ==
  LET s == job[p].site
  IN  /\ \/ /\ At(p, "clear") /\ live[s] # NoDir
            /\ live' = [live EXCEPT ![s] = TornDir(@)]
            /\ UNCHANGED <<quar, vers>>
         \/ /\ At(p, "qclear") \/ At(p, "wipe")
            /\ quar[s] # NoDir
            /\ quar' = [quar EXCEPT ![s] = TornDir(@)]
            /\ UNCHANGED <<live, vers>>
         \/ /\ At(p, "drop")
            /\ \E m \in Oldest(job[p].doomed) :
                 vers' = [vers EXCEPT ![s] =
                   {IF v.stamp = m THEN [v EXCEPT !.dir = TornDir(@)] ELSE v :
                      v \in @}]
            /\ UNCHANGED <<live, quar>>
      /\ UNCHANGED <<registry, stamp, job, todo>>

(* A call fails (full disk, I/O error, the client's context is cancelled)  *)
(* and the operation ends: with the error, or, where that is dropped at    *)
(* the last call (SetSiteFavicon of Publish, Stat of Unpublish and Restore,*)
(* RemoveAll of Purge), as if it had done its work.                        *)
Aborted(p) ==
  /\ job[p].op # "reap" /\ job[p].pc \notin {"rbstat", "measure", "detect"}
  /\ Done(p)

(* What dirSize and detectFavicon return when they fail part of the way:   *)
(* the bytes counted so far, and no icon or one less preferred.            *)
PartSize(s) == {{}} \union {{<<s, TornDir(d)>>} : d \in {live[s]} \ {NoDir}}
PartIcon(s) ==
  {NoIcon} \union {d.c : d \in {live[s]} \ {NoDir}}

(* A call fails and the operation goes on: it takes a live directory it    *)
(* cannot stat for none, ignores that RemoveAll failed in Restore, in      *)
(* Unpublish and in the purge loop, and takes a size or an icon it could   *)
(* not read in full for what there is.                                     *)
Overlooked(p) ==
  LET s == job[p].site
  IN  \/ /\ \/ At(p, "stat") \/ At(p, "rbstat")
            \/ At(p, "clear") /\ job[p].op = "restore"
         /\ Goto(p, "movein")
      \/ At(p, "qclear") /\ Goto(p, "qmove")
      \/ At(p, "wipe") /\ job[p].op = "reap" /\ Goto(p, "delete")
      \/ At(p, "measure") /\ \E n \in PartSize(s) : TakeSize(p, n, {"size"})
      \/ At(p, "detect") /\ \E i \in PartIcon(s) : TakeIcon(p, i, {"icon"})

(* The purge loop ignores errors and goes on to the next site.             *)
Fail(p) ==
  /\ Faults /\ ~At(p, "idle")
  /\ \/ Aborted(p) /\ UNCHANGED todo
     \/ Overlooked(p) /\ UNCHANGED todo
     \/ /\ At(p, "delete")
        /\ todo' = todo \ {job[p].site}
        /\ Advance(p, todo \ {job[p].site})
  /\ UNCHANGED <<registry, disk>>

(* BackfillSizes walks sp.Dir(), which holds the nested sites too. A site  *)
(* without files keeps its size, or gets 0 if its empty directory remains. *)
(* A site whose walk fails is skipped; a failing statement ends the        *)
(* backfill, which serve.go only logs.                                     *)
BackfillSizes(left, skipped) ==
  size' = [s \in Sites |->
             IF /\ reg[s] = "live" /\ s \notin skipped
                /\ Measure(Below[s]) # {} \/ s \in left
             THEN Measure(Below[s]) ELSE size[s]]

(* The process stops, with its operations wherever they were if it         *)
(* crashes, and starts again.                                              *)
Restart ==
  /\ Faults \/ AllIdle
  /\ \E left, skipped \in SUBSET Sites :
       (skipped = {} \/ Faults) /\ BackfillSizes(left, skipped)
  /\ job' = [p \in Procs |-> Idle]
  /\ todo' = {}
  /\ UNCHANGED <<reg, expired, icon, disk>>

-----------------------------------------------------------------------------
WorkerStep(w) ==
  \/ Stat(w) \/ TakeStamp(w) \/ Archive(w) \/ Prune(w) \/ Drop(w) \/ Clear(w)
  \/ SwapIn(w) \/ RollbackIn(w) \/ RestoreIn(w)
  \/ MeasureLive(w) \/ Upsert(w) \/ Touch(w) \/ Reread(w) \/ Resize(w)
  \/ Detect(w) \/ Compare(w) \/ SetIcon(w)
  \/ QStat(w) \/ QClear(w) \/ QMove(w) \/ QCheck(w) \/ Wipe(w)

JanitorStep == BeginReap \/ Wipe(Janitor) \/ DeleteSite

Next ==
  \/ \E w \in Workers : Begin(w) \/ WorkerStep(w)
  \/ JanitorStep
  \/ \E s \in Sites : Expire(s)
  \/ \E p \in Procs : Tear(p) \/ Fail(p)
  \/ Restart

Spec == Init /\ [][Next]_vars

-----------------------------------------------------------------------------
(* Properties.                                                             *)

RegistryOK ==
  /\ reg \in [Sites -> {"none", "live", "deleted"}]
  /\ expired \in [Sites -> BOOLEAN]
  /\ size \in [Sites -> Sized]
  /\ icon \in [Sites -> Contents \union {NoIcon}]

DiskOK ==
  /\ live \in [Sites -> AnyDir]
  /\ quar \in [Sites -> AnyDir]
  /\ vers \in [Sites -> SUBSET Version]
  /\ stamp \in Nat

JobsOK ==
  /\ job \in [Procs -> Job]
  /\ todo \subseteq Sites
  /\ \A p \in Procs : ~At(p, "idle") => job[p].site \in Sites

(* Every variable stays within its type, and a busy process names a site.  *)
TypeOK == RegistryOK /\ DiskOK /\ JobsOK

Exact(s, d) == d # NoDir /\ ~d.torn /\ size[s] = {<<s, d>>}

(* When operations do not overlap and none fails, between two of them the  *)
(* registry and the disk tell the same story: a listed site is served,     *)
(* whole, with the size the row says; a trashed site is not served and its *)
(* whole content waits in quarantine.                                      *)
SerialConsistency ==
  AllIdle => \A s \in Sites :
    /\ reg[s] = "live" => Exact(s, live[s])
    /\ reg[s] = "deleted" => live[s] = NoDir /\ Exact(s, quar[s])

(* "A site is never served half-written": no visitor finds a site with     *)
(* some of its files missing.                                              *)
NeverServedTorn == \A s \in Sites : live[s] # NoDir => ~live[s].torn

(* Pruning drops a version only when Keep newer ones remain.               *)
PruneKeepsNewest ==
  [][\A s \in Sites : \A v \in vers[s] \ vers'[s] :
       \/ live'[s] = v.dir
       \/ Cardinality(Newer(v, vers[s])) >= Keep]_vars

(* Content on display is only ever moved, never overwritten or deleted:    *)
(* when it leaves the live directory it is in the history or in quarantine.*)
NothingOverwritten ==
  [][\A s \in Sites :
       live[s] # NoDir /\ live'[s] # live[s]
         => live[s] \in {v.dir : v \in vers'[s]} \union {quar'[s]}]_vars

(* No step takes the row of a listed site away: purging is for the trash.  *)
LiveRowNeverDropped ==
  [][\A s \in Sites : reg[s] = "live" => reg'[s] # "none"]_vars

(* Publish returns success once it has reached its last call, whether or   *)
(* not that call fails.                                                    *)
Succeeds(w) ==
  job[w].op = "publish" /\ At(w, "icon") /\ (SetIcon(w) \/ Fail(w))

(* A publish that reports success has the new files online, whole, and     *)
(* their row listed. Its size and favicon are those of the new files       *)
(* whatever earlier failures had left in the row, except for what this     *)
(* very publish could not read or write, as it drops those errors          *)
(* ("Best-effort"): then the size counts some of the new files, and never  *)
(* old ones, and the favicon is missing or of the new files.               *)
PublishSettles ==
  [][\A w \in Workers : Succeeds(w) =>
       LET s == job[w].site
           d == live'[s]
       IN  /\ reg'[s] = "live" /\ d # NoDir /\ ~d.torn
           /\ size'[s] \subseteq {<<s, d>>, <<s, TornDir(d)>>}
           /\ "size" \notin job[w].missed => size'[s] = {<<s, d>>}
           /\ SetIcon(w) => icon'[s] \in {NoIcon, d.c}
           /\ SetIcon(w) /\ "icon" \notin job[w].missed
                => icon'[s] = d.c]_vars

(* A process that has displaced a live directory and not yet moved the     *)
(* replacement in.                                                         *)
Replacing(w, s) ==
  /\ job[w].site = s /\ job[w].op \in {"publish", "rollbackTo"}
  /\ job[w].pc \in {"prune", "drop", "movein"}

(* However many publishes and rollbacks to a revision race on one site, a  *)
(* listed site is online or one of them is about to bring it online.       *)
SwapKeepsSiteOnline ==
  \A s \in Sites :
    reg[s] = "live" => \/ live[s] # NoDir
                       \/ \E w \in Workers : Replacing(w, s)

Pruning(s) ==
  {w \in Workers : job[w].site = s /\ job[w].pc \in {"prune", "drop"}}

(* The history exceeds Keep by no more than the number of processes that   *)
(* have archived a version and not finished pruning.                       *)
VersionsBounded ==
  \A s \in Sites : Cardinality(vers[s]) <= Keep + Cardinality(Pruning(s))

(* With versioning on, however publishes and rollbacks to a revision race  *)
(* and wherever they fail or the process dies, a listed site still has     *)
(* files: on display, or in its history for a rollback to bring back.      *)
FilesSurvive ==
  \A s \in Sites : reg[s] = "live" => live[s] # NoDir \/ vers[s] # {}

(* "The current live content is archived first, so the action is itself    *)
(* reversible": after a rollback, as between any two operations, a listed  *)
(* site is online.                                                         *)
RollbackStaysOnline ==
  AllIdle => \A s \in Sites : reg[s] = "live" => live[s] # NoDir

(* "Recomputes and stores the content size for every live site": the size  *)
(* of a listed site is that of its own files.                              *)
SizeIsOwn ==
  AllIdle => \A s \in Sites :
    reg[s] = "live" /\ live[s] # NoDir => size[s] = {<<s, live[s]>>}

(* The purge loop gets to every site whose retention has run out, unless   *)
(* the site leaves the trash first.                                        *)
TrashIsPurged == \A s \in Sites : (s \in Expired) ~> (s \notin Expired)

(* Every request gets its answer.                                          *)
RequestsFinish == \A w \in Workers : ~At(w, "idle") ~> At(w, "idle")

FairSpec == /\ Spec
            /\ WF_vars(JanitorStep)
            /\ \A w \in Workers : WF_vars(WorkerStep(w))
=============================================================================
