--------------------------- MODULE PublisherProofs ---------------------------
(***************************************************************************)
(* What holds of Publisher for every number of sites, contents and         *)
(* workers, every Keep, and every choice of operations and faults that the *)
(* theorem names: its types, its control flow, what keeps a site's files,  *)
(* and what becomes of the history of its versions, for any number of      *)
(* processes working on the same site at once, with no lock between them.  *)
(***************************************************************************)
EXTENDS Publisher, FiniteSetTheorems, TLAPS

-----------------------------------------------------------------------------
(* Jobs.                                                                   *)

(* The job of a process that has nothing to do is a job.                   *)
LEMMA IdleIsJob == Idle \in Job
BY DEF Idle, Job, PCs, AnyDir, Sized

(* A busy process has a job on a site.                                     *)
LEMMA BusyJob ==
  ASSUME JobsOK, NEW p \in Procs, ~At(p, "idle")
  PROVE  job[p] \in Job /\ job[p].site \in Sites
BY DEF JobsOK

(* Moving a process to another control point keeps the jobs well-typed.    *)
LEMMA GotoKeepsJobs ==
  ASSUME JobsOK, NEW p \in Procs, ~At(p, "idle"), NEW l \in PCs,
         Goto(p, l), todo' \subseteq Sites
  PROVE  JobsOK'
BY DEF JobsOK, Goto, At, Job

(* So does ending an operation.                                            *)
LEMMA DoneKeepsJobs ==
  ASSUME JobsOK, NEW p \in Procs, Done(p), todo' \subseteq Sites
  PROVE  JobsOK'
BY IdleIsJob DEF JobsOK, Done, At, Idle

(* A step that gives process p a new job, on some site.                    *)
LEMMA NewJobKeepsJobs ==
  ASSUME JobsOK, NEW p \in Procs, NEW j \in Job, j.site \in Sites,
         job' = [job EXCEPT ![p] = j], todo' \subseteq Sites
  PROVE  JobsOK'
BY DEF JobsOK, At

(* The purge loop stays well-typed from one listed site to the next.       *)
LEMMA AdvanceKeepsJobs ==
  ASSUME JobsOK, NEW p \in Procs, NEW rest \in SUBSET Sites,
         Advance(p, rest), todo' \subseteq Sites
  PROVE  JobsOK'
<1>1. CASE rest = {}
  BY <1>1, DoneKeepsJobs DEF Advance
<1>2. CASE rest # {}
  <2>1. PICK s \in rest :
          job' = [job EXCEPT ![p] = [Idle EXCEPT !.pc = "wipe", !.op = "reap",
                                                 !.site = s]]
    BY <1>2 DEF Advance
  <2> DEFINE j == [Idle EXCEPT !.pc = "wipe", !.op = "reap", !.site = s]
  <2>2. j \in Job /\ j.site \in Sites
    BY IdleIsJob DEF Job, PCs, Idle
  <2> HIDE DEF j
  <2> QED BY <2>1, <2>2, NewJobKeepsJobs DEF j
<1> QED BY <1>1, <1>2

-----------------------------------------------------------------------------
(* Type correctness.                                                       *)

(* Every request that begins keeps the types.                              *)
LEMMA BeginType ==
  ASSUME TypeOK, NEW w \in Workers, Begin(w)
  PROVE  TypeOK'
<1> USE IdleIsJob
<1>1. PICK s \in Sites :
        \/ \E c \in Contents : BeginPublish(w, s, c)
        \/ \E v \in vers[s] : BeginRollbackTo(w, s, v)
        \/ \E v \in vers[s] : BeginRollback(w, s, v)
        \/ BeginUnpublish(w, s)
        \/ BeginRestore(w, s)
        \/ BeginPurge(w, s)
        \/ BeginFavicons(w, s)
  BY DEF Begin
<1>2. w \in Procs
  BY DEF Procs
<1>3. RegistryOK' /\ DiskOK' /\ todo' \subseteq Sites
  BY <1>1 DEF TypeOK, RegistryOK, DiskOK, JobsOK, BeginPublish,
     BeginRollbackTo, BeginRollback, BeginUnpublish, BeginRestore, BeginPurge,
     BeginFavicons, Sized, registry, disk, SoftDeleteSite, RestoreSite,
     PurgeDeletedSite, HardDeleteSite
<1>4. \E j \in Job : j.site \in Sites /\ job' = [job EXCEPT ![w] = j]
  <2>1. CASE \E c \in Contents : BeginPublish(w, s, c)
    <3>1. PICK c \in Contents : BeginPublish(w, s, c)
      BY <2>1
    <3> DEFINE j == [Idle EXCEPT !.pc = "stat", !.op = "publish",
                                 !.site = s, !.stage = Whole(c)]
    <3>2. j \in Job /\ j.site \in Sites
      BY DEF Job, PCs, Idle, AllOps, AnyDir, Dir, Whole
    <3>3. job' = [job EXCEPT ![w] = j]
      BY <3>1 DEF BeginPublish
    <3> QED BY <3>2, <3>3
  <2>2. CASE \E v \in vers[s] : BeginRollbackTo(w, s, v)
    <3>1. PICK v \in vers[s] : BeginRollbackTo(w, s, v)
      BY <2>2
    <3> DEFINE j == [Idle EXCEPT !.pc = "stat", !.op = "rollbackTo",
                                 !.site = s, !.stage = v.dir]
    <3>2. v \in Version
      BY DEF TypeOK, DiskOK
    <3>3. j \in Job /\ j.site \in Sites
      BY <3>2 DEF Job, PCs, Idle, AllOps, AnyDir, Version
    <3>4. job' = [job EXCEPT ![w] = j]
      BY <3>1 DEF BeginRollbackTo
    <3> QED BY <3>3, <3>4
  <2>3. CASE \E v \in vers[s] : BeginRollback(w, s, v)
    <3>1. PICK v \in vers[s] : BeginRollback(w, s, v)
      BY <2>3
    <3> DEFINE j == [Idle EXCEPT !.pc = "rbstat", !.op = "rollback",
                                 !.site = s, !.src = v.stamp]
    <3>2. v \in Version
      BY DEF TypeOK, DiskOK
    <3>3. j \in Job /\ j.site \in Sites
      BY <3>2 DEF Job, PCs, Idle, AllOps, Version
    <3>4. job' = [job EXCEPT ![w] = j]
      BY <3>1 DEF BeginRollback
    <3> QED BY <3>3, <3>4
  <2>4. CASE BeginUnpublish(w, s) \/ BeginRestore(w, s) \/ BeginPurge(w, s)
             \/ BeginFavicons(w, s)
    BY <2>4 DEF BeginUnpublish, BeginRestore, BeginPurge, BeginFavicons, Job,
       PCs, Idle, AllOps, SoftDeleteSite, RestoreSite, PurgeDeletedSite,
       HardDeleteSite
  <2> QED BY <1>1, <2>1, <2>2, <2>3, <2>4
<1>5. JobsOK'
  BY <1>2, <1>3, <1>4, NewJobKeepsJobs DEF TypeOK
<1> QED BY <1>3, <1>5 DEF TypeOK

(* So do the steps of swap, archiveVersion and pruneVersions.              *)
LEMMA SwapType ==
  ASSUME TypeOK, NEW w \in Procs,
         Stat(w) \/ TakeStamp(w) \/ Archive(w) \/ Prune(w) \/ Drop(w)
         \/ Clear(w) \/ SwapIn(w) \/ RollbackIn(w)
  PROVE  TypeOK'
<1> DEFINE s == job[w].site
<1>1. ~At(w, "idle") /\ job[w] \in Job /\ s \in Sites /\ todo \subseteq Sites
  BY BusyJob DEF TypeOK, JobsOK, At, Stat, TakeStamp, Archive, Prune, Drop,
     Clear, SwapIn, RollbackIn
<1>2. RegistryOK' /\ todo' = todo
  BY DEF TypeOK, RegistryOK, Stat, TakeStamp, Archive, Prune, Drop, Clear,
     SwapIn, RollbackIn, registry
<1>3. CASE Stat(w)
  <2>1. DiskOK'
    BY <1>3 DEF TypeOK, DiskOK, Stat, disk
  <2>2. JobsOK'
    BY <1>1, <1>3, GotoKeepsJobs DEF TypeOK, Stat, PCs
  <2> QED BY <1>2, <2>1, <2>2 DEF TypeOK
<1>4. CASE Archive(w)
  <2>1. DiskOK'
    BY <1>1, <1>4 DEF TypeOK, DiskOK, Archive, AnyDir, Version, Job
  <2>2. CASE Done(w)
    BY <1>1, <1>2, <2>1, <2>2, DoneKeepsJobs DEF TypeOK
  <2>3. CASE job' = [job EXCEPT ![w].pc = "prune", ![w].name = 0]
    <3>1. JobsOK'
      BY <1>1, <1>2, <2>3 DEF TypeOK, JobsOK, PCs, Job, At
    <3> QED BY <1>2, <2>1, <3>1 DEF TypeOK
  <2> QED BY <1>4, <2>2, <2>3 DEF Archive
<1>10. CASE TakeStamp(w)
  <2>1. DiskOK'
    BY <1>10 DEF TypeOK, DiskOK, TakeStamp
  <2>2. JobsOK'
    BY <1>1, <1>2, <1>10 DEF TypeOK, DiskOK, JobsOK, TakeStamp, PCs, Job, At
  <2> QED BY <1>2, <2>1, <2>2 DEF TypeOK
<1>5. CASE Prune(w)
  <2>1. DiskOK'
    BY <1>5 DEF TypeOK, DiskOK, Prune, disk
  <2>2. Superfluous(vers[s]) \subseteq Nat
    BY <1>1 DEF TypeOK, DiskOK, Superfluous, Version
  <2>3. JobsOK'
    BY <1>1, <1>5, <2>2 DEF TypeOK, JobsOK, Prune, PCs, Job, At
  <2> QED BY <1>2, <2>1, <2>3 DEF TypeOK
<1>6. CASE Drop(w)
  <2>1. DiskOK'
    BY <1>1, <1>6 DEF TypeOK, DiskOK, Drop
  <2>2. CASE Goto(w, "movein")
    BY <1>1, <1>2, <2>1, <2>2, GotoKeepsJobs DEF TypeOK, PCs
  <2>3. ASSUME NEW m, job' = [job EXCEPT ![w].doomed = @ \ {m}]
        PROVE  TypeOK'
    <3>1. JobsOK'
      BY <1>1, <1>2, <2>3 DEF TypeOK, JobsOK, Job, At
    <3> QED BY <1>2, <2>1, <3>1 DEF TypeOK
  <2> QED BY <1>6, <2>2, <2>3 DEF Drop
<1>7. CASE Clear(w)
  <2>1. DiskOK'
    BY <1>1, <1>7 DEF TypeOK, DiskOK, Clear, AnyDir
  <2>2. JobsOK'
    BY <1>1, <1>7, GotoKeepsJobs DEF TypeOK, Clear, PCs
  <2> QED BY <1>2, <2>1, <2>2 DEF TypeOK
<1>8. CASE SwapIn(w)
  <2>1. DiskOK'
    BY <1>1, <1>8 DEF TypeOK, DiskOK, SwapIn, Job
  <2>2. CASE Done(w)
    BY <1>1, <1>2, <2>1, <2>2, DoneKeepsJobs DEF TypeOK
  <2>3. CASE ~Done(w)
    <3>1. job' = [job EXCEPT ![w].stage = NoDir,
                             ![w].pc = IF job[w].op = "publish"
                                       THEN "measure" ELSE "touch"]
      BY <1>8, <2>3 DEF SwapIn
    <3>2. JobsOK'
      BY <1>1, <1>2, <3>1 DEF TypeOK, JobsOK, PCs, Job, At, AnyDir
    <3> QED BY <1>2, <2>1, <3>2 DEF TypeOK
  <2> QED BY <2>2, <2>3
<1>9. CASE RollbackIn(w)
  <2>1. DiskOK'
    BY <1>1, <1>9 DEF TypeOK, DiskOK, RollbackIn, AnyDir, Version
  <2>2. JobsOK'
    BY <1>1, <1>9, GotoKeepsJobs, DoneKeepsJobs DEF TypeOK, RollbackIn, PCs
  <2> QED BY <1>2, <2>1, <2>2 DEF TypeOK
<1> QED BY <1>3, <1>4, <1>5, <1>6, <1>7, <1>8, <1>9, <1>10

(* What dirSize returns is a size.                                         *)
LEMMA MeasureType ==
  ASSUME DiskOK, NEW S \in SUBSET Sites
  PROVE  Measure(S) \in Sized
BY DEF DiskOK, Measure, Sized, AnyDir

(* What detectFavicon returns is an icon.                                  *)
LEMMA DetectType ==
  ASSUME NEW d \in AnyDir
  PROVE  DetectFavicon(d) \subseteq Contents \union {NoIcon}
BY DEF DetectFavicon, AnyDir, Dir

(* So do they when they fail.                                              *)
LEMMA PartType ==
  ASSUME DiskOK, NEW s \in Sites
  PROVE  PartSize(s) \subseteq Sized /\ PartIcon(s) \subseteq Contents \union {NoIcon}
<1>1. \A d \in {live[s]} \ {NoDir} : TornDir(d) \in Dir /\ d.c \in Contents
  BY DEF DiskOK, AnyDir, Dir, TornDir
<1>2. \A d \in {live[s]} \ {NoDir} : {<<s, TornDir(d)>>} \in SUBSET (Sites \X Dir)
  BY <1>1
<1>3. PartSize(s) \subseteq Sized
  BY <1>2 DEF PartSize, Sized
<1>4. PartIcon(s) \subseteq Contents \union {NoIcon}
  BY <1>1 DEF PartIcon
<1> QED BY <1>3, <1>4

LEMMA TakeSizeKeepsJobs ==
  ASSUME JobsOK, NEW w \in Procs, ~At(w, "idle"), todo' = todo,
         NEW n \in Sized, NEW failed \in SUBSET Reads, TakeSize(w, n, failed)
  PROVE  JobsOK'
<1>1. job[w] \in Job
  BY DEF JobsOK
<1> QED BY <1>1 DEF JobsOK, TakeSize, Job, PCs, At

LEMMA TakeIconKeepsJobs ==
  ASSUME JobsOK, NEW w \in Procs, ~At(w, "idle"), todo' = todo,
         NEW i \in Contents \union {NoIcon}, NEW failed \in SUBSET Reads,
         TakeIcon(w, i, failed)
  PROVE  JobsOK'
<1>1. job[w] \in Job
  BY DEF JobsOK
<1> QED BY <1>1 DEF JobsOK, TakeIcon, Job, PCs, At

(* The registry half of publishing and rolling back keeps the types.       *)
LEMMA RecordType ==
  ASSUME TypeOK, NEW w \in Procs,
         MeasureLive(w) \/ Upsert(w) \/ Touch(w) \/ Reread(w) \/ Resize(w)
         \/ Detect(w) \/ Compare(w) \/ SetIcon(w)
  PROVE  TypeOK'
<1> DEFINE s == job[w].site
<1>1. ~At(w, "idle") /\ job[w] \in Job /\ s \in Sites /\ todo \subseteq Sites
  BY BusyJob DEF TypeOK, JobsOK, At, MeasureLive, Upsert, Touch, Reread,
     Resize, Detect, Compare, SetIcon, UpsertSite, UpsertSiteTouch,
     SetSiteSize, SetSiteFavicon
<1>2. DiskOK' /\ todo' = todo
  BY DEF TypeOK, DiskOK, MeasureLive, Upsert, Touch, Reread, Resize, Detect,
     Compare, SetIcon, disk, UpsertSite, UpsertSiteTouch, SetSiteSize,
     SetSiteFavicon
<1>3. RegistryOK'
  BY <1>1 DEF TypeOK, RegistryOK, MeasureLive, Upsert, Touch, Reread, Resize,
     Detect, Compare, SetIcon, registry, Job, UpsertSite, UpsertSiteTouch,
     SetSiteSize, SetSiteFavicon
<1>4. JobsOK'
  <2>1. CASE MeasureLive(w)
    <3>1. Measure({s}) \in Sized
      BY <1>1, MeasureType DEF TypeOK
    <3> QED BY <1>1, <1>2, <2>1, <3>1, TakeSizeKeepsJobs
            DEF TypeOK, MeasureLive
  <2>2. CASE Upsert(w)
    BY <1>1, <1>2, <2>2 DEF TypeOK, JobsOK, Upsert, Job, PCs, At, Sized,
       UpsertSite
  <2>3. CASE Touch(w)
    BY <1>1, <1>2, <2>3, GotoKeepsJobs DEF TypeOK, Touch, PCs, UpsertSiteTouch
  <2>8. CASE Reread(w)
    BY <1>1, <1>2, <2>8, GotoKeepsJobs, DoneKeepsJobs DEF TypeOK, Reread, PCs
  <2>4. CASE Resize(w)
    <3>1. CASE Done(w)
      BY <1>1, <1>2, <3>1, DoneKeepsJobs DEF TypeOK
    <3>2. CASE ~Done(w)
      BY <1>1, <1>2, <2>4, <3>2 DEF TypeOK, JobsOK, Resize, Job, PCs, At,
         Sized, SetSiteSize
    <3> QED BY <3>1, <3>2
  <2>5. CASE Detect(w)
    <3>1. PICK i \in DetectFavicon(live[s]) : TakeIcon(w, i, {})
      BY <2>5 DEF Detect
    <3>2. i \in Contents \union {NoIcon}
      BY <1>1, DetectType DEF TypeOK, DiskOK
    <3> QED BY <1>1, <1>2, <3>1, <3>2, TakeIconKeepsJobs DEF TypeOK
  <2>6. CASE Compare(w)
    BY <1>1, <1>2, <2>6, GotoKeepsJobs, DoneKeepsJobs DEF TypeOK, Compare, PCs
  <2>7. CASE SetIcon(w)
    BY <1>1, <1>2, <2>7, DoneKeepsJobs DEF TypeOK, SetIcon, SetSiteFavicon
  <2> QED BY <2>1, <2>2, <2>3, <2>4, <2>5, <2>6, <2>7, <2>8
<1> QED BY <1>2, <1>3, <1>4 DEF TypeOK

(* So do the steps of Unpublish, Restore and Purge.                        *)
LEMMA QuarantineType ==
  ASSUME TypeOK, NEW w \in Procs,
         QStat(w) \/ QClear(w) \/ QMove(w) \/ QCheck(w) \/ RestoreIn(w)
         \/ Wipe(w)
  PROVE  TypeOK'
<1> DEFINE s == job[w].site
<1>1. ~At(w, "idle") /\ job[w] \in Job /\ s \in Sites /\ todo \subseteq Sites
  BY BusyJob DEF TypeOK, JobsOK, At, QStat, QClear, QMove, QCheck, RestoreIn,
     Wipe
<1>2. RegistryOK' /\ todo' = todo
  BY DEF TypeOK, RegistryOK, QStat, QClear, QMove, QCheck, RestoreIn, Wipe,
     registry
<1>3. DiskOK'
  BY <1>1 DEF TypeOK, DiskOK, QStat, QClear, QMove, QCheck, RestoreIn, Wipe,
     disk, AnyDir
<1>4. JobsOK'
  BY <1>1, <1>2, GotoKeepsJobs, DoneKeepsJobs DEF TypeOK, QStat, QClear,
     QMove, QCheck, RestoreIn, Wipe, PCs
<1> QED BY <1>2, <1>3, <1>4 DEF TypeOK

(* So do the list and the row deletion of the purge loop.                  *)
LEMMA JanitorType ==
  ASSUME TypeOK, BeginReap \/ DeleteSite
  PROVE  TypeOK'
<1> DEFINE s == job[Janitor].site
<1>1. Janitor \in Procs
  BY DEF Procs
<1>2. CASE BeginReap
  <2>1. RegistryOK' /\ DiskOK' /\ Expired \subseteq Sites
    BY <1>2 DEF TypeOK, RegistryOK, DiskOK, BeginReap, registry, disk, Expired
  <2>2. JobsOK'
    BY <1>1, <1>2, <2>1, AdvanceKeepsJobs DEF TypeOK, BeginReap
  <2> QED BY <2>1, <2>2 DEF TypeOK
<1>3. CASE DeleteSite
  <2>1. RegistryOK'
    BY <1>3 DEF TypeOK, RegistryOK, DeleteSite, Sized, HardDeleteSite
  <2>2. DiskOK'
    BY <1>3 DEF TypeOK, DiskOK, DeleteSite, disk, HardDeleteSite
  <2>3. JobsOK'
    BY <1>1, <1>3, AdvanceKeepsJobs DEF TypeOK, JobsOK, DeleteSite,
       HardDeleteSite
  <2> QED BY <2>1, <2>2, <2>3 DEF TypeOK
<1> QED BY <1>2, <1>3

(* A partial deletion keeps the types.                                     *)
LEMMA TearType ==
  ASSUME TypeOK, NEW p \in Procs, Tear(p)
  PROVE  TypeOK'
<1> DEFINE s == job[p].site
<1>1. s \in Sites
  BY BusyJob DEF TypeOK, At, Tear
<1>2. RegistryOK' /\ JobsOK'
  BY DEF TypeOK, RegistryOK, JobsOK, At, Tear, registry
<1>3. \A d \in Dir : TornDir(d) \in Dir
  BY DEF Dir, TornDir
<1>4. DiskOK'
  BY <1>1, <1>3 DEF TypeOK, DiskOK, Tear, AnyDir, Version
<1> QED BY <1>2, <1>4 DEF TypeOK

(* So do time passing, a failing call and a restart.                       *)
LEMMA EnvironmentType ==
  ASSUME TypeOK,
         (\E s \in Sites : Expire(s)) \/ (\E p \in Procs : Fail(p)) \/ Restart
  PROVE  TypeOK'
<1>1. CASE \E s \in Sites : Expire(s)
  BY <1>1 DEF TypeOK, RegistryOK, DiskOK, JobsOK, At, Expire, disk
<1>2. CASE \E p \in Procs : Fail(p)
  <2>1. PICK p \in Procs : Fail(p)
    BY <1>2
  <2>2. RegistryOK' /\ DiskOK'
    BY <2>1 DEF TypeOK, RegistryOK, DiskOK, Fail, registry, disk
  <2>3. /\ JobsOK /\ DiskOK /\ ~At(p, "idle") /\ job[p].site \in Sites
        /\ {"size"} \in SUBSET Reads /\ {"icon"} \in SUBSET Reads
    BY <2>1, BusyJob DEF TypeOK, Fail, Reads
  <2>4. JobsOK'
    <3>1. CASE Aborted(p) /\ UNCHANGED todo
      BY <2>3, <3>1, DoneKeepsJobs DEF JobsOK, Aborted
    <3>2. ASSUME NEW l \in PCs, Goto(p, l), UNCHANGED todo
          PROVE  JobsOK'
      BY <2>3, <3>2, GotoKeepsJobs DEF JobsOK
    <3>3. CASE /\ \E n \in PartSize(job[p].site) : TakeSize(p, n, {"size"})
               /\ UNCHANGED todo
      BY <2>3, <3>3, PartType, TakeSizeKeepsJobs
    <3>4. CASE /\ \E i \in PartIcon(job[p].site) : TakeIcon(p, i, {"icon"})
               /\ UNCHANGED todo
      BY <2>3, <3>4, PartType, TakeIconKeepsJobs
    <3>5. CASE Overlooked(p) /\ UNCHANGED todo
      BY <3>2, <3>3, <3>4, <3>5 DEF Overlooked, PCs
    <3>6. CASE /\ todo' = todo \ {job[p].site}
               /\ Advance(p, todo \ {job[p].site})
      BY <2>3, <3>6, AdvanceKeepsJobs DEF JobsOK
    <3> QED BY <2>1, <3>1, <3>5, <3>6 DEF Fail
  <2> QED BY <2>2, <2>4 DEF TypeOK
<1>3. CASE Restart
  <2>1. PICK left, skipped \in SUBSET Sites : BackfillSizes(left, skipped)
    BY <1>3 DEF Restart
  <2>2. \A s \in Sites : Measure(Below[s]) \in Sized
    BY MeasureType, BelowAssumption DEF TypeOK
  <2>3. RegistryOK'
    BY <1>3, <2>1, <2>2 DEF TypeOK, RegistryOK, Restart, BackfillSizes
  <2>4. DiskOK' /\ JobsOK'
    BY <1>3, IdleIsJob DEF TypeOK, DiskOK, JobsOK, Restart, disk, At, Idle
  <2> QED BY <2>3, <2>4 DEF TypeOK
<1> QED BY <1>1, <1>2, <1>3

(* Which action a worker's step is, by where it stands.                    *)
LEMMA ActionAt ==
  ASSUME NEW w \in Workers, WorkerStep(w)
  PROVE  /\ At(w, "stat") \/ At(w, "rbstat") => Stat(w)
         /\ At(w, "stamp") => TakeStamp(w)
         /\ At(w, "archive") => Archive(w)
         /\ At(w, "prune") => Prune(w)
         /\ At(w, "drop") => Drop(w)
         /\ At(w, "clear") => Clear(w)
         /\ At(w, "movein") => SwapIn(w) \/ RollbackIn(w) \/ RestoreIn(w)
         /\ At(w, "measure") => MeasureLive(w)
         /\ At(w, "upsert") => Upsert(w)
         /\ At(w, "reread") => Reread(w)
         /\ At(w, "resize") => Resize(w)
         /\ At(w, "detect") => Detect(w)
         /\ At(w, "icon") => SetIcon(w)
         /\ At(w, "wipe") => Wipe(w)
         /\ ~At(w, "idle")
<1> DEFINE l == job[w].pc
<1>1. /\ Stat(w) => l \in {"stat", "rbstat"}
      /\ TakeStamp(w) => l = "stamp"
      /\ Archive(w) => l = "archive"
      /\ Prune(w) => l = "prune"
      /\ Drop(w) => l = "drop"
      /\ Clear(w) => l = "clear"
  BY DEF Stat, TakeStamp, Archive, Prune, Drop, Clear, At
<1>2. /\ SwapIn(w) \/ RollbackIn(w) \/ RestoreIn(w) => l = "movein"
      /\ MeasureLive(w) => l = "measure"
      /\ Upsert(w) => l = "upsert"
      /\ Touch(w) => l = "touch"
      /\ Reread(w) => l = "reread"
      /\ Resize(w) => l = "resize"
  BY DEF SwapIn, RollbackIn, RestoreIn, MeasureLive, Upsert, Touch, Reread,
     Resize, At
<1>3. /\ Detect(w) => l = "detect"
      /\ Compare(w) => l = "compare"
      /\ SetIcon(w) => l = "icon"
      /\ QStat(w) => l = "qstat"
      /\ QClear(w) => l = "qclear"
      /\ QMove(w) => l = "qmove"
      /\ QCheck(w) => l = "qcheck"
      /\ Wipe(w) => l = "wipe"
  BY DEF Detect, Compare, SetIcon, QStat, QClear, QMove, QCheck, Wipe, At
<1> QED BY <1>1, <1>2, <1>3 DEF WorkerStep, At

(* What a worker's step leaves alone.                                      *)
LEMMA Untouched ==
  ASSUME NEW w \in Workers, WorkerStep(w)
  PROVE  /\ ~(Upsert(w) \/ Touch(w)) => reg' = reg
         /\ ~(Archive(w) \/ Drop(w) \/ RollbackIn(w)) => vers' = vers
         /\ ~TakeStamp(w) => stamp' = stamp
<1> USE DEF registry, disk
<1>1. CASE Stat(w) \/ TakeStamp(w) \/ Archive(w) \/ Prune(w) \/ Drop(w)
  BY <1>1 DEF Stat, TakeStamp, Archive, Prune, Drop
<1>2. CASE Clear(w) \/ SwapIn(w) \/ RollbackIn(w) \/ RestoreIn(w)
  BY <1>2 DEF Clear, SwapIn, RollbackIn, RestoreIn
<1>3. CASE MeasureLive(w) \/ Upsert(w) \/ Touch(w) \/ Reread(w)
  BY <1>3 DEF MeasureLive, Upsert, Touch, Reread
<1>4. CASE Resize(w) \/ Detect(w) \/ Compare(w) \/ SetIcon(w)
  BY <1>4 DEF Resize, Detect, Compare, SetIcon, SetSiteSize, SetSiteFavicon
<1>5. CASE QStat(w) \/ QClear(w) \/ QMove(w) \/ QCheck(w) \/ Wipe(w)
  BY <1>5 DEF QStat, QClear, QMove, QCheck, Wipe
<1> QED BY <1>1, <1>2, <1>3, <1>4, <1>5 DEF WorkerStep

(* The initial state is well-typed.                                        *)
LEMMA TypeInit == Init => TypeOK
BY IdleIsJob DEF Init, TypeOK, RegistryOK, DiskOK, JobsOK, Sized, AnyDir, At,
   Idle

(* TypeOK is inductive on its own.                                         *)
LEMMA TypeStep == TypeOK /\ [Next]_vars => TypeOK'
<1> SUFFICES ASSUME TypeOK, [Next]_vars PROVE TypeOK'
  OBVIOUS
<1>1. CASE UNCHANGED vars
  BY <1>1 DEF TypeOK, RegistryOK, DiskOK, JobsOK, At, vars, registry, disk
<1>2. ASSUME NEW w \in Workers, WorkerStep(w)
      PROVE  TypeOK'
  BY <1>2, SwapType, RecordType, QuarantineType DEF WorkerStep, Procs
<1>3. CASE JanitorStep
  BY <1>3, JanitorType, QuarantineType DEF JanitorStep, Procs
<1> QED BY <1>1, <1>2, <1>3, BeginType, TearType, EnvironmentType DEF Next

(* Whatever the operations, however they overlap and wherever they fail,   *)
(* every variable keeps its type and a busy process works on a known site. *)
THEOREM TypeCorrect == Spec => []TypeOK
BY TypeInit, TypeStep, PTL DEF Spec

-----------------------------------------------------------------------------
(* Control flow: where a process can be after a step.                      *)

Swapping == {"stat", "rbstat", "stamp", "archive", "prune", "drop", "clear",
             "movein"}

After(l) ==
  CASE l \in {"stat", "rbstat"} -> {"stamp", "clear", "movein"}
    [] l = "stamp"   -> {"archive"}
    [] l = "archive" -> {"prune"}
    [] l = "prune"   -> {"drop"}
    [] l = "drop"    -> {"drop", "movein"}
    [] l = "clear"   -> {"movein"}
    [] l = "movein"  -> {"measure", "touch"}
    [] l = "measure" -> {"upsert", "resize"}
    [] l \in {"upsert", "touch"} -> {"reread"}
    [] l = "reread"  -> {"detect", "measure"}
    [] l = "resize"  -> {"detect"}
    [] l = "detect"  -> {"icon", "compare"}
    [] l = "compare" -> {"icon"}
    [] l = "qstat"   -> {"qclear"}
    [] l = "qclear"  -> {"qmove"}
    [] l = "qcheck"  -> {"clear"}
    [] l = "wipe"    -> {"delete"}
    [] OTHER         -> {}

(* The operation of process w goes on.                                     *)
Continues(w) ==
  /\ job'[w].site = job[w].site /\ job'[w].op = job[w].op
  /\ job'[w].pc \in After(job[w].pc)
  /\ job'[w].pc \in Swapping => job'[w].stage = job[w].stage
  /\ job'[w].doomed \subseteq job[w].doomed \/ Prune(w)

(* A step of a worker leaves the jobs of the others alone; its own ends or *)
(* goes on along the control flow, on the same site and the same stage.    *)
LEMMA ControlFlow ==
  ASSUME TypeOK, NEW w \in Workers, WorkerStep(w)
  PROVE  /\ \A p \in Procs : p # w => job'[p] = job[p]
         /\ job'[w] = Idle \/ Continues(w)
<1> USE DEF Continues, After, Swapping
<1>1. w \in Procs /\ job \in [Procs -> Job] /\ job[w] \in Job
  BY DEF TypeOK, JobsOK, Procs
<1>2. CASE Stat(w)
  BY <1>1, <1>2 DEF Stat, At, Job, Goto
<1>3. CASE Archive(w)
  BY <1>1, <1>3 DEF Archive, At, Job, Done
<1>23. CASE TakeStamp(w)
  BY <1>1, <1>23 DEF TakeStamp, At, Job
<1>4. CASE Prune(w)
  BY <1>1, <1>4 DEF Prune, At, Job
<1>5. CASE Drop(w)
  <2>1. CASE Goto(w, "movein")
    BY <1>1, <1>5, <2>1 DEF Drop, At, Job, Goto
  <2>2. ASSUME NEW m, job' = [job EXCEPT ![w].doomed = @ \ {m}]
        PROVE  (\A p \in Procs : p # w => job'[p] = job[p]) /\ Continues(w)
    BY <1>1, <1>5, <2>2 DEF Drop, At, Job
  <2> QED BY <1>5, <2>1, <2>2 DEF Drop
<1>6. CASE Clear(w)
  BY <1>1, <1>6 DEF Clear, At, Job, Goto
<1>7. CASE SwapIn(w)
  BY <1>1, <1>7 DEF SwapIn, At, Job, Done
<1>8. CASE RollbackIn(w)
  BY <1>1, <1>8 DEF RollbackIn, At, Job, Goto, Done
<1>9. CASE RestoreIn(w)
  BY <1>1, <1>9 DEF RestoreIn, At, Job, Done
<1>10. CASE MeasureLive(w)
  BY <1>1, <1>10 DEF MeasureLive, TakeSize, At, Job
<1>11. CASE Upsert(w)
  BY <1>1, <1>11 DEF Upsert, At, Job, UpsertSite
<1>12. CASE Touch(w)
  BY <1>1, <1>12 DEF Touch, At, Job, Goto, UpsertSiteTouch
<1>22. CASE Reread(w)
  BY <1>1, <1>22 DEF Reread, At, Job, Goto, Done
<1>13. CASE Resize(w)
  BY <1>1, <1>13 DEF Resize, At, Job, Done, SetSiteSize
<1>14. CASE Detect(w)
  <2>1. PICK i : TakeIcon(w, i, {})
    BY <1>14 DEF Detect
  <2> QED BY <1>1, <1>14, <2>1 DEF Detect, TakeIcon, At, Job
<1>15. CASE Compare(w)
  BY <1>1, <1>15 DEF Compare, At, Job, Goto, Done
<1>16. CASE SetIcon(w)
  BY <1>1, <1>16 DEF SetIcon, At, Job, Done, SetSiteFavicon
<1>17. CASE QStat(w)
  BY <1>1, <1>17 DEF QStat, At, Job, Goto, Done
<1>18. CASE QClear(w)
  BY <1>1, <1>18 DEF QClear, At, Job, Goto
<1>19. CASE QMove(w)
  BY <1>1, <1>19 DEF QMove, At, Job, Done
<1>20. CASE QCheck(w)
  BY <1>1, <1>20 DEF QCheck, At, Job, Goto, Done
<1>21. CASE Wipe(w)
  BY <1>1, <1>21 DEF Wipe, At, Job, Goto, Done
<1> QED BY <1>2, <1>3, <1>4, <1>5, <1>6, <1>7, <1>8, <1>9, <1>10,
        <1>11, <1>12, <1>13, <1>14, <1>15, <1>16, <1>17, <1>18, <1>19, <1>20,
        <1>21, <1>22, <1>23 DEF WorkerStep

(* Where an operation goes on although a call has failed.                  *)
Lenient == {"stat", "rbstat", "clear", "qclear", "wipe", "measure", "detect"}

(* It does so.                                                             *)
Overlooks(p) ==
  /\ Continues(p) /\ job[p].pc \in Lenient
  /\ job'[p].pc \notin {"stamp", "clear"}
  /\ job'[p].name = job[p].name /\ job'[p].src = job[p].src
  /\ job'[p].stage = job[p].stage /\ job'[p].doomed = job[p].doomed

(* A failing call changes no row and no directory. Its operation ends, or  *)
(* goes on along the control flow, from one of few places and never into   *)
(* moving the live directory away; or the purge loop turns to a site it    *)
(* has still to do.                                                        *)
LEMMA FailFlow ==
  ASSUME TypeOK, NEW p \in Procs, Fail(p)
  PROVE  /\ Faults /\ ~At(p, "idle") /\ UNCHANGED <<registry, disk>>
         /\ \A q \in Procs : q # p => job'[q] = job[q]
         /\ \/ job'[p] = Idle
            \/ Overlooks(p) /\ todo' = todo
            \/ /\ At(p, "delete") /\ job'[p].pc = "wipe"
               /\ job'[p].op = "reap" /\ job'[p].site \in todo
               /\ job'[p].doomed = {} /\ job'[p].name = 0
<1> USE DEF Lenient, Overlooks
<1>1. /\ job \in [Procs -> Job] /\ job[p].pc \in PCs
      /\ UNCHANGED <<registry, disk>> /\ Faults /\ ~At(p, "idle")
  BY DEF TypeOK, JobsOK, Fail, Job
<1>2. CASE Aborted(p)
  BY <1>1, <1>2 DEF Aborted, Done
<1>3. CASE Overlooked(p) /\ UNCHANGED todo
  <2>1. CASE \E n : TakeSize(p, n, {"size"}) /\ At(p, "measure")
    BY <1>1, <1>3, <2>1 DEF TakeSize, Continues, After, Swapping, At, Job
  <2>2. CASE \E i : TakeIcon(p, i, {"icon"}) /\ At(p, "detect")
    BY <1>1, <1>3, <2>2 DEF TakeIcon, Continues, After, Swapping, At, Job
  <2>3. ASSUME NEW l, Goto(p, l), l \in After(job[p].pc),
               job[p].pc \in Lenient, l \notin {"stamp", "clear"}
        PROVE  /\ Overlooks(p)
               /\ \A q \in Procs : q # p => job'[q] = job[q]
    BY <1>1, <2>3 DEF Goto, Continues, Job
  <2>4. CASE \/ At(p, "stat") /\ Goto(p, "movein")
             \/ At(p, "rbstat") /\ Goto(p, "movein")
             \/ At(p, "clear") /\ Goto(p, "movein")
             \/ At(p, "qclear") /\ Goto(p, "qmove")
             \/ At(p, "wipe") /\ Goto(p, "delete")
    BY <1>1, <1>3, <2>3, <2>4 DEF After, At
  <2> QED BY <1>1, <1>3, <2>1, <2>2, <2>4 DEF Overlooked
<1>4. CASE At(p, "delete") /\ Advance(p, todo \ {job[p].site})
  BY <1>1, <1>4 DEF Advance, Done, Idle
<1> QED BY <1>2, <1>3, <1>4 DEF Fail

-----------------------------------------------------------------------------
(* A deployment whose clients publish and roll back and never use the      *)
(* trash: no row is ever deleted, no process is ever in the quarantine     *)
(* half of the publisher, and a process about to fill the live directory   *)
(* holds a stage with files.                                               *)

TrashOps == {"unpublish", "restore", "purge"}
TrashPCs == {"qstat", "qclear", "qmove", "qcheck", "wipe", "delete"}

NoTrash ==
  /\ \A s \in Sites : reg[s] # "deleted"
  /\ \A p \in Procs : job[p].op \notin TrashOps \union {"reap"}
  /\ \A p \in Procs : job[p].pc \notin TrashPCs

Staged ==
  \A p \in Procs :
    job[p].pc \in Swapping
      => /\ job[p].op \in {"publish", "rollbackTo", "rollback"}
         /\ job[p].op # "rollback" => job[p].stage \in Dir

(* A request that such a deployment can begin touches neither the rows nor *)
(* the directories.                                                        *)
LEMMA BeginWithoutTrash ==
  ASSUME Ops \intersect TrashOps = {}, TypeOK, NEW w \in Workers, Begin(w)
  PROVE  /\ UNCHANGED <<reg, disk>>
         /\ \A p \in Procs : p # w => job'[p] = job[p]
         /\ job'[w].op \in {"publish", "rollbackTo", "rollback", "favicons"}
         /\ job'[w].pc \in {"stat", "rbstat", "detect"}
         /\ job'[w].op = "favicons" => job'[w].pc = "detect"
         /\ job'[w].doomed = {}
         /\ job'[w].op \in {"publish", "rollbackTo"} => job'[w].stage \in Dir
         /\ job'[w].op = "rollback" => "rollback" \in Ops
<1>1. PICK s \in Sites :
        \/ \E c \in Contents : BeginPublish(w, s, c)
        \/ \E v \in vers[s] : BeginRollbackTo(w, s, v)
        \/ \E v \in vers[s] : BeginRollback(w, s, v)
        \/ BeginFavicons(w, s)
  BY DEF Begin, BeginUnpublish, BeginRestore, BeginPurge, TrashOps,
     SoftDeleteSite, RestoreSite, PurgeDeletedSite, HardDeleteSite
<1>2. w \in Procs /\ job \in [Procs -> Job] /\ vers[s] \subseteq Version
  BY DEF TypeOK, JobsOK, DiskOK, Procs
<1>3. CASE \E c \in Contents : BeginPublish(w, s, c)
  BY <1>2, <1>3 DEF BeginPublish, Idle, registry, Whole, Dir
<1>4. CASE \E v \in vers[s] : BeginRollbackTo(w, s, v)
  BY <1>2, <1>4 DEF BeginRollbackTo, Idle, registry, Version
<1>5. CASE \E v \in vers[s] : BeginRollback(w, s, v)
  BY <1>2, <1>5 DEF BeginRollback, Idle, registry
<1>6. CASE BeginFavicons(w, s)
  BY <1>2, <1>6 DEF BeginFavicons, Idle, registry
<1> QED BY <1>1, <1>3, <1>4, <1>5, <1>6

(* Without a trash the purge loop stays idle and no retention runs out.    *)
LEMMA NoJanitor ==
  ASSUME NoTrash
  PROVE  ~JanitorStep /\ \A s \in Sites : ~Expire(s)
BY DEF NoTrash, TrashPCs, JanitorStep, BeginReap, Expired, Wipe, DeleteSite,
   At, Procs, Expire, HardDeleteSite

(* A deployment whose clients do not use the trash never gets one.         *)
LEMMA NoTrashStep ==
  ASSUME Ops \intersect TrashOps = {}, TypeOK, NoTrash, Staged, [Next]_vars
  PROVE  NoTrash' /\ Staged'
<1>0. job \in [Procs -> Job]
  BY DEF TypeOK, JobsOK
<1>1. CASE UNCHANGED vars
  BY <1>1 DEF NoTrash, Staged, vars, registry
<1>2. ASSUME NEW w \in Workers, Begin(w)
      PROVE  NoTrash' /\ Staged'
  BY <1>2, BeginWithoutTrash DEF NoTrash, Staged, TrashOps, TrashPCs, Swapping
<1>3. ASSUME NEW w \in Workers, WorkerStep(w)
      PROVE  NoTrash' /\ Staged'
  <2>1. /\ \A p \in Procs : p # w => job'[p] = job[p]
        /\ job'[w] = Idle \/ Continues(w)
    BY <1>3, ControlFlow
  <2>2. w \in Procs /\ job[w].pc \in PCs
    BY <1>0 DEF Procs, Job
  <2>3. \A s \in Sites : reg'[s] # "deleted"
    <3>1. CASE Upsert(w) \/ Touch(w)
      BY <3>1 DEF Upsert, Touch, NoTrash, TypeOK, RegistryOK, UpsertSite,
         UpsertSiteTouch, registry
    <3>2. CASE ~(Upsert(w) \/ Touch(w))
      <4>1. reg' = reg
        BY <1>3, <3>2, Untouched
      <4> QED BY <4>1 DEF NoTrash
    <3> QED BY <3>1, <3>2
  <2>4. /\ job'[w].op \notin TrashOps \union {"reap"}
        /\ job'[w].pc \notin TrashPCs
    BY <2>1, <2>2 DEF NoTrash, Continues, After, Idle, TrashOps, TrashPCs, PCs
  <2>5. Staged'
    BY <2>1, <2>2 DEF Staged, Continues, After, Swapping, Idle, PCs, NoTrash,
       TrashOps, TrashPCs
  <2> QED BY <2>1, <2>3, <2>4, <2>5 DEF NoTrash
<1>4. ASSUME NEW p \in Procs, Tear(p)
      PROVE  NoTrash' /\ Staged'
  BY <1>4 DEF NoTrash, Staged, Tear, registry
<1>5. ASSUME NEW p \in Procs, Fail(p)
      PROVE  NoTrash' /\ Staged'
  <2>1. /\ UNCHANGED reg /\ \A q \in Procs : q # p => job'[q] = job[q]
        /\ ~At(p, "delete") /\ job[p].pc \in PCs
        /\ \/ job'[p] = Idle
           \/ Continues(p) /\ job'[p].stage = job[p].stage
    BY <1>0, <1>5, FailFlow DEF Overlooks, registry, NoTrash, TrashPCs, At, Job
  <2>2. /\ job'[p].op \notin TrashOps \union {"reap"}
        /\ job'[p].pc \notin TrashPCs
    BY <2>1 DEF NoTrash, Continues, After, Idle, TrashOps, TrashPCs, PCs
  <2>3. Staged'
    BY <2>1 DEF Staged, Continues, After, Swapping, Idle, PCs, NoTrash,
       TrashPCs
  <2> QED BY <2>1, <2>2, <2>3 DEF NoTrash
<1>6. CASE Restart
  BY <1>6 DEF NoTrash, Staged, Restart, Idle, TrashOps, TrashPCs, Swapping
<1> QED BY <1>1, <1>2, <1>3, <1>4, <1>5, <1>6, NoJanitor DEF Next

-----------------------------------------------------------------------------
(* A listed site is online, or some process is about to bring it online.   *)

NoRollback == \A p \in Procs : job[p].op # "rollback"

OnlineSoon(s) == live[s] # NoDir \/ \E w \in Workers : Replacing(w, s)

(* A process on its way to list the site.                                  *)
Listing(p, s) == job[p].site = s /\ job[p].pc \in {"measure", "upsert"}

ListedOnline ==
  \A s \in Sites :
    reg[s] = "live" \/ (\E p \in Procs : Listing(p, s)) => OnlineSoon(s)

(* Once online or about to be, a site stays so through every step of a     *)
(* worker: what displaces the live directory is itself about to replace it.*)
LEMMA OnlineSoonStays ==
  ASSUME TypeOK, NoTrash, Staged, NoRollback,
         NEW w \in Workers, WorkerStep(w), NEW s \in Sites, OnlineSoon(s)
  PROVE  OnlineSoon(s)'
<1>1. /\ w \in Procs /\ Workers \subseteq Procs
      /\ job \in [Procs -> Job] /\ live \in [Sites -> AnyDir]
      /\ job[w].pc \notin TrashPCs
      /\ job[w].op \notin TrashOps \union {"rollback"}
  BY DEF Procs, TypeOK, JobsOK, DiskOK, NoTrash, NoRollback
<1>2. \A u \in Workers : u # w => (Replacing(u, s) => Replacing(u, s)')
  BY <1>1, ControlFlow DEF Replacing
<1>3. CASE Archive(w) \/ Clear(w)
  <2>1. job[w].op \in {"publish", "rollbackTo"}
    BY <1>1, <1>3 DEF Staged, Swapping, Archive, Clear, At
  <2>2. CASE job[w].site # s
    <3>1. live'[s] = live[s] /\ ~Replacing(w, s)
      BY <1>1, <1>3, <2>2 DEF Archive, Clear, Replacing, disk
    <3> QED BY <1>2, <3>1 DEF OnlineSoon
  <2>3. CASE job[w].site = s /\ Archive(w) /\ live[s] = NoDir
    <3>1. live' = live /\ ~Replacing(w, s)
      BY <2>3 DEF Archive, Replacing, At, disk
    <3> QED BY <1>2, <3>1 DEF OnlineSoon
  <2>4. CASE job[w].site = s /\ ~(Archive(w) /\ live[s] = NoDir)
    <3>1. Replacing(w, s)'
      BY <1>1, <1>3, <2>1, <2>4 DEF Archive, Clear, Goto, Done, Replacing, Job
    <3> QED BY <3>1 DEF OnlineSoon
  <2> QED BY <2>2, <2>3, <2>4
<1>4. CASE SwapIn(w)
  <2>1. CASE live[job[w].site] # NoDir
    <3>1. live' = live
      BY <1>4, <2>1 DEF SwapIn
    <3>2. Replacing(w, s) => live[s] # NoDir
      BY <2>1 DEF Replacing
    <3> QED BY <1>2, <3>1, <3>2 DEF OnlineSoon
  <2>2. CASE live[job[w].site] = NoDir
    <3>1. job[w].stage \in Dir /\ job[w].stage # NoDir
      BY <1>1, <1>4, NoDirAssumption DEF Staged, Swapping, SwapIn, At
    <3>2. live' = [live EXCEPT ![job[w].site] = job[w].stage]
      BY <1>4, <2>2 DEF SwapIn
    <3>3. live[s] # NoDir => live'[s] # NoDir
      BY <1>1, <3>1, <3>2
    <3>4. Replacing(w, s) => live'[s] # NoDir
      BY <1>1, <3>1, <3>2 DEF Replacing
    <3> QED BY <1>2, <3>3, <3>4 DEF OnlineSoon
  <2> QED BY <2>1, <2>2
<1>5. CASE Prune(w)
  BY <1>1, <1>2, <1>5 DEF Prune, disk, Replacing, OnlineSoon, Job
<1>6. CASE Drop(w)
  <2>1. live' = live /\ (Replacing(w, s) => Replacing(w, s)')
    <3>1. CASE Goto(w, "movein")
      BY <1>1, <1>6, <3>1 DEF Drop, Goto, Replacing, Job
    <3>2. ASSUME NEW m, job' = [job EXCEPT ![w].doomed = @ \ {m}]
          PROVE  live' = live /\ (Replacing(w, s) => Replacing(w, s)')
      BY <1>1, <1>6, <3>2 DEF Drop, Replacing, Job
    <3> QED BY <1>6, <3>1, <3>2 DEF Drop
  <2> QED BY <1>2, <2>1 DEF OnlineSoon
<1>7. CASE \/ Stat(w) \/ TakeStamp(w) \/ MeasureLive(w)
           \/ Upsert(w) \/ Touch(w)
           \/ Reread(w) \/ Resize(w) \/ Detect(w) \/ Compare(w) \/ SetIcon(w)
  <2>1. live' = live
    BY <1>7 DEF Stat, TakeStamp, MeasureLive, Upsert, Touch, Reread, Resize,
       Detect, Compare, SetIcon, disk, UpsertSite, UpsertSiteTouch,
       SetSiteSize, SetSiteFavicon
  <2>2. ~Replacing(w, s)
    BY <1>7 DEF Stat, TakeStamp, MeasureLive, Upsert, Touch, Reread, Resize,
       Detect, Compare, SetIcon, Replacing, At, UpsertSite, UpsertSiteTouch,
       SetSiteSize, SetSiteFavicon
  <2> QED BY <1>2, <2>1, <2>2 DEF OnlineSoon
<1>8. ~(RollbackIn(w) \/ RestoreIn(w) \/ QStat(w) \/ QClear(w) \/ QMove(w)
        \/ QCheck(w) \/ Wipe(w))
  BY <1>1 DEF RollbackIn, RestoreIn, QStat, QClear, QMove, QCheck, Wipe, At,
     TrashPCs, TrashOps
<1> QED BY <1>3, <1>4, <1>5, <1>6, <1>7, <1>8 DEF WorkerStep

(* Listed, or about to be.                                                 *)
Bound(s) == reg[s] = "live" \/ \E p \in Procs : Listing(p, s)

(* A worker's step makes a site listed, or about to be, only when it has   *)
(* just brought the site online.                                           *)
LEMMA BoundByFiles ==
  ASSUME TypeOK, NoTrash, Staged,
         NEW w \in Workers, WorkerStep(w), NEW s \in Sites, Bound(s)'
  PROVE  Bound(s) \/ live'[s] # NoDir
<1>1. /\ w \in Procs /\ job \in [Procs -> Job] /\ live \in [Sites -> AnyDir]
      /\ vers[s] \subseteq Version
  BY DEF Procs, TypeOK, JobsOK, DiskOK
<1>2. \A p \in Procs : p # w => (Listing(p, s)' => Listing(p, s))
  BY ControlFlow DEF Listing
<1>3. reg'[s] = "live" => Bound(s)
  <2>1. CASE Upsert(w)
    BY <1>1, <2>1 DEF Upsert, At, Bound, Listing, TypeOK, RegistryOK,
       UpsertSite
  <2>2. CASE Touch(w)
    BY <2>2 DEF Touch, NoTrash, Bound, TypeOK, RegistryOK, UpsertSiteTouch,
       registry
  <2>3. CASE ~(Upsert(w) \/ Touch(w))
    <3>1. reg' = reg
      BY <2>3, Untouched
    <3> QED BY <3>1 DEF Bound
  <2> QED BY <2>1, <2>2, <2>3
<1>4. ASSUME Listing(w, s)', ~Listing(w, s)
      PROVE  Bound(s) \/ live'[s] # NoDir
  <2>1. /\ Continues(w) /\ job[w].site = s /\ job[w].pc \in PCs
        /\ job'[w].pc \in {"measure", "upsert"}
    BY <1>1, <1>4, ControlFlow DEF Listing, Idle, Continues, Job
  <2>2. job[w].pc \in {"movein", "reread"}
    BY <1>4, <2>1 DEF Continues, After, Listing, PCs
  <2>3. CASE SwapIn(w)
    BY <1>1, <2>1, <2>3, NoDirAssumption DEF SwapIn, Staged, Swapping, At,
       Done, Idle
  <2>4. CASE RollbackIn(w)
    BY <1>1, <2>1, <2>4, NoDirAssumption DEF RollbackIn, Version, Done, Idle
  <2>5. CASE Reread(w)
    BY <1>1, <2>1, <2>5 DEF Reread, Bound, Done, Idle
  <2>6. ~RestoreIn(w)
    BY <1>1 DEF RestoreIn, NoTrash, TrashOps
  <2> QED BY <2>2, <2>3, <2>4, <2>5, <2>6, ActionAt DEF At
<1> QED BY <1>2, <1>3, <1>4 DEF Bound

SwapInv == TypeOK /\ NoTrash /\ Staged /\ NoRollback /\ ListedOnline

(* SwapInv is inductive.                                                   *)
LEMMA SwapInvStep ==
  ASSUME Ops \subseteq {"publish", "rollbackTo", "favicons"}, Faults = FALSE,
         SwapInv, [Next]_vars
  PROVE  SwapInv'
<1>0. Ops \intersect TrashOps = {} /\ TypeOK' /\ NoTrash' /\ Staged'
  BY TypeStep, NoTrashStep DEF SwapInv, TrashOps
<1>1. /\ job \in [Procs -> Job] /\ live \in [Sites -> AnyDir]
      /\ Workers \subseteq Procs
  BY DEF SwapInv, TypeOK, JobsOK, DiskOK, Procs
<1>2. CASE UNCHANGED vars
  BY <1>0, <1>2 DEF SwapInv, NoRollback, ListedOnline, OnlineSoon, Replacing,
     Listing, vars, registry, disk
<1>3. ASSUME NEW w \in Workers, Begin(w)
      PROVE  SwapInv'
  <2>1. /\ UNCHANGED <<reg, live>>
        /\ \A p \in Procs : p # w => job'[p] = job[p]
        /\ job'[w].pc \in {"stat", "rbstat", "detect"}
        /\ job'[w].op # "rollback"
    BY <1>0, <1>3, BeginWithoutTrash DEF SwapInv, disk
  <2>2. job[w].pc = "idle"
    BY <1>3 DEF Begin, BeginPublish, BeginRollbackTo, BeginRollback,
       BeginUnpublish, BeginRestore, BeginPurge, BeginFavicons, MayStart, At,
       SoftDeleteSite, RestoreSite, PurgeDeletedSite, HardDeleteSite
  <2>3. ListedOnline'
    BY <1>1, <2>1, <2>2 DEF SwapInv, ListedOnline, OnlineSoon, Replacing,
       Listing
  <2> QED BY <1>0, <2>1, <2>3 DEF SwapInv, NoRollback
<1>4. ASSUME NEW w \in Workers, WorkerStep(w)
      PROVE  SwapInv'
  <2>1. NoRollback'
    BY <1>4, ControlFlow DEF SwapInv, NoRollback, Continues, Idle
  <2>2. ASSUME NEW s \in Sites, Bound(s)'
        PROVE  OnlineSoon(s)'
    <3>1. Bound(s) \/ live'[s] # NoDir
      BY <1>4, <2>2, BoundByFiles DEF SwapInv
    <3>2. Bound(s) => OnlineSoon(s)
      BY DEF SwapInv, ListedOnline, Bound
    <3> QED BY <1>4, <3>1, <3>2, OnlineSoonStays DEF SwapInv, OnlineSoon
  <2> QED BY <1>0, <2>1, <2>2 DEF SwapInv, ListedOnline, Bound
<1>5. ASSUME NEW p \in Procs, Tear(p)
      PROVE  SwapInv'
  <2>1. \A d \in Dir : TornDir(d) # NoDir
    BY NoDirAssumption DEF Dir, TornDir
  <2>2. /\ UNCHANGED <<reg, job>>
        /\ \A s \in Sites : live[s] # NoDir => live'[s] # NoDir
    BY <1>1, <1>5, <2>1 DEF Tear, registry, AnyDir
  <2> QED BY <1>0, <2>2 DEF SwapInv, NoRollback, ListedOnline, OnlineSoon,
          Replacing, Listing
<1>6. ~(\E p \in Procs : Fail(p))
  BY DEF Fail
<1>7. CASE Restart
  <2>1. \A p \in Procs : job[p].pc = "idle" /\ job'[p] = Idle
    BY <1>7 DEF Restart, AllIdle, At
  <2>2. UNCHANGED <<reg, live>>
    BY <1>7 DEF Restart, disk
  <2> QED BY <1>0, <1>1, <2>1, <2>2 DEF SwapInv, NoRollback, ListedOnline,
          OnlineSoon, Replacing, Listing, Idle
<1> QED BY <1>2, <1>3, <1>4, <1>5, <1>6, <1>7, NoJanitor DEF Next, SwapInv

(* A site that is listed is online, or a publish or a rollback to a        *)
(* revision that has displaced its files is about to put others in their   *)
(* place: for any number of requests racing on the same site, with         *)
(* versioning or without, as long as none fails and the trash and the      *)
(* rollback to the newest version are not used.                            *)
THEOREM SiteStaysOnline ==
  ASSUME Ops \subseteq {"publish", "rollbackTo", "favicons"}, Faults = FALSE
  PROVE  Spec => []SwapKeepsSiteOnline
<1>1. Init => SwapInv
  BY TypeInit DEF Init, SwapInv, NoTrash, Staged, NoRollback, ListedOnline,
     Listing, Idle, TrashOps, TrashPCs, Swapping
<1>2. SwapInv /\ [Next]_vars => SwapInv'
  BY SwapInvStep
<1>3. SwapInv => SwapKeepsSiteOnline
  BY DEF SwapInv, ListedOnline, SwapKeepsSiteOnline, OnlineSoon
<1> QED BY <1>1, <1>2, <1>3, PTL DEF Spec

-----------------------------------------------------------------------------
(* With versioning a listed site keeps some files, whatever fails. A       *)
(* pruning is harmless because every version it will drop has a newer one: *)
(* whoever drops that one too has a still newer one in view.               *)

NoClear == \A p \in Procs : job[p].pc # "clear"

HasNewer(s, n) == \E u \in vers[s] : u.stamp > n

DoomedNotLast ==
  \A p \in Procs :
    At(p, "drop") => \A n \in job[p].doomed : HasNewer(job[p].site, n)

HasFiles(s) == live[s] # NoDir \/ vers[s] # {}

ListedHasFiles == \A s \in Sites : Bound(s) => HasFiles(s)

FilesInv ==
  /\ TypeOK /\ NoTrash /\ Staged /\ NoRollback
  /\ NoClear /\ DoomedNotLast /\ ListedHasFiles

(* Pruning keeps at least one version, so what it drops has a newer one.   *)
LEMMA SuperfluousHasNewer ==
  ASSUME NEW V \in SUBSET Version, NEW n \in Superfluous(V)
  PROVE  \E u \in V : u.stamp > n
<1>1. PICK x \in V : x.stamp = n /\ Cardinality(Newer(x, V)) >= Keep
  BY DEF Superfluous
<1>2. Newer(x, V) # {}
  <2>1. Cardinality({}) = 0
    BY FS_EmptySet
  <2> QED BY <1>1, <2>1, KeepAssumption
<1> QED BY <1>1, <1>2 DEF Newer

(* What a worker's step does to the files of site s in such a deployment:  *)
(* nothing, archive the live directory, drop a doomed version, or fill the *)
(* live directory.                                                         *)
LEMMA FileSteps ==
  ASSUME FilesInv, Versioning = TRUE, NEW w \in Workers, WorkerStep(w),
         NEW s \in Sites
  PROVE  \/ live'[s] = live[s] /\ vers'[s] = vers[s]
         \/ \E v \in Version : vers'[s] = vers[s] \union {v}
         \/ /\ live'[s] = live[s] /\ At(w, "drop") /\ job[w].site = s
            /\ \E m \in job[w].doomed :
                 vers'[s] = {v \in vers[s] : v.stamp # m}
         \/ live'[s] # NoDir /\ vers'[s] = vers[s]
<1>1. /\ w \in Procs /\ live \in [Sites -> AnyDir]
      /\ vers \in [Sites -> SUBSET Version]
      /\ job[w] \in Job
      /\ job[w].pc \notin TrashPCs \union {"clear"}
      /\ job[w].op \notin TrashOps \union {"rollback"}
  BY DEF Procs, FilesInv, TypeOK, DiskOK, JobsOK, NoTrash, NoClear, NoRollback
<1>2. CASE Archive(w)
  <2>1. CASE live[job[w].site] # NoDir /\ job[w].site = s
    <3> DEFINE v == [stamp |-> job[w].name, dir |-> live[s]]
    <3>1. v \in Version
      BY <1>1, <2>1 DEF AnyDir, Version, Job
    <3>2. vers'[s] = vers[s] \union {v}
      BY <1>1, <1>2, <2>1 DEF Archive
    <3> QED BY <3>1, <3>2
  <2>2. CASE live[job[w].site] # NoDir /\ job[w].site # s
    BY <1>1, <1>2, <2>2 DEF Archive
  <2>3. CASE live[job[w].site] = NoDir
    BY <1>2, <2>3 DEF Archive
  <2> QED BY <2>1, <2>2, <2>3
<1>3. CASE Drop(w)
  <2>1. CASE job[w].site = s
    BY <1>1, <1>3, <2>1 DEF Drop, Oldest
  <2>2. CASE job[w].site # s
    BY <1>1, <1>3, <2>2 DEF Drop
  <2> QED BY <2>1, <2>2
<1>4. CASE SwapIn(w)
  <2>1. job[w].stage # NoDir
    BY <1>1, <1>4, NoDirAssumption DEF FilesInv, Staged, Swapping, SwapIn, At
  <2> QED BY <1>1, <1>4, <2>1 DEF SwapIn
<1>5. CASE \/ Stat(w) \/ TakeStamp(w) \/ Prune(w) \/ MeasureLive(w)
           \/ Upsert(w) \/ Touch(w) \/ Reread(w) \/ Resize(w) \/ Detect(w)
           \/ Compare(w) \/ SetIcon(w)
  BY <1>5 DEF Stat, TakeStamp, Prune, MeasureLive, Upsert, Touch, Reread,
     Resize, Detect, Compare, SetIcon, disk, UpsertSite, UpsertSiteTouch,
     SetSiteSize, SetSiteFavicon
<1>6. ~(Clear(w) \/ RollbackIn(w) \/ RestoreIn(w) \/ QStat(w) \/ QClear(w)
        \/ QMove(w) \/ QCheck(w) \/ Wipe(w))
  BY <1>1 DEF Clear, RollbackIn, RestoreIn, QStat, QClear, QMove, QCheck,
     Wipe, At, TrashPCs, TrashOps
<1> QED BY <1>2, <1>3, <1>4, <1>5, <1>6 DEF WorkerStep

(* A version newer than n remains as long as no step drops the newest: a   *)
(* worker that drops it holds it doomed, and so has a newer one in view.   *)
LEMMA NewerStays ==
  ASSUME FilesInv, Versioning = TRUE, NEW w \in Workers, WorkerStep(w),
         NEW s \in Sites, NEW n \in Nat, HasNewer(s, n)
  PROVE  HasNewer(s, n)'
<1>1. vers[s] \subseteq Version /\ w \in Procs /\ job[w].doomed \subseteq Nat
  BY DEF FilesInv, TypeOK, DiskOK, JobsOK, Job, Procs
<1>2. ASSUME NEW m \in job[w].doomed, At(w, "drop"), job[w].site = s,
             vers'[s] = {v \in vers[s] : v.stamp # m}
      PROVE  HasNewer(s, n)'
  <2>1. PICK u \in vers[s] : u.stamp > n
    BY DEF HasNewer
  <2>2. PICK x \in vers[s] : x.stamp > m
    BY <1>1, <1>2 DEF FilesInv, DoomedNotLast, HasNewer
  <2>3. \E y \in vers[s] : y.stamp > n /\ y.stamp # m
    BY <1>1, <2>1, <2>2 DEF Version
  <2> QED BY <1>2, <2>3 DEF HasNewer
<1>3. CASE vers[s] \subseteq vers'[s]
  BY <1>3 DEF HasNewer
<1> QED BY <1>2, <1>3, FileSteps

(* Nor does a worker's step leave a site that has files without any.       *)
LEMMA FilesStay ==
  ASSUME FilesInv, Versioning = TRUE, NEW w \in Workers, WorkerStep(w),
         NEW s \in Sites, HasFiles(s)
  PROVE  HasFiles(s)'
<1>1. vers[s] \subseteq Version /\ w \in Procs /\ job[w].doomed \subseteq Nat
  BY DEF FilesInv, TypeOK, DiskOK, JobsOK, Job, Procs
<1>2. ASSUME NEW m \in job[w].doomed, At(w, "drop"), job[w].site = s,
             vers'[s] = {v \in vers[s] : v.stamp # m}
      PROVE  HasFiles(s)'
  <2>1. PICK x \in vers[s] : x.stamp > m
    BY <1>1, <1>2 DEF FilesInv, DoomedNotLast, HasNewer
  <2> QED BY <1>1, <1>2, <2>1 DEF HasFiles, Version
<1>3. CASE \E v \in Version : vers'[s] = vers[s] \union {v}
  BY <1>3 DEF HasFiles
<1>4. CASE vers'[s] = vers[s] /\ (live'[s] = live[s] \/ live'[s] # NoDir)
  BY <1>4 DEF HasFiles
<1> QED BY <1>2, <1>3, <1>4, FileSteps

(* The inductive step of FilesInv for the steps of the workers.            *)
LEMMA WorkerKeepsFiles ==
  ASSUME Ops \intersect TrashOps = {}, Versioning = TRUE, FilesInv,
         NEW w \in Workers, WorkerStep(w)
  PROVE  FilesInv'
<1>1. TypeOK' /\ NoTrash' /\ Staged'
  BY TypeStep, NoTrashStep DEF FilesInv, Next
<1>2. /\ w \in Procs /\ job \in [Procs -> Job]
      /\ \A s \in Sites : vers[s] \in SUBSET Version
      /\ \A p \in Procs : job[p].pc # "idle" => job[p].site \in Sites
  BY DEF FilesInv, TypeOK, DiskOK, JobsOK, Procs, At
<1>3. /\ \A p \in Procs : p # w => job'[p] = job[p]
      /\ job'[w] = Idle \/ Continues(w)
  BY ControlFlow DEF FilesInv
<1>4. NoClear' /\ NoRollback'
  <2>1. job'[w].pc = "clear" => job[w].pc \in {"stat", "rbstat"}
    BY <1>2, <1>3 DEF Idle, Continues, After, FilesInv, NoTrash, TrashPCs,
       Job, PCs
  <2>2. Stat(w) => job'[w].pc # "clear"
    BY <1>2 DEF Stat, Goto, Job
  <2>3. job[w].pc \in {"stat", "rbstat"} => Stat(w)
    BY ActionAt DEF At
  <2> QED BY <1>3, <2>1, <2>2, <2>3
          DEF NoClear, NoRollback, FilesInv, Continues, Idle
<1>5. Prune(w) => /\ job'[w].doomed = Superfluous(vers[job[w].site])
                  /\ job[w].site \in Sites
                  /\ vers' = vers
  BY <1>2 DEF Prune, Job, At, disk
<1>6. DoomedNotLast'
  <2> SUFFICES ASSUME NEW p \in Procs, job'[p].pc = "drop",
                      NEW n \in job'[p].doomed, NEW s \in Sites,
                      job'[p].site = s
               PROVE  HasNewer(s, n)'
    <3>1. \A p \in Procs : job'[p].pc = "drop" => job'[p].site \in Sites
      BY <1>1 DEF TypeOK, JobsOK, At
    <3> QED BY <3>1 DEF DoomedNotLast, At, HasNewer
  <2>1. CASE p = w /\ Prune(w)
    <3>1. n \in Superfluous(vers[s]) /\ vers' = vers
      BY <1>3, <1>5, <2>1 DEF Continues, Idle
    <3>2. \E u \in vers[s] : u.stamp > n
      BY <1>2, <3>1, SuperfluousHasNewer
    <3> QED BY <3>1, <3>2 DEF HasNewer
  <2>2. CASE ~(p = w /\ Prune(w))
    <3>1. job[p].pc = "drop" /\ job[p].site = s /\ n \in job[p].doomed
      <4>1. CASE p # w
        BY <1>3, <4>1
      <4>2. CASE p = w
        <5>1. Continues(w)
          BY <1>3, <4>2 DEF Idle
        <5>2. job[w].pc = "drop" \/ job[w].pc = "prune"
          <6>1. job'[w].pc = "drop" /\ job[w].pc \in PCs
            BY <1>2, <4>2 DEF Job
          <6>2. "drop" \in After(job[w].pc)
            BY <5>1, <6>1 DEF Continues
          <6> DEFINE l == job[w].pc
          <6> HIDE DEF l
          <6>3. l \in PCs /\ "drop" \in After(l) => l \in {"drop", "prune"}
            BY ONLY DEF After, PCs
          <6> QED BY <6>1, <6>2, <6>3 DEF l
        <5>3. job[w].pc # "prune"
          BY <2>2, <4>2, ActionAt DEF At
        <5> QED BY <2>2, <4>2, <5>1, <5>2, <5>3 DEF Continues
      <4> QED BY <4>1, <4>2
    <3>2. HasNewer(s, n) /\ n \in Nat
      BY <1>2, <3>1 DEF FilesInv, DoomedNotLast, At, Job
    <3> QED BY <3>2, NewerStays
  <2> QED BY <2>1, <2>2
<1>7. ListedHasFiles'
  <2>1. ASSUME NEW s \in Sites, Bound(s)'
        PROVE  HasFiles(s)'
    <3>1. Bound(s) \/ live'[s] # NoDir
      BY <2>1, BoundByFiles DEF FilesInv
    <3>2. Bound(s) => HasFiles(s)
      BY DEF FilesInv, ListedHasFiles
    <3> QED BY <3>1, <3>2, FilesStay DEF HasFiles
  <2> QED BY <2>1 DEF ListedHasFiles
<1> QED BY <1>1, <1>4, <1>6, <1>7 DEF FilesInv

(* A partial deletion changes no version's stamp and, without a clear in   *)
(* progress, no live directory.                                            *)
LEMMA TearKeepsStamps ==
  ASSUME FilesInv, NEW p \in Procs, Tear(p), NEW s \in Sites
  PROVE  /\ UNCHANGED <<reg, job>> /\ live'[s] = live[s]
         /\ \A u \in vers[s] : \E v \in vers'[s] : v.stamp = u.stamp
<1>1. vers \in [Sites -> SUBSET Version] /\ job[p].pc # "clear"
  BY DEF FilesInv, TypeOK, DiskOK, NoClear
<1>2. CASE UNCHANGED <<live, vers>>
  BY <1>2 DEF Tear, registry
<1>3. CASE /\ UNCHANGED <<live, quar>>
           /\ \E m \in Oldest(job[p].doomed) :
                vers' = [vers EXCEPT ![job[p].site] =
                  {IF v.stamp = m THEN [v EXCEPT !.dir = TornDir(@)] ELSE v :
                     v \in @}]
  <2>1. PICK m : vers' = [vers EXCEPT ![job[p].site] =
                  {IF v.stamp = m THEN [v EXCEPT !.dir = TornDir(@)] ELSE v :
                     v \in @}]
    BY <1>3
  <2>2. CASE job[p].site = s
    <3> DEFINE f(v) == IF v.stamp = m THEN [v EXCEPT !.dir = TornDir(@)] ELSE v
    <3>1. vers'[s] = {f(v) : v \in vers[s]}
      BY <1>1, <2>1, <2>2
    <3>2. \A v \in vers[s] : f(v).stamp = v.stamp
      BY <1>1 DEF Version
    <3> HIDE DEF f
    <3> QED BY <1>3, <3>1, <3>2 DEF Tear, registry
  <2>3. CASE job[p].site # s
    BY <1>1, <1>3, <2>1, <2>3 DEF Tear, registry
  <2> QED BY <2>2, <2>3
<1> QED BY <1>1, <1>2, <1>3 DEF Tear, At

(* FilesInv is inductive.                                                  *)
LEMMA FilesInvStep ==
  ASSUME Ops \subseteq {"publish", "rollbackTo", "favicons"},
         Versioning = TRUE, FilesInv, [Next]_vars
  PROVE  FilesInv'
<1>0. /\ Ops \intersect TrashOps = {} /\ "rollback" \notin Ops
      /\ TypeOK' /\ NoTrash' /\ Staged' /\ job \in [Procs -> Job]
  BY TypeStep, NoTrashStep DEF FilesInv, TypeOK, JobsOK, TrashOps
<1>1. CASE UNCHANGED vars
  BY <1>0, <1>1 DEF FilesInv, NoClear, NoRollback, DoomedNotLast, HasNewer,
     ListedHasFiles, HasFiles, Bound, Listing, At, vars, registry, disk
<1>2. ASSUME NEW w \in Workers, Begin(w)
      PROVE  FilesInv'
  <2>1. /\ UNCHANGED <<reg, live, vers>>
        /\ \A p \in Procs : p # w => job'[p] = job[p]
        /\ job'[w].pc \in {"stat", "rbstat", "detect"}
        /\ job'[w].op # "rollback"
    BY <1>0, <1>2, BeginWithoutTrash DEF FilesInv, disk
  <2>2. NoClear' /\ NoRollback'
    BY <2>1 DEF FilesInv, NoClear, NoRollback
  <2>3. DoomedNotLast'
    BY <2>1 DEF FilesInv, DoomedNotLast, HasNewer, At
  <2>4. ListedHasFiles'
    BY <2>1 DEF FilesInv, ListedHasFiles, HasFiles, Bound, Listing
  <2> QED BY <1>0, <2>2, <2>3, <2>4 DEF FilesInv
<1>3. ASSUME NEW p \in Procs, Tear(p)
      PROVE  FilesInv'
  <2>1. UNCHANGED <<reg, job>>
    BY <1>3 DEF Tear, registry
  <2>2. \A q \in Procs : At(q, "drop") => job[q].site \in Sites
    BY DEF FilesInv, TypeOK, JobsOK, At
  <2>3. NoClear' /\ NoRollback'
    BY <2>1 DEF FilesInv, NoClear, NoRollback
  <2>4. ASSUME NEW s \in Sites, NEW n, HasNewer(s, n)
        PROVE  HasNewer(s, n)'
    BY <1>3, <2>4, TearKeepsStamps DEF HasNewer
  <2>5. DoomedNotLast'
    <3> SUFFICES ASSUME NEW q \in Procs, At(q, "drop"), NEW s \in Sites,
                        s = job[q].site, NEW n \in job[q].doomed
                 PROVE  HasNewer(s, n)'
      BY <2>1, <2>2 DEF DoomedNotLast, At, HasNewer
    <3>1. HasNewer(s, n)
      BY DEF FilesInv, DoomedNotLast
    <3> QED BY <2>4, <3>1
  <2>6. ListedHasFiles'
    BY <1>3, <2>1, TearKeepsStamps DEF FilesInv, ListedHasFiles, HasFiles,
       Bound, Listing
  <2> QED BY <1>0, <2>3, <2>5, <2>6 DEF FilesInv
<1>4. ASSUME NEW p \in Procs, Fail(p)
      PROVE  FilesInv'
  <2>1. /\ UNCHANGED <<reg, live, vers>>
        /\ \A q \in Procs : q # p => job'[q] = job[q]
        /\ ~At(p, "delete")
        /\ \/ job'[p] = Idle
           \/ /\ Continues(p) /\ job[p].pc \in Lenient
              /\ job'[p].pc # "clear"
    BY <1>4, FailFlow DEF Overlooks, FilesInv, registry, disk, NoTrash, TrashPCs, At
  <2>2. /\ job'[p].op # "rollback" /\ job'[p].pc \notin {"clear", "drop"}
        /\ \A s \in Sites : Listing(p, s)' => Listing(p, s)
    BY <2>1 DEF FilesInv, NoRollback, Continues, After, Idle, Listing, Lenient
  <2>3. NoClear' /\ NoRollback'
    BY <2>1, <2>2 DEF FilesInv, NoClear, NoRollback
  <2>4. DoomedNotLast'
    BY <2>1, <2>2 DEF FilesInv, DoomedNotLast, HasNewer, At
  <2>5. ListedHasFiles'
    <3>1. \A s \in Sites : Bound(s)' => Bound(s)
      BY <2>1, <2>2 DEF Bound, Listing
    <3> QED BY <2>1, <3>1 DEF FilesInv, ListedHasFiles, HasFiles
  <2> QED BY <1>0, <2>3, <2>4, <2>5 DEF FilesInv
<1>5. CASE Restart
  <2>1. /\ UNCHANGED <<reg, live, vers>>
        /\ \A p \in Procs : job'[p] = Idle
    BY <1>5 DEF Restart, disk
  <2>2. NoClear' /\ NoRollback' /\ DoomedNotLast' /\ ListedHasFiles'
    BY <2>1 DEF FilesInv, NoClear, NoRollback, DoomedNotLast, ListedHasFiles,
       HasFiles, Bound, Listing, At, Idle
  <2> QED BY <1>0, <2>2 DEF FilesInv
<1> QED BY <1>0, <1>1, <1>2, <1>3, <1>4, <1>5, WorkerKeepsFiles, NoJanitor
        DEF Next, FilesInv

(* With versioning on and clients that publish and roll back to revisions, *)
(* a listed site has files, on display or in its history: for any number   *)
(* of processes racing on it, any number of kept versions, failures at any *)
(* call, crashes at any point and prunings that were cut short.            *)
THEOREM FilesAlwaysSurvive ==
  ASSUME Ops \subseteq {"publish", "rollbackTo", "favicons"},
         Versioning = TRUE
  PROVE  Spec => []FilesSurvive
<1>1. Init => FilesInv
  <2> SUFFICES ASSUME Init PROVE FilesInv
    OBVIOUS
  <2>1. \A p \in Procs : job[p] = Idle
    BY DEF Init
  <2>2. NoTrash /\ Staged /\ NoClear /\ NoRollback
    BY <2>1 DEF Init, NoTrash, Staged, NoClear, NoRollback, Idle, TrashOps,
       TrashPCs, Swapping
  <2>3. DoomedNotLast /\ ListedHasFiles
    BY <2>1 DEF Init, DoomedNotLast, ListedHasFiles, Bound, Listing, Idle, At
  <2> QED BY <2>2, <2>3, TypeInit DEF FilesInv
<1>2. FilesInv /\ [Next]_vars => FilesInv'
  BY FilesInvStep
<1>3. FilesInv => FilesSurvive
  <2>1. \A s \in Sites : reg[s] = "live" => Bound(s)
    BY DEF Bound
  <2>2. FilesInv => ListedHasFiles
    BY DEF FilesInv
  <2> QED BY <2>1, <2>2 DEF ListedHasFiles, HasFiles, FilesSurvive
<1> QED BY <1>1, <1>2, <1>3, PTL DEF Spec

-----------------------------------------------------------------------------
(* The history of a site: version stamps are unique, pruning keeps the     *)
(* newest, the history stays within its bound, and what is on display goes *)
(* into it or into quarantine, while any number of processes archive,      *)
(* prune and publish the same site.                                        *)

(* A request that begins finds its process idle, moves no file and gives   *)
(* no other process anything to do.                                        *)
LEMMA BeginJob ==
  ASSUME TypeOK, NEW w \in Workers, Begin(w)
  PROVE  /\ UNCHANGED <<disk, todo>> /\ MayStart(w)
         /\ \A p \in Procs : p # w => job'[p] = job[p]
         /\ job'[w].pc \in {"stat", "rbstat", "qstat", "qcheck", "wipe",
                            "detect"}
         /\ job'[w].doomed = {}
         /\ job'[w].op = "rollback" => "rollback" \in Ops
         /\ job'[w].op = "restore" => "restore" \in Ops
         /\ job'[w].pc = "qcheck" => job'[w].op = "restore"
<1>1. PICK s \in Sites :
        \/ \E c \in Contents : BeginPublish(w, s, c)
        \/ \E v \in vers[s] : BeginRollbackTo(w, s, v)
        \/ \E v \in vers[s] : BeginRollback(w, s, v)
        \/ BeginUnpublish(w, s)
        \/ BeginRestore(w, s)
        \/ BeginPurge(w, s)
        \/ BeginFavicons(w, s)
  BY DEF Begin
<1>2. w \in Procs /\ job \in [Procs -> Job]
  BY DEF TypeOK, JobsOK, Procs
<1>3. CASE \E c \in Contents : BeginPublish(w, s, c)
  BY <1>2, <1>3 DEF BeginPublish, Idle
<1>4. CASE \E v \in vers[s] : BeginRollbackTo(w, s, v)
  BY <1>2, <1>4 DEF BeginRollbackTo, Idle
<1>5. CASE \E v \in vers[s] : BeginRollback(w, s, v)
  BY <1>2, <1>5 DEF BeginRollback, Idle
<1>6. CASE BeginUnpublish(w, s)
  BY <1>2, <1>6 DEF BeginUnpublish, Idle, SoftDeleteSite
<1>7. CASE BeginRestore(w, s)
  BY <1>2, <1>7 DEF BeginRestore, Idle, RestoreSite
<1>8. CASE BeginPurge(w, s)
  BY <1>2, <1>8 DEF BeginPurge, Idle, PurgeDeletedSite, HardDeleteSite
<1>9. CASE BeginFavicons(w, s)
  BY <1>2, <1>9 DEF BeginFavicons, Idle
<1> QED BY <1>1, <1>3, <1>4, <1>5, <1>6, <1>7, <1>8, <1>9

(* Process p is given a site of the purge loop, or goes on to delete it.   *)
Reaps(p) ==
  /\ job'[p].pc \in {"wipe", "delete"} /\ job'[p].op \in {"reap", job[p].op}
  /\ job'[p].doomed \subseteq job[p].doomed

(* What any step does to the job of a process.                             *)
LEMMA JobSteps ==
  ASSUME TypeOK, [Next]_vars, NEW p \in Procs
  PROVE  \/ job'[p] = job[p] \/ job'[p] = Idle \/ Reaps(p) \/ Overlooks(p)
         \/ p \in Workers /\ Begin(p)
         \/ p \in Workers /\ WorkerStep(p) /\ Continues(p)
<1>1. job \in [Procs -> Job] /\ Janitor \in Procs
  BY DEF TypeOK, JobsOK, Procs
<1>2. CASE UNCHANGED vars
  BY <1>2 DEF vars
<1>3. ASSUME NEW w \in Workers, Begin(w)
      PROVE  job'[p] = job[p] \/ (p \in Workers /\ Begin(p))
  <2>1. p # w => job'[p] = job[p]
    BY <1>3, BeginJob
  <2> QED BY <1>3, <2>1
<1>4. ASSUME NEW w \in Workers, WorkerStep(w)
      PROVE  \/ job'[p] = job[p] \/ job'[p] = Idle
             \/ p \in Workers /\ WorkerStep(p) /\ Continues(p)
  BY <1>4, ControlFlow
<1>5. ASSUME NEW q \in Procs, NEW rest, Advance(q, rest)
      PROVE  job'[p] = job[p] \/ job'[p] = Idle \/ Reaps(p)
  <2>1. CASE rest = {}
    BY <1>1, <1>5, <2>1 DEF Advance, Done
  <2>2. CASE rest # {}
    <3>1. PICK s \in rest :
            job' = [job EXCEPT ![q] = [Idle EXCEPT !.pc = "wipe",
                                                   !.op = "reap", !.site = s]]
      BY <1>5, <2>2 DEF Advance
    <3> QED BY <1>1, <3>1 DEF Reaps, Idle
  <2> QED BY <2>1, <2>2
<1>6. ASSUME NEW q \in Procs, At(q, "wipe"),
             Goto(q, "delete") \/ Done(q)
      PROVE  job'[p] = job[p] \/ job'[p] = Idle \/ Reaps(p)
  BY <1>1, <1>6 DEF Goto, Done, Reaps, Job
<1>7. CASE JanitorStep
  BY <1>1, <1>5, <1>6, <1>7 DEF JanitorStep, BeginReap, Wipe, DeleteSite
<1>8. CASE \E s \in Sites : Expire(s)
  BY <1>8 DEF Expire
<1>9. CASE \E q \in Procs : Tear(q)
  BY <1>9 DEF Tear
<1>10. CASE \E q \in Procs : Fail(q)
  <2>1. PICK q \in Procs : Fail(q)
    BY <1>10
  <2> QED BY <2>1, FailFlow DEF Reaps
<1>11. CASE Restart
  BY <1>11 DEF Restart
<1> QED BY <1>2, <1>3, <1>4, <1>7, <1>8, <1>9, <1>10, <1>11 DEF Next

-----------------------------------------------------------------------------
(* Version stamps. The history of a site is reasoned about through its     *)
(* stamps: a RemoveAll in progress changes a version and not its stamp.    *)

Stamps(s) == {v.stamp : v \in vers[s]}

UniqueStamps ==
  \A s \in Sites : \A u, v \in vers[s] : u.stamp = v.stamp => u = v

(* Nothing carries a stamp the clock has not given yet.                    *)
PastStamps ==
  /\ \A s \in Sites : \A n \in Stamps(s) : n < stamp
  /\ \A p \in Procs : \A n \in job[p].doomed : n < stamp

(* The stamp a process is about to archive under is its own: no version    *)
(* has it, none with it is to be pruned, no other process archives with it.*)
OwnStamp(p) ==
  /\ job[p].name < stamp
  /\ \A s \in Sites : job[p].name \notin Stamps(s)
  /\ \A q \in Procs :
       /\ job[p].name \notin job[q].doomed
       /\ At(q, "archive") /\ q # p => job[q].name # job[p].name

StampInv ==
  /\ UniqueStamps /\ PastStamps
  /\ \A s \in Sites : IsFiniteSet(Stamps(s))
  /\ \A p \in Procs : At(p, "archive") => OwnStamp(p)

(* Process w archives the live directory of s.                             *)
Archives(w, s) ==
  /\ Archive(w) /\ At(w, "archive") /\ job[w].site = s /\ job'[w].pc = "prune"
  /\ live[s] \in Dir /\ UNCHANGED stamp
  /\ vers'[s] = vers[s] \union {[stamp |-> job[w].name, dir |-> live[s]]}
  /\ Stamps(s)' = Stamps(s) \union {job[w].name}

(* Process w removes a version it has found superfluous.                   *)
Drops(w, s) ==
  /\ Drop(w) /\ At(w, "drop") /\ job[w].site = s
  /\ \E m \in job[w].doomed : /\ Stamps(s)' = Stamps(s) \ {m}
                              /\ job'[w].doomed = job[w].doomed \ {m}
                              /\ vers'[s] = {v \in vers[s] : v.stamp # m}

(* Process w moves a version of s into its live directory.                 *)
MovesOut(w, s) ==
  /\ RollbackIn(w) /\ At(w, "movein") /\ job[w].op = "rollback"
  /\ \E v \in vers[s] : /\ live'[s] = v.dir /\ vers'[s] = vers[s] \ {v}
                        /\ v.stamp = job[w].src

(* A version of s loses files, and no process moves on.                    *)
Tears(s) ==
  /\ \E p \in Procs : At(p, "drop") /\ job[p].site = s
  /\ UNCHANGED <<live, stamp, job>> /\ Stamps(s)' = Stamps(s)
  /\ UniqueStamps => \A u, v \in vers'[s] : u.stamp = v.stamp => u = v
  /\ \A v \in (vers[s] \ vers'[s]) \union (vers'[s] \ vers[s]) :
       \E p \in Procs :
         At(p, "drop") /\ job[p].site = s /\ v.stamp \in job[p].doomed

(* Archiving fails, and ends the operation, when there is nothing online.  *)
LEMMA ArchiveSteps ==
  ASSUME TypeOK, NEW w \in Workers, Archive(w), NEW s \in Sites
  PROVE  /\ s # job[w].site => vers'[s] = vers[s]
         /\ s = job[w].site =>
              \/ Archives(w, s)
              \/ vers' = vers /\ live' = live /\ job'[w] = Idle
<1>1. /\ vers \in [Sites -> SUBSET Version] /\ live \in [Sites -> AnyDir]
      /\ job \in [Procs -> Job] /\ w \in Procs
  BY DEF TypeOK, DiskOK, JobsOK, Procs
<1>2. CASE s # job[w].site
  BY <1>1, <1>2 DEF Archive
<1>4. CASE s = job[w].site /\ live[s] = NoDir
  BY <1>1, <1>4 DEF Archive, Done
<1>3. CASE s = job[w].site /\ live[s] # NoDir
  <2>1. /\ At(w, "archive") /\ UNCHANGED stamp
        /\ job' = [job EXCEPT ![w].pc = "prune", ![w].name = 0]
        /\ vers' = [vers EXCEPT ![s] =
                      @ \union {[stamp |-> job[w].name, dir |-> live[s]]}]
    BY <1>3 DEF Archive
  <2>2. job'[w].pc = "prune" /\ live[s] \in Dir
    BY <1>1, <1>3, <2>1 DEF AnyDir, Job
  <2> DEFINE r == [stamp |-> job[w].name, dir |-> live[s]]
  <2>3. r.stamp = job[w].name /\ vers'[s] = vers[s] \union {r}
    BY <1>1, <2>1
  <2> HIDE DEF r
  <2>4. Stamps(s)' = Stamps(s) \union {job[w].name}
    BY <2>3 DEF Stamps
  <2>5. Archives(w, s)
    BY <1>3, <2>1, <2>2, <2>3, <2>4 DEF Archives, r
  <2> QED BY <1>3, <2>5
<1> QED BY <1>2, <1>3, <1>4

(* What a step does to the history of a site.                              *)
LEMMA HistorySteps ==
  ASSUME TypeOK, [Next]_vars, NEW s \in Sites
  PROVE  \/ vers'[s] = vers[s]
         \/ \E w \in Workers : Archives(w, s) \/ Drops(w, s) \/ MovesOut(w, s)
         \/ Tears(s)
<1>1. /\ vers \in [Sites -> SUBSET Version] /\ live \in [Sites -> AnyDir]
      /\ job \in [Procs -> Job] /\ Workers \subseteq Procs
  BY DEF TypeOK, DiskOK, JobsOK, Procs
<1>2. CASE UNCHANGED vars
  BY <1>2 DEF vars
<1>3. ASSUME NEW w \in Workers, Begin(w)
      PROVE  vers' = vers
  BY <1>3, BeginJob DEF disk
<1>4. ASSUME NEW w \in Workers, Archive(w), vers'[s] # vers[s]
      PROVE  Archives(w, s)
  BY <1>4, ArchiveSteps
<1>5. ASSUME NEW w \in Workers, Drop(w), vers'[s] # vers[s]
      PROVE  Drops(w, s)
  <2>1. PICK m \in Oldest(job[w].doomed) :
          /\ vers' = [vers EXCEPT ![job[w].site] = {v \in @ : v.stamp # m}]
          /\ job' = [job EXCEPT ![w].doomed = @ \ {m}]
    BY <1>5 DEF Drop
  <2>2. /\ job[w].site = s /\ vers'[s] = {v \in vers[s] : v.stamp # m}
        /\ m \in job[w].doomed /\ job'[w].doomed = job[w].doomed \ {m}
    BY <1>1, <1>5, <2>1 DEF Oldest, Job
  <2>3. Stamps(s)' = Stamps(s) \ {m}
    BY <2>2 DEF Stamps
  <2> QED BY <1>5, <2>2, <2>3 DEF Drops, Drop
<1>6. ASSUME NEW w \in Workers, RollbackIn(w), vers'[s] # vers[s]
      PROVE  MovesOut(w, s)
  BY <1>1, <1>6 DEF RollbackIn, MovesOut
<1>7. ASSUME NEW w \in Workers, WorkerStep(w),
             ~Archive(w), ~Drop(w), ~RollbackIn(w)
      PROVE  vers' = vers
  BY <1>7 DEF WorkerStep, Stat, TakeStamp, Prune, Clear, SwapIn, RestoreIn,
     MeasureLive, Upsert, Touch, Reread, Resize, Detect, Compare, SetIcon,
     QStat, QClear, QMove, QCheck, Wipe, disk
<1>8. CASE JanitorStep
  BY <1>8 DEF JanitorStep, BeginReap, Wipe, DeleteSite, disk
<1>9. CASE \E t \in Sites : Expire(t)
  BY <1>9 DEF Expire, disk
<1>10. ASSUME NEW p \in Procs, Tear(p), vers'[s] # vers[s]
       PROVE  Tears(s)
  <2>1. /\ At(p, "drop") /\ UNCHANGED <<live, stamp, job>>
        /\ \E m \in Oldest(job[p].doomed) :
             vers' = [vers EXCEPT ![job[p].site] =
               {IF v.stamp = m THEN [v EXCEPT !.dir = TornDir(@)] ELSE v :
                  v \in @}]
    BY <1>10 DEF Tear
  <2>2. PICK m \in Oldest(job[p].doomed) :
             vers' = [vers EXCEPT ![job[p].site] =
               {IF v.stamp = m THEN [v EXCEPT !.dir = TornDir(@)] ELSE v :
                  v \in @}]
    BY <2>1
  <2> DEFINE f(v) == IF v.stamp = m THEN [v EXCEPT !.dir = TornDir(@)] ELSE v
  <2>3. job[p].site = s /\ vers'[s] = {f(v) : v \in vers[s]}
    BY <1>1, <1>10, <2>2
  <2>4. \A v \in vers[s] : f(v).stamp = v.stamp /\ (v.stamp # m => f(v) = v)
    BY <1>1 DEF Version
  <2>5. m \in job[p].doomed
    BY <2>2 DEF Oldest
  <2> HIDE DEF f
  <2>6. Stamps(s)' = Stamps(s)
    BY <2>3, <2>4 DEF Stamps
  <2>7. \A v \in vers'[s] \ vers[s] : v.stamp = m
    BY <2>3, <2>4
  <2>8. UniqueStamps => \A u, v \in vers'[s] : u.stamp = v.stamp => u = v
    BY <2>3, <2>4 DEF UniqueStamps
  <2>9. \A v \in vers[s] \ vers'[s] : v.stamp = m
    BY <2>3, <2>4
  <2> QED BY <2>1, <2>3, <2>5, <2>6, <2>7, <2>8, <2>9 DEF Tears
<1>11. CASE \E p \in Procs : Fail(p)
  BY <1>11 DEF Fail, disk
<1>12. CASE Restart
  BY <1>12 DEF Restart, disk
<1> QED BY <1>2, <1>3, <1>4, <1>5, <1>6, <1>7, <1>8, <1>9, <1>10, <1>11, <1>12
        DEF Next

(* Only archiveVersion reads the clock.                                    *)
LEMMA ClockSteps ==
  ASSUME TypeOK, [Next]_vars
  PROVE  stamp' = stamp \/ \E w \in Workers : TakeStamp(w)
<1>1. ASSUME NEW w \in Workers, WorkerStep(w), ~TakeStamp(w)
      PROVE  stamp' = stamp
  BY <1>1, Untouched
<1>2. ASSUME NEW w \in Workers, Begin(w)
      PROVE  stamp' = stamp
  BY <1>2, BeginJob DEF disk
<1> QED BY <1>1, <1>2 DEF Next, JanitorStep, BeginReap, Wipe, DeleteSite,
        Expire, Tear, Fail, Restart, disk, vars

(* A process about to archive was about to before, or has just been given  *)
(* its stamp.                                                              *)
LEMMA ArchiverSteps ==
  ASSUME TypeOK, [Next]_vars, NEW p \in Procs, At(p, "archive")'
  PROVE  \/ job'[p] = job[p]
         \/ /\ p \in Workers /\ TakeStamp(p)
            /\ job'[p].name = stamp /\ stamp' = stamp + 1
<1>1. job[p] \in Job /\ job \in [Procs -> Job]
  BY DEF TypeOK, JobsOK
<1>2. job'[p].pc = "archive"
  BY DEF At
<1>3. ASSUME p \in Workers, WorkerStep(p), Continues(p)
      PROVE  TakeStamp(p)
  <2>1. job[p].pc = "stamp"
    BY <1>1, <1>2, <1>3 DEF Continues, After, Job, PCs
  <2> QED BY <1>3, <2>1, ActionAt DEF At
<1>4. TakeStamp(p) => job'[p].name = stamp /\ stamp' = stamp + 1
  BY <1>1 DEF TakeStamp
<1>5. ~Reaps(p) /\ job'[p] # Idle /\ ~Overlooks(p)
  BY <1>1, <1>2 DEF Reaps, Idle, Overlooks, Continues, After, Lenient
<1>6. p \in Workers => ~Begin(p)
  BY <1>2, BeginJob
<1> QED BY <1>3, <1>4, <1>5, <1>6, JobSteps

(* A process in pruneVersions was in it before, on the same site and with  *)
(* as much or more to remove, or has just listed the history.              *)
LEMMA DropperSteps ==
  ASSUME TypeOK, [Next]_vars, NEW p \in Procs
  PROVE  /\ \/ job'[p].doomed \subseteq job[p].doomed
            \/ p \in Workers /\ Prune(p)
         /\ At(p, "drop")' =>
              \/ /\ At(p, "drop") /\ job'[p].site = job[p].site
                 /\ job'[p].doomed \subseteq job[p].doomed
              \/ p \in Workers /\ Prune(p)
<1>1. job[p] \in Job /\ job \in [Procs -> Job]
  BY DEF TypeOK, JobsOK
<1>2. ASSUME p \in Workers, WorkerStep(p), Continues(p), At(p, "drop")',
             ~Prune(p)
      PROVE  At(p, "drop") /\ job'[p].site = job[p].site
  <2>1. job[p].pc \in {"prune", "drop"}
    BY <1>1, <1>2 DEF Continues, After, Job, PCs, At
  <2>2. job[p].pc # "prune"
    BY <1>2, ActionAt DEF At
  <2> QED BY <1>2, <2>1, <2>2 DEF At, Continues
<1>3. CASE job'[p] = job[p] \/ job'[p] = Idle \/ Reaps(p)
  BY <1>1, <1>3 DEF At, Idle, Reaps
<1>4. CASE p \in Workers /\ Begin(p)
  <2>1. job'[p].doomed = {} /\ job'[p].pc # "drop"
    BY <1>4, BeginJob
  <2> QED BY <2>1 DEF At
<1>5. CASE p \in Workers /\ WorkerStep(p) /\ Continues(p)
  BY <1>2, <1>5 DEF Continues
<1>6. CASE Overlooks(p)
  BY <1>6 DEF Overlooks, Continues, After, Lenient, At
<1> QED BY <1>3, <1>4, <1>5, <1>6, JobSteps

(* Listing the history changes nothing but the plan of the one who lists.  *)
LEMMA PruneJob ==
  ASSUME TypeOK, NEW w \in Workers, Prune(w)
  PROVE  /\ UNCHANGED <<live, vers, stamp>> /\ job[w].site \in Sites
         /\ job'[w].doomed = Superfluous(vers[job[w].site])
         /\ job'[w].site = job[w].site /\ job'[w].pc = "drop"
         /\ At(w, "prune")
         /\ \A p \in Procs : p # w => job'[p] = job[p]
<1>1. job \in [Procs -> Job] /\ w \in Procs
  BY DEF TypeOK, JobsOK, Procs
<1>2. At(w, "prune") /\ job[w] \in Job /\ job[w].site \in Sites
  BY <1>1, BusyJob DEF Prune, TypeOK, At
<1> QED BY <1>1, <1>2 DEF Prune, Job, disk

(* StampInv holds initially and is inductive.                              *)
LEMMA StampInvInit == Init => StampInv
<1> SUFFICES ASSUME Init PROVE StampInv
  OBVIOUS
<1>1. \A s \in Sites : vers[s] = {} /\ Stamps(s) = {}
  BY DEF Init, Stamps
<1>2. \A p \in Procs : job[p].pc = "idle" /\ job[p].doomed = {}
  BY DEF Init, Idle
<1> QED BY <1>1, <1>2, FS_EmptySet DEF StampInv, UniqueStamps, PastStamps, At

(* Stamps stay unique and of the past, in any deployment.                  *)
LEMMA StampInvStep ==
  ASSUME TypeOK, StampInv, [Next]_vars
  PROVE  StampInv'
<1>1. /\ job \in [Procs -> Job] /\ stamp \in Nat
      /\ \A p \in Procs : job[p].doomed \subseteq Nat /\ job[p].name \in Nat
      /\ \A s \in Sites : vers[s] \subseteq Version /\ Stamps(s) \subseteq Nat
      /\ Workers \subseteq Procs
  BY DEF TypeOK, JobsOK, DiskOK, Job, Version, Stamps, Procs
<1>2. stamp' \in Nat /\ stamp <= stamp'
  <2>1. stamp' = stamp \/ stamp' = stamp + 1
    BY ClockSteps DEF TakeStamp
  <2>2. stamp \in Nat
    BY <1>1
  <2> QED BY ONLY <2>1, <2>2
<1>3. ASSUME NEW s \in Sites
      PROVE  \/ Stamps(s)' \subseteq Stamps(s)
             \/ \E w \in Workers :
                  /\ At(w, "archive") /\ Archives(w, s)
                  /\ Stamps(s)' = Stamps(s) \union {job[w].name}
  <2>1. \A w \in Workers : MovesOut(w, s) => Stamps(s)' \subseteq Stamps(s)
    BY DEF MovesOut, Stamps
  <2>2. \A w \in Workers : Drops(w, s) => Stamps(s)' \subseteq Stamps(s)
    BY DEF Drops
  <2>3. vers'[s] = vers[s] \/ Tears(s) => Stamps(s)' = Stamps(s)
    BY DEF Tears, Stamps
  <2> QED BY <2>1, <2>2, <2>3, HistorySteps DEF Archives
<1>4. ASSUME NEW s \in Sites
      PROVE  IsFiniteSet(Stamps(s)')
  <2>1. IsFiniteSet(Stamps(s))
    BY DEF StampInv
  <2> QED BY <1>3, <2>1, FS_Subset, FS_AddElement
<1>5. ASSUME NEW s \in Sites, NEW n \in Stamps(s)'
      PROVE  n < stamp'
  <2>1. n < stamp /\ n \in Nat
    BY <1>1, <1>3, <1>5 DEF StampInv, PastStamps, OwnStamp
  <2> QED BY <1>1, <1>2, <2>1
<1>6. ASSUME NEW p \in Procs, NEW n \in job'[p].doomed
      PROVE  n < stamp'
  <2>1. n \in job[p].doomed \/ (p \in Workers /\ Prune(p))
    BY <1>6, DropperSteps
  <2>2. CASE n \in job[p].doomed
    <3>1. n < stamp /\ n \in Nat
      BY <1>1, <2>2 DEF StampInv, PastStamps
    <3> QED BY <1>1, <1>2, <3>1
  <2>3. CASE p \in Workers /\ Prune(p)
    <3>1. n \in Superfluous(vers[job[p].site]) /\ job[p].site \in Sites
      BY <1>6, <2>3, PruneJob
    <3>2. n \in Stamps(job[p].site)
      BY <3>1 DEF Superfluous, Stamps
    <3>3. n < stamp /\ n \in Nat
      BY <1>1, <3>1, <3>2 DEF StampInv, PastStamps
    <3> QED BY <1>1, <1>2, <3>3
  <2> QED BY <2>1, <2>2, <2>3
<1>7. ASSUME NEW s \in Sites
      PROVE  \A u, v \in vers'[s] : u.stamp = v.stamp => u = v
  <2>1. CASE Tears(s)
    BY <2>1 DEF Tears, StampInv
  <2>2. ASSUME NEW w \in Workers, Archives(w, s)
        PROVE  \A u, v \in vers'[s] : u.stamp = v.stamp => u = v
    <3> DEFINE r == [stamp |-> job[w].name, dir |-> live[s]]
    <3>1. vers'[s] = vers[s] \union {r} /\ r.stamp = job[w].name
      BY <2>2 DEF Archives
    <3>2. \A v \in vers[s] : v.stamp # job[w].name
      BY <1>1, <2>2 DEF Archives, StampInv, OwnStamp, Stamps
    <3> HIDE DEF r
    <3> QED BY <3>1, <3>2 DEF StampInv, UniqueStamps
  <2>3. CASE vers'[s] \subseteq vers[s]
    BY <2>3 DEF StampInv, UniqueStamps
  <2>4. \A w \in Workers :
          Drops(w, s) \/ MovesOut(w, s) => vers'[s] \subseteq vers[s]
    BY DEF Drops, MovesOut
  <2> QED BY <2>1, <2>2, <2>3, <2>4, HistorySteps
<1>8. ASSUME NEW p \in Procs, At(p, "archive")'
      PROVE  OwnStamp(p)'
  <2>1. CASE job'[p] = job[p]
    <3>1. At(p, "archive") /\ OwnStamp(p)
      BY <1>8, <2>1 DEF At, StampInv
    <3>2. job[p].name < stamp'
      BY <1>1, <1>2, <3>1 DEF OwnStamp
    <3>3. ASSUME NEW s \in Sites
          PROVE  job[p].name \notin Stamps(s)'
      <4>1. \A w \in Workers : Archives(w, s) => w # p
        BY <1>1, <1>8, <2>1 DEF Archives, At
      <4> QED BY <1>1, <1>3, <3>1, <4>1 DEF OwnStamp
    <3>4. ASSUME NEW q \in Procs
          PROVE  job[p].name \notin job'[q].doomed
      <4>1. CASE job'[q].doomed \subseteq job[q].doomed
        BY <3>1, <4>1 DEF OwnStamp
      <4>2. CASE q \in Workers /\ Prune(q)
        <5>1. /\ job[q].site \in Sites
              /\ job'[q].doomed \subseteq Stamps(job[q].site)
          BY <4>2, PruneJob DEF Superfluous, Stamps
        <5> QED BY <3>1, <5>1 DEF OwnStamp
      <4> QED BY <4>1, <4>2, DropperSteps
    <3>5. ASSUME NEW q \in Procs, At(q, "archive")', q # p
          PROVE  job'[q].name # job[p].name
      <4>1. CASE job'[q] = job[q]
        BY <3>1, <3>5, <4>1 DEF OwnStamp, At
      <4>2. CASE job'[q].name = stamp
        BY <1>1, <3>1, <4>2 DEF OwnStamp
      <4> QED BY <3>5, <4>1, <4>2, ArchiverSteps
    <3> QED BY <2>1, <3>2, <3>3, <3>4, <3>5 DEF OwnStamp
  <2>2. CASE /\ p \in Workers /\ TakeStamp(p)
             /\ job'[p].name = stamp /\ stamp' = stamp + 1
    <3>1. UNCHANGED vers /\ \A q \in Procs : q # p => job'[q] = job[q]
      BY <1>1, <2>2 DEF TakeStamp
    <3>2. job'[p].doomed = job[p].doomed
      BY <1>1, <2>2 DEF TakeStamp, Job
    <3>3. \A s \in Sites : stamp \notin Stamps(s)'
      BY <1>1, <3>1 DEF StampInv, PastStamps, Stamps
    <3>4. \A q \in Procs : stamp \notin job'[q].doomed
      BY <1>1, <3>1, <3>2 DEF StampInv, PastStamps
    <3>5. \A q \in Procs : q # p /\ At(q, "archive") => job[q].name # stamp
      BY <1>1 DEF StampInv, OwnStamp
    <3> QED BY <1>1, <2>2, <3>1, <3>3, <3>4, <3>5 DEF OwnStamp, At
  <2> QED BY <1>8, <2>1, <2>2, ArchiverSteps
<1> QED BY <1>4, <1>5, <1>6, <1>7, <1>8 DEF StampInv, UniqueStamps, PastStamps

-----------------------------------------------------------------------------
(* Who runs beside whom.                                                   *)

OneAtATime ==
  \A p, q \in Procs : p # q => At(p, "idle") \/ At(q, "idle")

(* Rolling back to the newest version takes it out of the history.         *)
RollbackAlone ==
  \A p, q \in Procs :
    p # q /\ ~At(p, "idle") /\ job[p].op = "rollback" => At(q, "idle")

(* A process that starts was free to, and the others do not move.          *)
LEMMA StartSteps ==
  ASSUME TypeOK, [Next]_vars, NEW p \in Procs, At(p, "idle"), ~At(p, "idle")'
  PROVE  MayStart(p) /\ \A q \in Procs : q # p => job'[q] = job[q]
<1>1. /\ job \in [Procs -> Job] /\ Janitor \in Procs /\ Workers \subseteq Procs
      /\ job[p].pc = "idle" /\ job'[p].pc # "idle"
  BY DEF TypeOK, JobsOK, Procs, At
<1>2. ASSUME NEW w \in Workers, Begin(w)
      PROVE  MayStart(p) /\ \A q \in Procs : q # p => job'[q] = job[q]
  <2>1. MayStart(w) /\ \A q \in Procs : q # w => job'[q] = job[q]
    BY <1>2, BeginJob
  <2>2. p = w
    BY <1>1, <2>1
  <2> QED BY <2>1, <2>2
<1>3. ASSUME NEW w \in Workers, WorkerStep(w)
      PROVE  FALSE
  BY <1>1, <1>3, ActionAt, ControlFlow DEF At
<1>4. ASSUME NEW q \in Procs, NEW rest, Advance(q, rest)
      PROVE  \A r \in Procs : r # q => job'[r] = job[r]
  BY <1>1, <1>4 DEF Advance, Done
<1>5. CASE BeginReap
  <2>1. p = Janitor
    BY <1>1, <1>4, <1>5 DEF BeginReap
  <2> QED BY <1>1, <1>4, <1>5, <2>1 DEF BeginReap
<1>6. ~Wipe(Janitor)
  BY <1>1 DEF Wipe, At, Goto, Done
<1>7. ~DeleteSite
  BY <1>1, <1>4 DEF DeleteSite, At
<1>8. ASSUME NEW q \in Procs, Fail(q)
      PROVE  FALSE
  BY <1>1, <1>8, FailFlow DEF At
<1> QED BY <1>1, <1>2, <1>3, <1>5, <1>6, <1>7, <1>8
        DEF Next, JanitorStep, Expire, Tear, Restart, Idle, vars

(* Serial operation: no two processes are ever busy at once.               *)
LEMMA OneAtATimeStep ==
  ASSUME Serial = TRUE, TypeOK, OneAtATime, [Next]_vars
  PROVE  OneAtATime'
<1> SUFFICES ASSUME NEW p \in Procs, NEW q \in Procs, p # q,
                    ~At(p, "idle")', ~At(q, "idle")'
             PROVE  FALSE
  BY DEF OneAtATime
<1>1. \A r, t \in Procs :
        r # t /\ At(r, "idle") /\ ~At(r, "idle")' => At(t, "idle")'
  BY StartSteps DEF MayStart, AllIdle, At
<1> QED BY <1>1 DEF OneAtATime

(* A deployment whose clients do not roll back to the newest version.      *)
LEMMA NoRollbackStep ==
  ASSUME "rollback" \notin Ops, TypeOK, NoRollback, [Next]_vars
  PROVE  NoRollback'
<1> SUFFICES ASSUME NEW p \in Procs
             PROVE  job'[p].op # "rollback"
  BY DEF NoRollback
<1>1. job[p].op # "rollback"
  BY DEF NoRollback
<1> QED BY <1>1, JobSteps, BeginJob DEF Idle, Reaps, Overlooks, Continues

-----------------------------------------------------------------------------
(* What a pruning removes has Keep newer versions, to the moment it goes.  *)

NewerStamps(s, n) == {m \in Stamps(s) : m > n}

Outdated(s, n) == Cardinality(NewerStamps(s, n)) >= Keep

DoomedOutdated ==
  \A p \in Procs :
    At(p, "drop") =>
      \A n \in job[p].doomed : n \in Stamps(job[p].site)
                                 => Outdated(job[p].site, n)

(* Versions are as many as their stamps when no two share one.             *)
LEMMA CountByStamp ==
  ASSUME NEW V, NEW S, IsFiniteSet(S), S = {v.stamp : v \in V},
         \A u, v \in V : u.stamp = v.stamp => u = v
  PROVE  IsFiniteSet(V) /\ Cardinality(V) = Cardinality(S)
<1> DEFINE f == [v \in V |-> v.stamp]
<1>1. f \in [V -> S]
  OBVIOUS
<1>2. f \in Injection(V, S)
  BY <1>1 DEF Injection, IsInjective
<1>3. f \in Surjection(V, S)
  BY <1>1 DEF Surjection
<1> HIDE DEF f
<1> QED BY <1>2, <1>3, FS_Injection

(* The newer versions of a version, counted by their stamps.               *)
LEMMA NewerCount ==
  ASSUME TypeOK, StampInv, NEW s \in Sites, NEW v \in vers[s]
  PROVE  Cardinality(Newer(v, vers[s])) = Cardinality(NewerStamps(s, v.stamp))
<1> DEFINE V == Newer(v, vers[s])
<1>1. NewerStamps(s, v.stamp) = {u.stamp : u \in V}
  BY DEF NewerStamps, Stamps, Newer
<1>2. IsFiniteSet(NewerStamps(s, v.stamp))
  <2>1. IsFiniteSet(Stamps(s)) /\ NewerStamps(s, v.stamp) \subseteq Stamps(s)
    BY DEF StampInv, NewerStamps
  <2> QED BY <2>1, FS_Subset
<1>3. \A u, x \in V : u.stamp = x.stamp => u = x
  BY DEF Newer, StampInv, UniqueStamps
<1> HIDE DEF V
<1> QED BY <1>1, <1>2, <1>3, CountByStamp DEF V

(* More newer stamps: as outdated as before.                               *)
LEMMA OutdatedStays ==
  ASSUME NEW s \in Sites, NEW n, NEW m, Outdated(s, m),
         IsFiniteSet(Stamps(s)'),
         NewerStamps(s, m) \subseteq NewerStamps(s, n)'
  PROVE  Outdated(s, n)'
<1>1. IsFiniteSet(NewerStamps(s, n)')
  <2>1. NewerStamps(s, n)' \subseteq Stamps(s)'
    BY DEF NewerStamps
  <2> QED BY <2>1, FS_Subset
<1>2. IsFiniteSet(NewerStamps(s, m))
  BY <1>1, FS_Subset
<1>3. /\ Cardinality(NewerStamps(s, m)) <= Cardinality(NewerStamps(s, n)')
      /\ Cardinality(NewerStamps(s, m)) \in Nat
      /\ Cardinality(NewerStamps(s, n)') \in Nat
  BY <1>1, <1>2, FS_Subset, FS_CardinalityType
<1>4. Cardinality(NewerStamps(s, m)) >= Keep
  BY DEF Outdated
<1>5. Cardinality(NewerStamps(s, n)') >= Keep
  BY <1>3, <1>4, KeepAssumption
<1> QED BY <1>5 DEF Outdated

(* DoomedOutdated is inductive as long as no rollback takes a version out  *)
(* of the history while another process prunes it.                         *)
LEMMA DoomedOutdatedStep ==
  ASSUME TypeOK, StampInv, RollbackAlone, DoomedOutdated, [Next]_vars
  PROVE  DoomedOutdated'
<1> SUFFICES ASSUME NEW p \in Procs, At(p, "drop")', NEW s, s = job'[p].site,
                    NEW n \in job'[p].doomed, n \in Stamps(s)'
             PROVE  Outdated(s, n)'
  BY DEF DoomedOutdated, At, Outdated, NewerStamps, Stamps
<1>1. CASE p \in Workers /\ Prune(p)
  <2>1. /\ vers' = vers /\ s \in Sites /\ n \in Superfluous(vers[s])
    BY <1>1, PruneJob
  <2>2. PICK x \in vers[s] :
          x.stamp = n /\ Cardinality(Newer(x, vers[s])) >= Keep
    BY <2>1 DEF Superfluous
  <2>3. Outdated(s, n)
    BY <2>1, <2>2, NewerCount DEF Outdated
  <2> QED BY <2>1, <2>3 DEF Outdated, NewerStamps, Stamps
<1>2. CASE /\ At(p, "drop") /\ job'[p].site = job[p].site
           /\ job'[p].doomed \subseteq job[p].doomed
  <2>1. s \in Sites /\ n \in job[p].doomed /\ s = job[p].site
    BY <1>2, BusyJob DEF TypeOK, At
  <2>2. Stamps(s) \subseteq Nat /\ n \in Nat
    BY <2>1 DEF TypeOK, DiskOK, JobsOK, Version, Job, Stamps
  <2>3. n \in Stamps(s) => Outdated(s, n)
    BY <1>2, <2>1 DEF DoomedOutdated
  <2>4. IsFiniteSet(Stamps(s)')
    BY <2>1, StampInvStep DEF StampInv
  <2>5. CASE Stamps(s) \subseteq Stamps(s)' /\ n \in Stamps(s)
    <3>1. NewerStamps(s, n) \subseteq NewerStamps(s, n)'
      BY <2>5 DEF NewerStamps
    <3> QED BY <2>1, <2>3, <2>4, <2>5, <3>1, OutdatedStays
  <2>6. CASE vers'[s] = vers[s] \/ Tears(s)
    BY <2>5, <2>6 DEF Tears, Stamps
  <2>7. ASSUME NEW w \in Workers, Archives(w, s)
        PROVE  Outdated(s, n)'
    <3>1. job[w].name # n
      BY <2>1, <2>7 DEF Archives, StampInv, OwnStamp, Procs
    <3> QED BY <2>5, <2>7, <3>1 DEF Archives
  <2>8. ASSUME NEW w \in Workers, Drops(w, s)
        PROVE  Outdated(s, n)'
    <3>1. PICK m \in job[w].doomed : Stamps(s)' = Stamps(s) \ {m}
      BY <2>8 DEF Drops
    <3>2. n \in Stamps(s)
      BY <3>1
    <3>3. CASE m \in Stamps(s) /\ m > n
      <4>1. Outdated(s, m)
        BY <2>8, <3>1, <3>3 DEF DoomedOutdated, Drops, Procs
      <4>2. NewerStamps(s, m) \subseteq NewerStamps(s, n)'
        BY <2>2, <3>1, <3>3 DEF NewerStamps
      <4> QED BY <2>1, <2>4, <4>1, <4>2, OutdatedStays
    <3>4. CASE m \notin Stamps(s)
      BY <2>5, <3>1, <3>2, <3>4
    <3>5. CASE m \in Stamps(s) /\ ~(m > n)
      <4>1. NewerStamps(s, n) \subseteq NewerStamps(s, n)'
        BY <2>2, <3>1, <3>5 DEF NewerStamps
      <4> QED BY <2>1, <2>3, <2>4, <3>2, <4>1, OutdatedStays
    <3> QED BY <3>3, <3>4, <3>5
  <2>9. ASSUME NEW w \in Workers, MovesOut(w, s)
        PROVE  FALSE
    BY <1>2, <2>9 DEF MovesOut, RollbackAlone, Procs, At
  <2> QED BY <2>1, <2>6, <2>7, <2>8, <2>9, HistorySteps
<1> QED BY <1>1, <1>2, DropperSteps

PruneInv ==
  /\ TypeOK /\ StampInv /\ DoomedOutdated
  /\ "rollback" \in Ops => OneAtATime
  /\ "rollback" \notin Ops => NoRollback

(* A version leaves the history only to go online, or with Keep newer ones *)
(* remaining: for any number of processes that archive and prune the same  *)
(* site at once, and wherever they fail or the process dies, as long as    *)
(* rolling back to the newest version is not used, or only ever alone.     *)
THEOREM PruningKeepsNewest ==
  ASSUME "rollback" \notin Ops \/ Serial = TRUE
  PROVE  Spec => PruneKeepsNewest
<1>1. Init => PruneInv
  <2>1. Init => DoomedOutdated /\ OneAtATime /\ NoRollback
    BY DEF Init, DoomedOutdated, OneAtATime, NoRollback, At, Idle
  <2> QED BY <2>1, TypeInit, StampInvInit DEF PruneInv
<1>2. PruneInv => RollbackAlone
  BY DEF PruneInv, RollbackAlone, OneAtATime, NoRollback, TypeOK, JobsOK, At
<1>3. PruneInv /\ [Next]_vars => PruneInv'
  BY <1>2, TypeStep, StampInvStep, DoomedOutdatedStep, OneAtATimeStep,
     NoRollbackStep DEF PruneInv
<1>4. ASSUME PruneInv, [Next]_vars, NEW s \in Sites,
             NEW v \in vers[s] \ vers'[s]
      PROVE  \/ live'[s] = v.dir
             \/ Cardinality(Newer(v, vers[s])) >= Keep
  <2>1. v.stamp \in Stamps(s)
    BY DEF Stamps
  <2>2. ASSUME NEW p \in Procs, At(p, "drop"), job[p].site = s,
               v.stamp \in job[p].doomed
        PROVE  Cardinality(Newer(v, vers[s])) >= Keep
    BY <1>4, <2>1, <2>2, NewerCount DEF PruneInv, DoomedOutdated, Outdated
  <2>3. \A w \in Workers :
          Drops(w, s) => /\ At(w, "drop") /\ job[w].site = s
                         /\ v.stamp \in job[w].doomed
    BY DEF Drops
  <2>4. \A w \in Workers : ~Archives(w, s)
    BY DEF Archives
  <2>5. \A w \in Workers : MovesOut(w, s) => live'[s] = v.dir
    BY DEF MovesOut
  <2>6. Tears(s) => \E p \in Procs : /\ At(p, "drop") /\ job[p].site = s
                                     /\ v.stamp \in job[p].doomed
    BY DEF Tears
  <2> QED BY <1>4, <2>2, <2>3, <2>4, <2>5, <2>6, HistorySteps
          DEF PruneInv, Procs
<1>5. PruneInv /\ [Next]_vars
        => [\A s \in Sites : \A v \in vers[s] \ vers'[s] :
              \/ live'[s] = v.dir
              \/ Cardinality(Newer(v, vers[s])) >= Keep]_vars
  BY <1>4
<1> QED BY <1>1, <1>3, <1>5, PTL DEF Spec, PruneKeepsNewest

-----------------------------------------------------------------------------
(* How far the history can outgrow Keep.                                   *)

Dropping(s) == {w \in Workers : job[w].site = s /\ At(w, "drop")}

(* The stamps that no process of Q is going to remove.                     *)
Spared(s, Q) == {n \in Stamps(s) : \A q \in Q : n \notin job[q].doomed}

(* Whichever of the processes that have listed the history are done first, *)
(* what they leave exceeds Keep by no more than the other processes that   *)
(* have archived and not finished pruning.                                 *)
SparedBounded ==
  \A s \in Sites : \A Q \in SUBSET Dropping(s) :
    Cardinality(Spared(s, Q)) <= Keep + Cardinality(Pruning(s) \ Q)

BoundInv ==
  /\ TypeOK /\ StampInv /\ SparedBounded
  /\ \A s \in Sites : IsFiniteSet(Pruning(s))

(* Counting a part of a finite set.                                        *)
LEMMA CountPart ==
  ASSUME NEW S, IsFiniteSet(S), NEW T, T \subseteq S
  PROVE  /\ IsFiniteSet(T) /\ Cardinality(T) <= Cardinality(S)
         /\ Cardinality(T) \in Nat /\ Cardinality(S) \in Nat
BY FS_Subset, FS_CardinalityType

(* A version that is newer than another has fewer newer ones.              *)
LEMMA FewerNewer ==
  ASSUME NEW V \in SUBSET Version, IsFiniteSet(V), NEW u \in V, NEW v \in V,
         u.stamp > v.stamp
  PROVE  Cardinality(Newer(u, V)) < Cardinality(Newer(v, V))
<1>1. u.stamp \in Nat /\ v.stamp \in Nat /\ \A x \in V : x.stamp \in Nat
  BY DEF Version
<1>2. Newer(u, V) \subseteq Newer(v, V) /\ u \in Newer(v, V) \ Newer(u, V)
  BY <1>1 DEF Newer
<1>3. IsFiniteSet(Newer(v, V))
  BY CountPart DEF Newer
<1>4. Cardinality(Newer(u, V)) # Cardinality(Newer(v, V))
  BY <1>2, <1>3, FS_Subset
<1> QED BY <1>2, <1>3, <1>4, CountPart

(* pruneVersions lists all but at most Keep of the versions for removal.   *)
LEMMA SuperfluousLeavesKeep ==
  ASSUME NEW V \in SUBSET Version, NEW S, S = {v.stamp : v \in V},
         IsFiniteSet(S), \A u, v \in V : u.stamp = v.stamp => u = v
  PROVE  Cardinality(S \ Superfluous(V)) <= Keep
<1> DEFINE R == {v \in V : v.stamp \notin Superfluous(V)}
           I == 0 .. (Keep - 1)
           f == [v \in R |-> Cardinality(Newer(v, V))]
<1>1. IsFiniteSet(V)
  BY CountByStamp
<1>2. IsFiniteSet(I) /\ Cardinality(I) = Keep
  BY FS_Interval, KeepAssumption
<1>3. ASSUME NEW v \in R
      PROVE  Cardinality(Newer(v, V)) \in I
  <2>1. Cardinality(Newer(v, V)) \in Nat
    BY <1>1, CountPart DEF Newer
  <2>2. ~(Cardinality(Newer(v, V)) >= Keep)
    BY DEF Superfluous
  <2> QED BY <2>1, <2>2, KeepAssumption
<1>4. ASSUME NEW u \in R, NEW v \in R,
             Cardinality(Newer(u, V)) = Cardinality(Newer(v, V))
      PROVE  u = v
  <2>1. u.stamp \in Nat /\ v.stamp \in Nat
    BY DEF Version
  <2>2. /\ Cardinality(Newer(u, V)) \in Nat
    BY <1>1, CountPart DEF Newer
  <2>3. ~(u.stamp > v.stamp) /\ ~(v.stamp > u.stamp)
    BY <1>1, <1>4, <2>2, FewerNewer
  <2> QED BY <2>1, <2>3
<1>5. f \in Injection(R, I)
  BY <1>3, <1>4 DEF Injection, IsInjective
<1>6. S \ Superfluous(V) = {v.stamp : v \in R}
  OBVIOUS
<1>7. IsFiniteSet(S \ Superfluous(V))
  BY CountPart
<1>8. \A u, v \in R : u.stamp = v.stamp => u = v
  OBVIOUS
<1> HIDE DEF R, I, f
<1>9. Cardinality(R) <= Keep
  BY <1>2, <1>5, FS_Injection
<1> QED BY <1>6, <1>7, <1>8, <1>9, CountByStamp

(* Without failures a worker's job changes by its own steps only.          *)
LEMMA OwnSteps ==
  ASSUME Faults = FALSE, TypeOK, [Next]_vars, NEW w \in Workers
  PROVE  \/ job'[w] = job[w] \/ WorkerStep(w)
         \/ At(w, "idle") /\ (Begin(w) \/ job'[w] = Idle)
<1>1. /\ job \in [Procs -> Job] /\ Workers \subseteq Procs
      /\ Janitor \in Procs \ Workers
  BY JanitorAssumption DEF TypeOK, JobsOK, Procs
<1>2. CASE UNCHANGED vars
  BY <1>2 DEF vars
<1>3. ASSUME NEW u \in Workers, Begin(u)
      PROVE  job'[w] = job[w] \/ (At(w, "idle") /\ Begin(w))
  <2>1. MayStart(u) /\ \A p \in Procs : p # u => job'[p] = job[p]
    BY <1>3, BeginJob
  <2> QED BY <1>1, <1>3, <2>1 DEF MayStart
<1>4. ASSUME NEW u \in Workers, WorkerStep(u)
      PROVE  job'[w] = job[w] \/ WorkerStep(w)
  BY <1>1, <1>4, ControlFlow
<1>5. ASSUME JanitorStep
      PROVE  job'[w] = job[w]
  BY <1>1, <1>5 DEF JanitorStep, BeginReap, Wipe, DeleteSite, Advance, Goto,
     Done
<1>6. CASE Restart
  BY <1>1, <1>6 DEF Restart, AllIdle
<1> QED BY <1>2, <1>3, <1>4, <1>5, <1>6 DEF Next, Expire, Tear, Fail

(* A worker joins those pruning a site by archiving there; from then on    *)
(* only its own Prune and Drop steps concern its standing among them.      *)
LEMMA PruningSteps ==
  ASSUME Faults = FALSE, TypeOK, [Next]_vars, NEW s \in Sites,
         NEW w \in Workers, ~Archives(w, s), ~Prune(w), ~Drop(w)
  PROVE  /\ (w \in Pruning(s))' <=> w \in Pruning(s)
         /\ (w \in Dropping(s))' <=> w \in Dropping(s)
         /\ w \in Dropping(s) => job'[w].doomed = job[w].doomed
<1>1. job[w] \in Job /\ w \in Procs
  BY DEF TypeOK, JobsOK, Procs
<1>2. CASE job'[w] = job[w]
  BY <1>2 DEF Pruning, Dropping, At
<1>3. CASE At(w, "idle") /\ (Begin(w) \/ job'[w] = Idle)
  <2>1. job'[w].pc \notin {"prune", "drop"} /\ job[w].pc = "idle"
    BY <1>3, BeginJob DEF Idle, At
  <2> QED BY <2>1 DEF Pruning, Dropping, At
<1>4. CASE WorkerStep(w)
  <2>1. job[w].pc \notin {"prune", "drop"}
    BY <1>4, ActionAt DEF At
  <2>2. ASSUME job'[w].pc \in {"prune", "drop"}, job'[w].site = s
        PROVE  FALSE
    <3>1. Continues(w) /\ job[w].site = s
      BY <1>4, <2>2, ControlFlow DEF Idle, Continues
    <3>2. job[w].pc = "archive"
      BY <1>1, <2>1, <2>2, <3>1 DEF Continues, After, Job, PCs
    <3>3. Archive(w)
      BY <1>4, <3>2, ActionAt DEF At
    <3> QED BY <2>2, <3>1, <3>3, ArchiveSteps DEF Idle
  <2> QED BY <2>1, <2>2 DEF Pruning, Dropping, At
<1> QED BY <1>2, <1>3, <1>4, OwnSteps

(* The bound is kept when no process begins or ends its pruning and none   *)
(* has less to spare than before.                                          *)
LEMMA SparedStays ==
  ASSUME BoundInv, NEW s \in Sites, NEW Q, Q \subseteq Dropping(s),
         Spared(s, Q)' \subseteq Spared(s, Q), Pruning(s)' = Pruning(s)
  PROVE  Cardinality(Spared(s, Q)') <= Keep + Cardinality(Pruning(s)' \ Q)
<1>1. Cardinality(Spared(s, Q)) <= Keep + Cardinality(Pruning(s) \ Q)
  BY DEF BoundInv, SparedBounded
<1>2. IsFiniteSet(Spared(s, Q))
  BY CountPart DEF BoundInv, StampInv, Spared
<1>3. Cardinality(Pruning(s) \ Q) \in Nat
  BY CountPart DEF BoundInv
<1>4. /\ Cardinality(Spared(s, Q)') <= Cardinality(Spared(s, Q))
      /\ Cardinality(Spared(s, Q)') \in Nat
      /\ Cardinality(Spared(s, Q)) \in Nat
  BY <1>2, CountPart
<1>5. Cardinality(Spared(s, Q)') <= Keep + Cardinality(Pruning(s) \ Q)
  BY <1>1, <1>3, <1>4, KeepAssumption
<1> QED BY <1>5

(* BoundInv is inductive.                                                  *)
LEMMA BoundInvStep ==
  ASSUME Faults = FALSE, BoundInv, [Next]_vars
  PROVE  BoundInv'
<1>1. TypeOK' /\ StampInv'
  BY TypeStep, StampInvStep DEF BoundInv
<1>2. TypeOK /\ StampInv
  BY DEF BoundInv
<1>3. job \in [Procs -> Job] /\ Workers \subseteq Procs
  BY <1>2 DEF TypeOK, JobsOK, Procs
<1> SUFFICES ASSUME NEW s \in Sites
             PROVE  /\ IsFiniteSet(Pruning(s)')
                    /\ \A Q \in SUBSET (Dropping(s)') :
                         Cardinality(Spared(s, Q)')
                           <= Keep + Cardinality(Pruning(s)' \ Q)
  BY <1>1 DEF BoundInv, SparedBounded
<1> DEFINE Goal == /\ IsFiniteSet(Pruning(s)')
                   /\ \A Q \in SUBSET (Dropping(s)') :
                        Cardinality(Spared(s, Q)')
                          <= Keep + Cardinality(Pruning(s)' \ Q)
<1>4. /\ IsFiniteSet(Pruning(s))
      /\ Stamps(s) \subseteq Nat /\ IsFiniteSet(Stamps(s))
  BY DEF BoundInv, StampInv, TypeOK, DiskOK, Version, Stamps
<1>5. ASSUME Pruning(s)' = Pruning(s),
             ASSUME NEW Q \in SUBSET (Dropping(s)')
             PROVE  /\ Q \subseteq Dropping(s)
                    /\ Spared(s, Q)' \subseteq Spared(s, Q)
      PROVE  Goal
  BY <1>4, <1>5, SparedStays
<1>6. ASSUME NEW w \in Workers, Archives(w, s)
      PROVE  Goal
  <2>1. /\ WorkerStep(w) /\ w \in Procs /\ job[w].pc = "archive"
        /\ \A u \in Workers : u # w => job'[u] = job[u]
    BY <1>2, <1>3, <1>6, ControlFlow DEF Archives, WorkerStep, At
  <2>2. job'[w].pc = "prune" /\ job'[w].site = s
    BY <1>2, <1>6, <2>1, ControlFlow DEF Archives, Idle, Continues
  <2>3. /\ Pruning(s)' = Pruning(s) \union {w} /\ w \notin Pruning(s)
        /\ Dropping(s)' = Dropping(s) /\ w \notin Dropping(s)
    BY <2>1, <2>2 DEF Pruning, Dropping, At
  <2>4. ASSUME NEW Q \in SUBSET (Dropping(s)')
        PROVE  Cardinality(Spared(s, Q)')
                 <= Keep + Cardinality(Pruning(s)' \ Q)
    <3>1. Q \subseteq Dropping(s) /\ w \notin Q
      BY <2>3
    <3>2. Cardinality(Spared(s, Q)) <= Keep + Cardinality(Pruning(s) \ Q)
      BY <3>1 DEF BoundInv, SparedBounded
    <3>3. Spared(s, Q)' \subseteq Spared(s, Q) \union {job[w].name}
      BY <1>6, <2>1, <3>1 DEF Archives, Spared, Dropping
    <3>4. IsFiniteSet(Spared(s, Q)) /\ Cardinality(Spared(s, Q)) \in Nat
      BY <1>4, CountPart DEF Spared
    <3>5. /\ IsFiniteSet(Spared(s, Q) \union {job[w].name})
          /\ Cardinality(Spared(s, Q) \union {job[w].name})
               <= Cardinality(Spared(s, Q)) + 1
          /\ Cardinality(Spared(s, Q) \union {job[w].name}) \in Nat
      BY <3>4, FS_AddElement
    <3>6. /\ Cardinality(Spared(s, Q)')
               <= Cardinality(Spared(s, Q) \union {job[w].name})
          /\ Cardinality(Spared(s, Q)') \in Nat
      BY <3>3, <3>5, CountPart
    <3>7. /\ IsFiniteSet(Pruning(s) \ Q) /\ Cardinality(Pruning(s) \ Q) \in Nat
      BY <1>4, CountPart
    <3>8. Pruning(s)' \ Q = (Pruning(s) \ Q) \union {w}
      BY <2>3, <3>1
    <3>9. Cardinality(Pruning(s)' \ Q) = Cardinality(Pruning(s) \ Q) + 1
      BY <2>3, <3>7, <3>8, FS_AddElement
    <3> QED BY <3>2, <3>4, <3>5, <3>6, <3>7, <3>9, KeepAssumption
  <2>5. IsFiniteSet(Pruning(s)')
    BY <1>4, <2>3, FS_AddElement
  <2> QED BY <2>4, <2>5
<1>7. ASSUME NEW w \in Workers, Prune(w)
      PROVE  Goal
  <2>1. /\ WorkerStep(w) /\ w \in Procs /\ vers' = vers
        /\ job[w].pc = "prune" /\ job'[w].pc = "drop"
        /\ job'[w].site = job[w].site
        /\ job'[w].doomed = Superfluous(vers[job[w].site])
        /\ \A u \in Workers : u # w => job'[u] = job[u]
    BY <1>2, <1>3, <1>7, PruneJob DEF WorkerStep, At
  <2>2. /\ Pruning(s)' = Pruning(s)
        /\ job[w].site # s => /\ Dropping(s)' = Dropping(s)
                              /\ w \notin Dropping(s)
        /\ job[w].site = s => Dropping(s)' = Dropping(s) \union {w}
    BY <2>1 DEF Pruning, Dropping, At
  <2>3. ASSUME NEW Q \in SUBSET (Dropping(s)')
        PROVE  Cardinality(Spared(s, Q)')
                 <= Keep + Cardinality(Pruning(s)' \ Q)
    <3>1. CASE w \notin Q
      <4>1. Q \subseteq Dropping(s)
        BY <2>2, <3>1
      <4>2. Spared(s, Q)' \subseteq Spared(s, Q)
        BY <2>1, <3>1, <4>1 DEF Spared, Stamps, Dropping
      <4> QED BY <2>2, <4>1, <4>2, SparedStays
    <3>2. CASE w \in Q
      <4>1. job[w].site = s
        BY <2>1, <2>2, <3>2
      <4>2. Spared(s, Q)' \subseteq Stamps(s) \ Superfluous(vers[s])
        BY <2>1, <3>2, <4>1 DEF Spared, Stamps
      <4>3. Cardinality(Stamps(s) \ Superfluous(vers[s])) <= Keep
        BY <1>2, <1>4, SuperfluousLeavesKeep
           DEF Stamps, StampInv, UniqueStamps, TypeOK, DiskOK
      <4>4. IsFiniteSet(Stamps(s) \ Superfluous(vers[s]))
        BY <1>4, CountPart
      <4>5. /\ Cardinality(Spared(s, Q)')
                 <= Cardinality(Stamps(s) \ Superfluous(vers[s]))
            /\ Cardinality(Spared(s, Q)') \in Nat
            /\ Cardinality(Stamps(s) \ Superfluous(vers[s])) \in Nat
        BY <4>2, <4>4, CountPart
      <4>6. Cardinality(Pruning(s)' \ Q) \in Nat
        BY <1>4, <2>2, CountPart
      <4> QED BY <4>3, <4>5, <4>6, KeepAssumption
    <3> QED BY <3>1, <3>2
  <2> QED BY <1>4, <2>2, <2>3
<1>8. ASSUME NEW w \in Workers, Drop(w)
      PROVE  Goal
  <2>1. /\ WorkerStep(w) /\ w \in Procs /\ job[w].pc = "drop"
        /\ \A u \in Workers : u # w => job'[u] = job[u]
    BY <1>2, <1>3, <1>8, ControlFlow DEF WorkerStep, Drop, At
  <2>2. CASE Goto(w, "movein") /\ job[w].doomed = {} /\ vers' = vers
    <3>1. job'[w].pc = "movein" /\ job'[w].site = job[w].site
      BY <1>3, <2>1, <2>2 DEF Goto, Job
    <3>2. /\ Pruning(s)' = Pruning(s) \ {w}
          /\ Dropping(s)' = Dropping(s) \ {w}
          /\ job[w].site # s => w \notin Pruning(s)
          /\ job[w].site = s => w \in Dropping(s)
      BY <2>1, <3>1 DEF Pruning, Dropping, At
    <3>3. ASSUME NEW Q \in SUBSET (Dropping(s)')
          PROVE  /\ Q \subseteq Dropping(s) /\ w \notin Q
                 /\ Spared(s, Q)' = Spared(s, Q)
      <4>1. Q \subseteq Dropping(s) /\ w \notin Q
        BY <3>2
      <4>2. Spared(s, Q)' = Spared(s, Q)
        BY <2>1, <2>2, <4>1 DEF Spared, Stamps, Dropping
      <4> QED BY <4>1, <4>2
    <3>4. CASE job[w].site # s
      <4>1. Pruning(s)' = Pruning(s)
        BY <3>2, <3>4
      <4>2. ASSUME NEW Q \in SUBSET (Dropping(s)')
            PROVE  /\ Q \subseteq Dropping(s)
                   /\ Spared(s, Q)' \subseteq Spared(s, Q)
        BY <3>3
      <4> QED BY <1>5, <4>1, <4>2
    <3>5. ASSUME job[w].site = s, NEW Q \in SUBSET (Dropping(s)')
          PROVE  Cardinality(Spared(s, Q)')
                   <= Keep + Cardinality(Pruning(s)' \ Q)
      <4> DEFINE R == Q \union {w}
      <4>1. R \in SUBSET Dropping(s)
        BY <3>2, <3>3, <3>5
      <4>2. Cardinality(Spared(s, R)) <= Keep + Cardinality(Pruning(s) \ R)
        BY <4>1 DEF BoundInv, SparedBounded
      <4>3. Spared(s, R) = Spared(s, Q)'
        <5>1. Spared(s, R) = Spared(s, Q)
          BY <2>2 DEF Spared
        <5> QED BY <3>3, <5>1
      <4>4. Pruning(s) \ R = Pruning(s)' \ Q
        BY <3>2
      <4> QED BY <4>2, <4>3, <4>4
    <3>6. IsFiniteSet(Pruning(s)')
      BY <1>4, <3>2, CountPart
    <3> QED BY <3>4, <3>5, <3>6
  <2>3. ASSUME NEW m \in Oldest(job[w].doomed),
               vers' = [vers EXCEPT ![job[w].site] = {v \in @ : v.stamp # m}],
               job' = [job EXCEPT ![w].doomed = @ \ {m}]
        PROVE  Goal
    <3>1. /\ job'[w].pc = "drop" /\ job'[w].site = job[w].site
          /\ job'[w].doomed = job[w].doomed \ {m}
      BY <1>3, <2>1, <2>3 DEF Job
    <3>2. Pruning(s)' = Pruning(s) /\ Dropping(s)' = Dropping(s)
      BY <2>1, <3>1 DEF Pruning, Dropping, At
    <3>3. Stamps(s)' \subseteq Stamps(s)
      BY <1>2, <2>3 DEF Stamps, TypeOK, DiskOK
    <3>4. w \in Dropping(s) => m \notin Stamps(s)'
      BY <1>2, <2>3 DEF Stamps, TypeOK, DiskOK, Dropping
    <3>5. ASSUME NEW Q \in SUBSET (Dropping(s)')
          PROVE  /\ Q \subseteq Dropping(s)
                 /\ Spared(s, Q)' \subseteq Spared(s, Q)
      BY <2>1, <3>1, <3>2, <3>3, <3>4 DEF Spared, Dropping
    <3> QED BY <1>5, <3>2, <3>5
  <2> QED BY <1>8, <2>2, <2>3 DEF Drop
<1>9. CASE \A w \in Workers : ~Archives(w, s) /\ ~Prune(w) /\ ~Drop(w)
  <2>1. /\ Pruning(s)' = Pruning(s) /\ Dropping(s)' = Dropping(s)
        /\ \A w \in Dropping(s) : job'[w].doomed = job[w].doomed
    <3>1. \A w \in Workers :
            /\ (w \in Pruning(s))' <=> w \in Pruning(s)
            /\ (w \in Dropping(s))' <=> w \in Dropping(s)
            /\ w \in Dropping(s) => job'[w].doomed = job[w].doomed
      BY <1>2, <1>9, PruningSteps
    <3> QED BY <3>1 DEF Pruning, Dropping
  <2>2. Stamps(s)' \subseteq Stamps(s)
    <3>1. \A w \in Workers : MovesOut(w, s) => Stamps(s)' \subseteq Stamps(s)
      BY DEF MovesOut, Stamps
    <3>2. \A w \in Workers : ~Drops(w, s)
      BY <1>9 DEF Drops
    <3>3. vers'[s] = vers[s] \/ Tears(s) => Stamps(s)' = Stamps(s)
      BY DEF Tears, Stamps
    <3> QED BY <1>2, <1>9, <3>1, <3>2, <3>3, HistorySteps
  <2>3. ASSUME NEW Q \in SUBSET (Dropping(s)')
        PROVE  Q \subseteq Dropping(s) /\ Spared(s, Q)' \subseteq Spared(s, Q)
    BY <2>1, <2>2 DEF Spared
  <2> QED BY <1>5, <2>1, <2>3
<1> QED BY <1>6, <1>7, <1>8, <1>9

(* However many requests archive the same site at once, its history has at *)
(* most Keep versions, and one for each of them that has archived and not  *)
(* finished pruning: whatever operations the clients use, as long as no    *)
(* call fails.                                                             *)
THEOREM HistoryBounded ==
  ASSUME Faults = FALSE
  PROVE  Spec => []VersionsBounded
<1>1. Init => BoundInv
  <2> SUFFICES ASSUME Init
               PROVE  \A s \in Sites :
                        /\ IsFiniteSet(Pruning(s))
                        /\ \A Q \in SUBSET Dropping(s) :
                             Cardinality(Spared(s, Q))
                               <= Keep + Cardinality(Pruning(s) \ Q)
    BY TypeInit, StampInvInit DEF BoundInv, SparedBounded
  <2>1. \A s \in Sites : Pruning(s) = {} /\ \A Q : Spared(s, Q) = {}
    BY DEF Init, Pruning, Spared, Stamps, Idle, Procs
  <2>2. IsFiniteSet({}) /\ Cardinality({}) = 0 /\ \A Q : {} \ Q = {}
    BY FS_EmptySet
  <2>3. Keep + 0 >= 0
    BY KeepAssumption
  <2>4. ASSUME NEW s \in Sites, NEW Q
        PROVE  Cardinality(Spared(s, Q)) <= Keep + Cardinality(Pruning(s) \ Q)
    BY ONLY <2>1, <2>2, <2>3
  <2> QED BY <2>1, <2>2, <2>4
<1>2. BoundInv /\ [Next]_vars => BoundInv'
  BY BoundInvStep
<1>3. BoundInv => VersionsBounded
  <2> SUFFICES ASSUME BoundInv, NEW s \in Sites
               PROVE  Cardinality(vers[s]) <= Keep + Cardinality(Pruning(s))
    BY DEF VersionsBounded
  <2>1. Cardinality(vers[s]) = Cardinality(Stamps(s))
    BY CountByStamp DEF BoundInv, StampInv, UniqueStamps, Stamps
  <2>2. Spared(s, {}) = Stamps(s) /\ Pruning(s) \ {} = Pruning(s)
    BY DEF Spared
  <2>3. Cardinality(Spared(s, {})) <= Keep + Cardinality(Pruning(s) \ {})
    BY DEF BoundInv, SparedBounded
  <2> QED BY <2>1, <2>2, <2>3
<1> QED BY <1>1, <1>2, <1>3, PTL DEF Spec

-----------------------------------------------------------------------------
(* What is on display is moved away, never deleted in place.               *)

(* What a step does to the live directory of a site.                       *)
LEMMA LiveSteps ==
  ASSUME TypeOK, [Next]_vars, NEW s \in Sites
  PROVE  \/ live'[s] = live[s]
         \/ \E w \in Workers :
              /\ live[s] = NoDir /\ job[w].site = s /\ At(w, "movein")
              /\ SwapIn(w) \/ RollbackIn(w) \/ RestoreIn(w)
         \/ \E w \in Workers : Archives(w, s)
         \/ \E w \in Workers :
              At(w, "qmove") /\ quar'[s] = live[s] /\ live'[s] = NoDir
         \/ \E p \in Procs : At(p, "clear") /\ job[p].site = s
<1>1. /\ live \in [Sites -> AnyDir] /\ quar \in [Sites -> AnyDir]
      /\ Workers \subseteq Procs
  BY DEF TypeOK, DiskOK, Procs
<1>2. ASSUME NEW w \in Workers, Archive(w), live'[s] # live[s]
      PROVE  Archives(w, s)
  BY <1>1, <1>2, ArchiveSteps DEF Archive
<1>3. ASSUME NEW w \in Workers, SwapIn(w) \/ RollbackIn(w) \/ RestoreIn(w),
             live'[s] # live[s]
      PROVE  live[s] = NoDir /\ job[w].site = s /\ At(w, "movein")
  BY <1>1, <1>3 DEF SwapIn, RollbackIn, RestoreIn
<1>4. ASSUME NEW w \in Workers, QMove(w), live'[s] # live[s]
      PROVE  At(w, "qmove") /\ quar'[s] = live[s] /\ live'[s] = NoDir
  BY <1>1, <1>4 DEF QMove
<1>5. ASSUME NEW w \in Workers, Clear(w), live'[s] # live[s]
      PROVE  At(w, "clear") /\ job[w].site = s
  BY <1>1, <1>5 DEF Clear
<1>6. ASSUME NEW w \in Workers, WorkerStep(w), ~Archive(w), ~SwapIn(w),
             ~RollbackIn(w), ~RestoreIn(w), ~QMove(w), ~Clear(w)
      PROVE  live' = live
  BY <1>6 DEF WorkerStep, Stat, TakeStamp, Prune, Drop, MeasureLive, Upsert,
     Touch, Reread, Resize, Detect, Compare, SetIcon, QStat, QClear, QCheck,
     Wipe, disk
<1>7. ASSUME NEW w \in Workers, Begin(w)
      PROVE  live' = live
  BY <1>7, BeginJob DEF disk
<1>8. ASSUME NEW p \in Procs, Tear(p), live'[s] # live[s]
      PROVE  At(p, "clear") /\ job[p].site = s
  BY <1>1, <1>8 DEF Tear
<1>9. CASE JanitorStep \/ (\E t \in Sites : Expire(t))
           \/ (\E p \in Procs : Fail(p)) \/ Restart \/ UNCHANGED vars
  BY <1>9 DEF JanitorStep, BeginReap, Wipe, DeleteSite, Expire, Fail, Restart,
     disk, vars
<1> QED BY <1>1, <1>2, <1>3, <1>4, <1>5, <1>6, <1>7, <1>8, <1>9 DEF Next

(* With versioning only Restore removes a live directory.                  *)
NoRestore == \A p \in Procs : job[p].pc \notin {"qcheck", "clear"}

(* Without Restore no process gets to clear a live directory.              *)
LEMMA NoRestoreStep ==
  ASSUME Versioning = TRUE, "restore" \notin Ops,
         TypeOK, NoRestore, [Next]_vars
  PROVE  NoRestore'
<1> SUFFICES ASSUME NEW p \in Procs
             PROVE  job'[p].pc \notin {"qcheck", "clear"}
  BY DEF NoRestore
<1>1. /\ job \in [Procs -> Job] /\ job[p].pc \notin {"qcheck", "clear"}
      /\ job[p].pc \in PCs
  BY DEF TypeOK, JobsOK, Job, NoRestore
<1>2. CASE p \in Workers /\ WorkerStep(p) /\ Continues(p)
  <2>1. CASE job[p].pc \in {"stat", "rbstat"}
    <3>1. Stat(p)
      BY <1>2, <2>1, ActionAt DEF At
    <3> QED BY <1>1, <3>1 DEF Stat, Goto, Job
  <2>2. CASE job[p].pc \notin {"stat", "rbstat"}
    BY <1>1, <1>2, <2>2 DEF Continues, After, PCs
  <2> QED BY <2>1, <2>2
<1>3. CASE p \in Workers /\ Begin(p)
  BY <1>3, BeginJob
<1>4. CASE Overlooks(p)
  BY <1>1, <1>4 DEF Overlooks, Continues, After, Lenient
<1> QED BY <1>1, <1>2, <1>3, <1>4, JobSteps DEF Reaps, Idle

(* Whatever was on display is in the history or in quarantine the moment   *)
(* it is not on display any more: for any number of processes that         *)
(* publish, roll back, unpublish and purge the same sites at once, and     *)
(* wherever they fail, as long as versioning is on and nothing is restored *)
(* from the trash.                                                         *)
THEOREM DisplayedIsKept ==
  ASSUME Versioning = TRUE, "restore" \notin Ops
  PROVE  Spec => NothingOverwritten
<1> DEFINE Inv == TypeOK /\ NoRestore
<1>1. Init => Inv
  BY TypeInit DEF Init, NoRestore, Idle
<1>2. Inv /\ [Next]_vars => Inv'
  BY TypeStep, NoRestoreStep
<1>3. ASSUME Inv, [Next]_vars, NEW s \in Sites,
             live[s] # NoDir, live'[s] # live[s]
      PROVE  live[s] \in {v.dir : v \in vers'[s]} \union {quar'[s]}
  <2>1. ASSUME NEW w \in Workers, Archives(w, s)
        PROVE  live[s] \in {v.dir : v \in vers'[s]}
    <3> DEFINE r == [stamp |-> job[w].name, dir |-> live[s]]
    <3>1. r \in vers'[s] /\ r.dir = live[s]
      BY <2>1 DEF Archives
    <3> HIDE DEF r
    <3> QED BY <3>1
  <2>2. \A p \in Procs : ~At(p, "clear")
    BY <1>3 DEF NoRestore, At
  <2> QED BY <1>3, <2>1, <2>2, LiveSteps
<1>4. Inv /\ [Next]_vars
        => [\A s \in Sites :
              live[s] # NoDir /\ live'[s] # live[s]
                => live[s] \in {v.dir : v \in vers'[s]} \union {quar'[s]}]_vars
  BY <1>3
<1> QED BY <1>1, <1>2, <1>4, PTL DEF Spec, NothingOverwritten

(* The content a process stages is whole: it comes from an upload.         *)
Uploads ==
  \A p \in Procs :
    /\ job[p].op \notin {"rollback", "rollbackTo", "restore"}
    /\ job[p].pc \in Swapping => job[p].stage \in Dir /\ ~job[p].stage.torn

(* Where clients only publish, unpublish and purge, everything staged is   *)
(* an upload.                                                              *)
LEMMA UploadsStep ==
  ASSUME Ops \intersect {"rollback", "rollbackTo", "restore"} = {},
         TypeOK, NoRestore, Uploads, [Next]_vars
  PROVE  Uploads'
<1> SUFFICES ASSUME NEW p \in Procs
             PROVE  /\ job'[p].op \notin {"rollback", "rollbackTo", "restore"}
                    /\ job'[p].pc \in Swapping
                         => job'[p].stage \in Dir /\ ~job'[p].stage.torn
  BY DEF Uploads
<1>1. job \in [Procs -> Job] /\ job[p].pc \in PCs
  BY DEF TypeOK, JobsOK, Job
<1>2. CASE p \in Workers /\ Begin(p)
  <2>1. PICK s \in Sites :
          \/ \E c \in Contents : BeginPublish(p, s, c)
          \/ BeginUnpublish(p, s) \/ BeginPurge(p, s) \/ BeginFavicons(p, s)
    BY <1>2 DEF Begin, BeginRollbackTo, BeginRollback, BeginRestore
  <2>2. CASE \E c \in Contents : BeginPublish(p, s, c)
    BY <1>1, <2>2 DEF BeginPublish, Idle, Whole, Dir
  <2>3. CASE BeginUnpublish(p, s) \/ BeginPurge(p, s) \/ BeginFavicons(p, s)
    <3>1. /\ job'[p].op \in {"unpublish", "purge", "favicons"}
          /\ job'[p].pc \in {"qstat", "wipe", "detect"}
      BY <1>1, <2>3 DEF BeginUnpublish, BeginPurge, BeginFavicons, Idle
    <3> QED BY <3>1 DEF Swapping
  <2> QED BY <2>1, <2>2, <2>3
<1>3. CASE p \in Workers /\ WorkerStep(p) /\ Continues(p)
  <2>1. job'[p].pc \in Swapping => job[p].pc \in Swapping
    BY <1>1, <1>3 DEF Continues, After, Swapping, PCs, NoRestore
  <2> QED BY <1>3, <2>1 DEF Continues, Uploads
<1>4. CASE job'[p] = job[p] \/ job'[p] = Idle \/ Reaps(p)
  BY <1>4 DEF Uploads, Idle, Reaps, Swapping
<1>5. CASE Overlooks(p)
  <2>1. job'[p].pc \in Swapping => job[p].pc \in Swapping
    BY <1>1, <1>5 DEF Overlooks, Continues, After, Lenient, Swapping, NoRestore
  <2> QED BY <1>5, <2>1 DEF Overlooks, Continues, Uploads
<1> QED BY <1>2, <1>3, <1>4, <1>5, JobSteps

(* "A site is never served half-written", however many publishes race on   *)
(* it, with unpublishing and purging beside them, wherever they fail or    *)
(* the process dies, as long as versioning is on and the clients use       *)
(* neither the rollbacks nor Restore.                                      *)
THEOREM PublishersServeWhole ==
  ASSUME Versioning = TRUE,
         Ops \intersect {"rollback", "rollbackTo", "restore"} = {}
  PROVE  Spec => []NeverServedTorn
<1> DEFINE Inv == TypeOK /\ NoRestore /\ Uploads /\ NeverServedTorn
<1>1. Init => Inv
  BY TypeInit DEF Init, NoRestore, Uploads, NeverServedTorn, Idle, Swapping
<1>2. ASSUME Inv, [Next]_vars
      PROVE  Inv'
  <2>1. TypeOK' /\ NoRestore' /\ Uploads'
    BY <1>2, TypeStep, NoRestoreStep, UploadsStep
  <2>2. ASSUME NEW s \in Sites, live'[s] # NoDir
        PROVE  ~live'[s].torn
    <3>1. live \in [Sites -> AnyDir] /\ Workers \subseteq Procs
      BY <1>2 DEF TypeOK, DiskOK, Procs
    <3>2. CASE live'[s] = live[s]
      BY <1>2, <2>2, <3>2 DEF NeverServedTorn
    <3>3. ASSUME NEW w \in Workers, job[w].site = s, At(w, "movein"),
                 SwapIn(w) \/ RollbackIn(w) \/ RestoreIn(w), live[s] = NoDir
          PROVE  ~live'[s].torn
      <4>1. job[w].stage \in Dir /\ ~job[w].stage.torn /\ SwapIn(w)
        BY <1>2, <3>1, <3>3 DEF Uploads, Swapping, At, RollbackIn, RestoreIn
      <4> QED BY <2>2, <3>1, <3>3, <4>1 DEF SwapIn
    <3>4. ASSUME NEW w \in Workers, Archives(w, s)
          PROVE  live'[s] = live[s] \/ live'[s] = NoDir
      BY <3>1, <3>4 DEF Archives, Archive
    <3>5. \A p \in Procs : ~At(p, "clear")
      BY <1>2 DEF NoRestore, At
    <3> QED BY <1>2, <2>2, <3>2, <3>3, <3>4, <3>5, LiveSteps
  <2> QED BY <2>1, <2>2 DEF NeverServedTorn
<1>3. Inv => NeverServedTorn
  OBVIOUS
<1> HIDE DEF Inv
<1> QED BY <1>1, <1>2, <1>3, PTL DEF Spec
=============================================================================
