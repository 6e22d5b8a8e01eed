------------------------ MODULE PublisherSerialProofs -------------------------
(***************************************************************************)
(* What holds of Publisher when operations run one at a time: the row of a *)
(* listed site stays, a publish leaves everything in step, and, where no   *)
(* call fails, between two operations the registry and the disk agree and  *)
(* the operations implement the atomic ones of SiteLifecycle.              *)
(***************************************************************************)
EXTENDS PublisherProofs, PublisherSerial, SequenceTheorems

-----------------------------------------------------------------------------
(* Layer by layer: who is at work, and on what.                            *)

Busy(p) == ~At(p, "idle")

(* Every site the purge loop has still to reach is in the trash.           *)
JanitorList ==
  Busy(Janitor) => /\ job[Janitor].site \in todo
                   /\ \A s \in todo : reg[s] = "deleted"

(* While a process works, the others stand still.                          *)
LEMMA OthersIdle ==
  ASSUME OneAtATime, NEW p \in Procs, Busy(p), NEW q \in Procs, q # p
  PROVE  At(q, "idle")
BY DEF OneAtATime, Busy

(* Nothing but the purge loop's own steps and restarts touch its list, and *)
(* it works alone.                                                         *)
LEMMA JanitorListStep ==
  ASSUME Serial = TRUE, TypeOK, OneAtATime, JanitorList, [Next]_vars
  PROVE  JanitorList'
<1>1. /\ job \in [Procs -> Job] /\ Janitor \in Procs /\ Workers \subseteq Procs
      /\ reg \in [Sites -> {"none", "live", "deleted"}] /\ todo \subseteq Sites
      /\ Janitor \notin Workers
  BY JanitorAssumption DEF TypeOK, JobsOK, RegistryOK, Procs
<1>2. ASSUME Busy(Janitor), job'[Janitor].site = job[Janitor].site,
             UNCHANGED <<reg, todo>>
      PROVE  JanitorList'
  BY <1>2 DEF JanitorList, Busy, At
<1>3. ASSUME NEW rest \in SUBSET Sites, Advance(Janitor, rest), todo' = rest,
             \A s \in rest : reg'[s] = "deleted"
      PROVE  JanitorList'
  <2>1. CASE rest = {}
    BY <1>1, <1>3, <2>1 DEF Advance, Done, JanitorList, Busy, At, Idle
  <2>2. CASE rest # {}
    <3>1. PICK s \in rest :
            job' = [job EXCEPT ![Janitor] = [Idle EXCEPT !.pc = "wipe",
                                                  !.op = "reap", !.site = s]]
      BY <1>3, <2>2 DEF Advance
    <3>2. job'[Janitor].site = s
      BY <1>1, <3>1 DEF Idle
    <3> QED BY <1>3, <3>2 DEF JanitorList
  <2> QED BY <2>1, <2>2
<1>4. CASE UNCHANGED vars
  BY <1>4 DEF vars, JanitorList, Busy, At
<1>5. ASSUME NEW w \in Workers, Begin(w)
      PROVE  JanitorList'
  <2>1. At(Janitor, "idle") /\ job'[Janitor] = job[Janitor]
    BY <1>1, <1>5, BeginJob DEF MayStart, AllIdle
  <2> QED BY <2>1 DEF JanitorList, Busy, At
<1>6. ASSUME NEW w \in Workers, WorkerStep(w)
      PROVE  JanitorList'
  <2>1. At(Janitor, "idle")
    BY <1>1, <1>6, ActionAt, OthersIdle DEF Busy
  <2>2. job'[Janitor] = job[Janitor]
    BY <1>1, <1>6, ControlFlow
  <2> QED BY <2>1, <2>2 DEF JanitorList, Busy, At
<1>7. CASE BeginReap
  BY <1>1, <1>3, <1>7 DEF BeginReap, Expired, registry
<1>8. CASE Wipe(Janitor)
  <2>1. Busy(Janitor) /\ UNCHANGED <<reg, todo>>
    BY <1>8 DEF Wipe, Busy, At, registry
  <2>2. CASE Goto(Janitor, "delete")
    BY <1>1, <1>2, <2>1, <2>2 DEF Goto, Job
  <2>3. CASE Done(Janitor)
    BY <1>1, <2>3 DEF Done, JanitorList, Busy, At, Idle
  <2> QED BY <1>8, <2>2, <2>3 DEF Wipe
<1>9. CASE DeleteSite
  <2>1. \A s \in todo : reg[s] = "deleted"
    BY <1>9 DEF DeleteSite, JanitorList, Busy, At
  <2>2. \A s \in todo \ {job[Janitor].site} : reg'[s] = "deleted"
    BY <1>1, <1>9, <2>1 DEF DeleteSite, HardDeleteSite
  <2> QED BY <1>1, <1>3, <1>9, <2>2 DEF DeleteSite
<1>10. CASE \E s \in Sites : Expire(s)
  BY <1>10 DEF Expire, JanitorList, Busy, At
<1>11. CASE \E p \in Procs : Tear(p)
  BY <1>11 DEF Tear, JanitorList, Busy, At, registry
<1>12. ASSUME NEW p \in Procs, Fail(p)
       PROVE  JanitorList'
  <2>1. UNCHANGED reg /\ Busy(p)
    BY <1>12 DEF Fail, registry, Busy
  <2>2. CASE p # Janitor
    <3>1. At(Janitor, "idle")
      BY <1>1, <2>1, <2>2, OthersIdle
    <3>2. job'[Janitor] = job[Janitor]
      BY <1>1, <1>12, <2>2, FailFlow
    <3> QED BY <3>1, <3>2 DEF JanitorList, Busy, At
  <2>3. CASE p = Janitor
    <3>1. \A s \in todo : reg[s] = "deleted"
      BY <2>1, <2>3 DEF JanitorList
    <3>2. Fail(Janitor)
      BY <1>12, <2>3
    <3>3. CASE job'[Janitor] = Idle
      BY <3>3 DEF JanitorList, Busy, At, Idle
    <3>4. CASE Overlooks(Janitor) /\ UNCHANGED todo
      BY <1>2, <2>1, <2>3, <3>4 DEF Overlooks, Continues, JanitorList, Busy
    <3>5. CASE /\ todo' = todo \ {job[Janitor].site}
               /\ Advance(Janitor, todo \ {job[Janitor].site})
      BY <1>1, <1>3, <2>1, <3>1, <3>5
    <3>6. Aborted(Janitor) => job'[Janitor] = Idle
      BY <1>1 DEF Aborted, Done
    <3>7. Overlooked(Janitor) => ~At(Janitor, "delete")
      BY DEF Overlooked, At
    <3> QED BY <1>1, <3>2, <3>3, <3>4, <3>5, <3>6, <3>7, FailFlow DEF Fail
  <2> QED BY <2>2, <2>3
<1>13. CASE Restart
  BY <1>1, <1>13 DEF Restart, JanitorList, Busy, At, Idle
<1> QED BY <1>4, <1>5, <1>6, <1>7, <1>8, <1>9, <1>10, <1>11, <1>12, <1>13
        DEF Next, JanitorStep

(* Run one at a time, the operations never take the row of a listed site   *)
(* away, whatever fails in them and wherever the process dies: purging is  *)
(* for what is in the trash when its row goes.                             *)
THEOREM ListedRowStays ==
  ASSUME Serial = TRUE
  PROVE  Spec => LiveRowNeverDropped
<1> DEFINE Inv == TypeOK /\ OneAtATime /\ JanitorList
<1>1. Init => Inv
  BY TypeInit DEF Init, OneAtATime, JanitorList, Busy, At, Idle, Procs
<1>2. Inv /\ [Next]_vars => Inv'
  BY TypeStep, OneAtATimeStep, JanitorListStep
<1>3. ASSUME Inv, [Next]_vars, NEW s \in Sites, reg[s] = "live"
      PROVE  reg'[s] # "none"
  <2>1. reg \in [Sites -> {"none", "live", "deleted"}]
    BY <1>3 DEF TypeOK, RegistryOK
  <2>2. ASSUME NEW w \in Workers, Begin(w)
        PROVE  reg'[s] # "none"
    BY <1>3, <2>1, <2>2 DEF Begin, BeginPublish, BeginRollbackTo,
       BeginRollback, BeginUnpublish, BeginRestore, BeginPurge, BeginFavicons,
       SoftDeleteSite, RestoreSite, PurgeDeletedSite, HardDeleteSite, registry
  <2>3. ASSUME NEW w \in Workers, WorkerStep(w)
        PROVE  reg'[s] # "none"
    <3>1. CASE Upsert(w) \/ Touch(w)
      BY <1>3, <2>1, <3>1 DEF Upsert, Touch, UpsertSite, UpsertSiteTouch
    <3> QED BY <1>3, <2>3, <3>1, Untouched
  <2>4. CASE DeleteSite
    <3>1. job[Janitor].site \in todo /\ reg[job[Janitor].site] = "deleted"
      BY <1>3, <2>4 DEF DeleteSite, JanitorList, Busy, At
    <3> QED BY <1>3, <2>1, <2>4, <3>1 DEF DeleteSite, HardDeleteSite
  <2> QED BY <1>3, <2>2, <2>3, <2>4 DEF Next, JanitorStep, BeginReap, Wipe,
          Expire, Tear, Fail, Restart, registry, vars
<1>4. Inv /\ [Next]_vars
        => [\A s \in Sites : reg[s] = "live" => reg'[s] # "none"]_vars
  BY <1>3
<1> QED BY <1>1, <1>2, <1>4, PTL DEF Spec, LiveRowNeverDropped

-----------------------------------------------------------------------------
(* A publish, from its stage to its row, with nobody beside it.            *)

WholeDir(d) == d # NoDir /\ ~d.torn

(* What an operation that has failed to read what missed names knows of    *)
(* the directory on display: its size, its icon, or a part of them.        *)
SizeRead(s, n, missed) ==
  /\ n \subseteq {<<s, live[s]>>, <<s, TornDir(live[s])>>}
  /\ "size" \notin missed => n = {<<s, live[s]>>}

IconRead(s, i, missed) ==
  /\ i \in {NoIcon, live[s].c}
  /\ "icon" \notin missed => i = live[s].c

(* What a publish has achieved by the time it stands at each call.         *)
PublishPhase(p) ==
  LET s == job[p].site
      l == job[p].pc
  IN  job[p].op = "publish" =>
        /\ l \notin {"rbstat", "touch", "resize", "compare"} \union TrashPCs
        /\ l \in Swapping => WholeDir(job[p].stage)
        /\ l \in {"measure", "upsert", "reread", "detect", "icon"}
             => WholeDir(live[s])
        /\ l = "upsert" => SizeRead(s, job[p].size, job[p].missed)
        /\ l \in {"reread", "detect", "icon"}
             => reg[s] = "live" /\ SizeRead(s, size[s], job[p].missed)
        /\ l = "icon" => IconRead(s, job[p].icon, job[p].missed)

PublishPhases == \A p \in Procs : PublishPhase(p)

(* dirSize of a site's own directory.                                      *)
LEMMA MeasureOwn ==
  ASSUME NEW s \in Sites, live[s] # NoDir
  PROVE  Measure({s}) = {<<s, live[s]>>}
BY DEF Measure

(* Each call of a publish brings it to the next phase.                     *)
LEMMA PublishAdvances ==
  ASSUME TypeOK, NEW w \in Workers, WorkerStep(w), PublishPhase(w)
  PROVE  PublishPhase(w)'
<1> SUFFICES ASSUME job'[w].op = "publish", job'[w] # Idle
             PROVE  PublishPhase(w)'
  BY DEF PublishPhase, Idle
<1>1. /\ w \in Procs /\ job \in [Procs -> Job] /\ job[w].site \in Sites
      /\ reg \in [Sites -> {"none", "live", "deleted"}]
      /\ size \in [Sites -> Sized] /\ live \in [Sites -> AnyDir]
      /\ job[w].pc \in PCs
  BY BusyJob, ActionAt DEF TypeOK, RegistryOK, DiskOK, JobsOK, Procs, Job
<1>2. /\ Continues(w) /\ job[w].op = "publish"
      /\ job'[w].site = job[w].site /\ job'[w].pc \in After(job[w].pc)
  BY ControlFlow DEF Continues
<1>3. PICK s \in Sites : s = job[w].site /\ job'[w].site = s
  BY <1>1, <1>2
<1>4. CASE job'[w].pc \in Swapping
  <2>1. job[w].pc \in Swapping /\ job'[w].stage = job[w].stage
    BY <1>1, <1>2, <1>4 DEF PublishPhase, Continues, After, Swapping, PCs,
       TrashPCs
  <2>2. job'[w].pc # "rbstat"
    BY <1>1, <1>2 DEF After, PCs
  <2> QED BY <1>2, <1>4, <2>1, <2>2 DEF PublishPhase, Swapping, TrashPCs
<1>5. CASE SwapIn(w)
  <2>1. WholeDir(job[w].stage) /\ live' = [live EXCEPT ![s] = job[w].stage]
        /\ job'[w].pc = "measure"
    BY <1>1, <1>2, <1>3, <1>5 DEF SwapIn, PublishPhase, Swapping, At, Done,
       Idle, Job
  <2> QED BY <1>1, <1>3, <2>1 DEF PublishPhase, WholeDir, Swapping, TrashPCs
<1>6. CASE MeasureLive(w)
  <2>1. WholeDir(live[s]) /\ UNCHANGED live
        /\ job'[w].pc = "upsert" /\ job'[w].size = Measure({s})
    BY <1>1, <1>2, <1>3, <1>6
       DEF MeasureLive, TakeSize, PublishPhase, At, Job, disk
  <2>2. Measure({s}) = {<<s, live[s]>>}
    BY <2>1, MeasureOwn DEF WholeDir
  <2>3. SizeRead(s, job[w].size, job[w].missed)'
    BY <2>1, <2>2 DEF SizeRead
  <2> QED BY <1>3, <2>1, <2>3 DEF PublishPhase, WholeDir, Swapping, TrashPCs
<1>7. CASE Upsert(w)
  <2>1. /\ WholeDir(live[s]) /\ UNCHANGED live /\ job'[w].pc = "reread"
        /\ reg'[s] = "live" /\ size'[s] = job[w].size
        /\ job'[w].missed = job[w].missed
        /\ SizeRead(s, job[w].size, job[w].missed)
    BY <1>1, <1>2, <1>3, <1>7 DEF Upsert, UpsertSite, PublishPhase, At, Job,
       disk
  <2>2. SizeRead(s, size[s], job[w].missed)'
    BY <2>1 DEF SizeRead
  <2> QED BY <1>3, <2>1, <2>2 DEF PublishPhase, WholeDir, Swapping, TrashPCs
<1>8. CASE Reread(w)
  <2>1. /\ WholeDir(live[s]) /\ UNCHANGED <<live, reg, size>>
        /\ reg[s] = "live" /\ SizeRead(s, size[s], job[w].missed)
        /\ job'[w].pc = "detect" /\ job'[w].missed = job[w].missed
    BY <1>1, <1>2, <1>3, <1>8 DEF Reread, PublishPhase, At, Job, disk,
       registry, Goto, Done, Idle
  <2>2. SizeRead(s, size[s], job[w].missed)'
    BY <2>1 DEF SizeRead
  <2> QED BY <1>3, <2>1, <2>2 DEF PublishPhase, WholeDir, Swapping, TrashPCs
<1>9. CASE Detect(w)
  <2>1. PICK i \in DetectFavicon(live[job[w].site]) : TakeIcon(w, i, {})
    BY <1>9 DEF Detect
  <2>2. /\ WholeDir(live[s]) /\ UNCHANGED <<live, reg, size>>
        /\ reg[s] = "live" /\ SizeRead(s, size[s], job[w].missed)
    BY <1>2, <1>3, <1>9 DEF Detect, PublishPhase, At, disk, registry
  <2>3. /\ job'[w].pc = "icon" /\ job'[w].icon = i
        /\ job'[w].missed = job[w].missed
    BY <1>1, <1>2, <2>1 DEF TakeIcon, Job
  <2>4. i = live[s].c
    BY <1>3, <2>1, <2>2 DEF DetectFavicon, WholeDir
  <2>5. SizeRead(s, size[s], job[w].missed)' /\ IconRead(s, i, job[w].missed)'
    BY <2>2, <2>3, <2>4 DEF SizeRead, IconRead
  <2> QED BY <1>3, <2>2, <2>3, <2>5
          DEF PublishPhase, WholeDir, Swapping, TrashPCs
<1>10. job'[w].pc \in Swapping \/ SwapIn(w) \/ MeasureLive(w) \/ Upsert(w)
       \/ Reread(w) \/ Detect(w)
  <2>1. CASE At(w, "movein")
    BY <1>2, <2>1, ActionAt DEF RollbackIn, RestoreIn
  <2>2. CASE job[w].pc \in {"stat", "stamp", "archive", "prune", "drop",
                            "clear"}
    BY <1>2, <2>2 DEF After, Swapping
  <2>3. CASE job[w].pc \in {"measure", "upsert", "reread", "detect", "icon"}
    <3>1. ~SetIcon(w)
      BY <1>1 DEF SetIcon, Done
    <3> QED BY <2>3, <3>1, ActionAt DEF At
  <2>4. job[w].pc # "idle"
    BY ActionAt DEF At
  <2> QED BY <1>1, <1>2, <2>1, <2>2, <2>3, <2>4
          DEF PublishPhase, PCs, At, TrashPCs
<1> QED BY <1>4, <1>5, <1>6, <1>7, <1>8, <1>9, <1>10

(* The purge loop goes on to the next site of its list, or stops.          *)
LEMMA NextListed ==
  ASSUME JobsOK, NEW p \in Procs, NEW rest, Advance(p, rest)
  PROVE  /\ \/ job'[p] = Idle
            \/ /\ job'[p].pc = "wipe" /\ job'[p].op = "reap"
               /\ job'[p].site \in rest
         /\ job'[p].op # "publish"
         /\ \A q \in Procs : q # p => job'[q] = job[q]
<1>1. job \in [Procs -> Job]
  BY DEF JobsOK
<1>2. CASE Done(p)
  BY <1>1, <1>2 DEF Done, Idle
<1>3. CASE ~Done(p)
  <2>1. PICK s \in rest :
          job' = [job EXCEPT ![p] = [Idle EXCEPT !.pc = "wipe", !.op = "reap",
                                                 !.site = s]]
    BY <1>3 DEF Advance
  <2> QED BY <1>1, <2>1 DEF Idle
<1> QED BY <1>2, <1>3

(* A failing call ends a publish, lets it try to move its stage in over a  *)
(* directory it has not seen, or leaves it with part of a size or icon.    *)
LEMMA PublishFails ==
  ASSUME TypeOK, NEW p \in Procs, Fail(p), PublishPhase(p)
  PROVE  PublishPhase(p)'
<1> SUFFICES ASSUME job'[p].op = "publish"
             PROVE  PublishPhase(p)'
  BY DEF PublishPhase
<1>1. /\ job \in [Procs -> Job] /\ job[p].site \in Sites
      /\ UNCHANGED <<live, reg, size>> /\ job[p].pc \in PCs
  BY BusyJob DEF Fail, TypeOK, JobsOK, registry, disk, Job
<1>2. /\ Overlooked(p) /\ job[p].op = "publish" /\ job'[p].site = job[p].site
  <2>1. ~(At(p, "delete") /\ Advance(p, todo \ {job[p].site}))
    BY NextListed DEF TypeOK
  <2>2. ~Aborted(p)
    BY <1>1 DEF Aborted, Done, Idle
  <2>3. Overlooked(p) /\ job'[p] # Idle
    BY <2>1, <2>2 DEF Fail, Idle
  <2>4. ~At(p, "delete") /\ Continues(p)
    BY <2>3, FailFlow DEF Overlooked, Overlooks, At
  <2> QED BY <2>3, <2>4 DEF Continues
<1>3. PICK s \in Sites : s = job[p].site /\ job'[p].site = s
  BY <1>1, <1>2
<1>4. CASE At(p, "stat") /\ Goto(p, "movein")
  <2>1. job'[p].pc = "movein" /\ job'[p].stage = job[p].stage
    BY <1>1, <1>4 DEF Goto, Job
  <2> QED BY <1>2, <1>4, <2>1
          DEF PublishPhase, At, Swapping, TrashPCs, WholeDir
<1>5. ASSUME At(p, "measure"), NEW n \in PartSize(s), TakeSize(p, n, {"size"})
      PROVE  PublishPhase(p)'
  <2>1. WholeDir(live[s]) /\ n \subseteq {<<s, TornDir(live[s])>>}
    BY <1>2, <1>3, <1>5 DEF PublishPhase, At, PartSize
  <2>2. /\ job'[p].pc = "upsert" /\ job'[p].size = n
        /\ "size" \in job'[p].missed
    BY <1>1, <1>2, <1>5 DEF TakeSize, Job
  <2>3. SizeRead(s, job[p].size, job[p].missed)'
    BY <1>1, <2>1, <2>2 DEF SizeRead
  <2> QED BY <1>1, <1>3, <2>1, <2>2, <2>3
          DEF PublishPhase, WholeDir, Swapping, TrashPCs
<1>6. ASSUME At(p, "detect"), NEW i \in PartIcon(s), TakeIcon(p, i, {"icon"})
      PROVE  PublishPhase(p)'
  <2>1. /\ WholeDir(live[s]) /\ i \in {NoIcon, live[s].c}
        /\ reg[s] = "live" /\ SizeRead(s, size[s], job[p].missed)
    BY <1>2, <1>3, <1>6 DEF PublishPhase, At, PartIcon
  <2>2. /\ job'[p].pc = "icon" /\ job'[p].icon = i
        /\ job'[p].missed = job[p].missed \union {"icon"}
    BY <1>1, <1>2, <1>6 DEF TakeIcon, Job
  <2>3. SizeRead(s, size[s], job[p].missed)'
    BY <1>1, <2>1, <2>2 DEF SizeRead
  <2>4. IconRead(s, job[p].icon, job[p].missed)'
    BY <1>1, <2>1, <2>2 DEF IconRead
  <2> QED BY <1>1, <1>3, <2>1, <2>2, <2>3, <2>4
          DEF PublishPhase, WholeDir, Swapping, TrashPCs
<1>7. ~(At(p, "rbstat") \/ At(p, "qclear") \/ At(p, "wipe"))
  BY <1>2 DEF PublishPhase, At, TrashPCs
<1> QED BY <1>2, <1>3, <1>4, <1>5, <1>6, <1>7 DEF Overlooked

(* What a client uploads is staged whole.                                  *)
LEMMA StageIsWhole ==
  ASSUME NEW c \in Contents
  PROVE  WholeDir(Whole(c)) /\ Whole(c) \in Dir
<1>1. Whole(c) \in Dir
  BY DEF Whole, Dir
<1>2. ~Whole(c).torn
  BY DEF Whole
<1> QED BY <1>1, <1>2, NoDirAssumption DEF WholeDir

(* PublishPhases is inductive when operations run one at a time.           *)
LEMMA PublishPhasesStep ==
  ASSUME Serial = TRUE, TypeOK, OneAtATime, PublishPhases, [Next]_vars
  PROVE  PublishPhases'
<1>1. /\ job \in [Procs -> Job] /\ Workers \subseteq Procs
      /\ Janitor \in Procs
  BY DEF TypeOK, JobsOK, Procs
<1>2. ASSUME NEW p \in Procs, job'[p] = job[p],
             At(p, "idle") \/ UNCHANGED <<live, reg, size>>
      PROVE  PublishPhase(p)'
  <2>1. PublishPhase(p)
    BY DEF PublishPhases
  <2> QED BY <1>2, <2>1 DEF PublishPhase, At, WholeDir, SizeRead, IconRead,
          Swapping, TrashPCs
<1>3. ASSUME NEW p \in Procs, job'[p].op # "publish"
      PROVE  PublishPhase(p)'
  BY <1>3 DEF PublishPhase
<1>5. ASSUME NEW w \in Workers, Begin(w)
      PROVE  PublishPhases'
  <2>1. \A p \in Procs : p # w => job'[p] = job[p] /\ At(p, "idle")
    BY <1>5, BeginJob DEF MayStart, AllIdle
  <2>2. PublishPhase(w)'
    <3>1. PICK s \in Sites :
            \/ \E c \in Contents : BeginPublish(w, s, c)
            \/ \E v \in vers[s] : BeginRollbackTo(w, s, v)
            \/ \E v \in vers[s] : BeginRollback(w, s, v)
            \/ BeginUnpublish(w, s) \/ BeginRestore(w, s)
            \/ BeginPurge(w, s) \/ BeginFavicons(w, s)
      BY <1>5 DEF Begin
    <3>2. CASE \E c \in Contents : BeginPublish(w, s, c)
      <4>1. PICK c \in Contents : BeginPublish(w, s, c)
        BY <3>2
      <4>2. job'[w].pc = "stat" /\ job'[w].stage = Whole(c)
        BY <1>1, <4>1 DEF BeginPublish, Idle
      <4> QED BY <4>2, StageIsWhole DEF PublishPhase, WholeDir, TrashPCs
    <3>3. CASE ~\E c \in Contents : BeginPublish(w, s, c)
      <4>1. job'[w].op # "publish"
        BY <1>1, <3>1, <3>3 DEF BeginRollbackTo, BeginRollback,
           BeginUnpublish, BeginRestore, BeginPurge, BeginFavicons, Idle
      <4> QED BY <1>1, <1>3, <4>1
    <3> QED BY <3>2, <3>3
  <2> QED BY <1>2, <2>1, <2>2 DEF PublishPhases
<1>6. ASSUME NEW w \in Workers, WorkerStep(w)
      PROVE  PublishPhases'
  <2>1. \A p \in Procs : p # w => job'[p] = job[p] /\ At(p, "idle")
    BY <1>1, <1>6, ControlFlow, ActionAt, OthersIdle DEF Busy
  <2>2. PublishPhase(w)'
    BY <1>1, <1>6, PublishAdvances DEF PublishPhases
  <2> QED BY <1>2, <2>1, <2>2 DEF PublishPhases
<1>7. CASE JanitorStep
  <2>1. Busy(Janitor) \/ AllIdle
    BY <1>7 DEF JanitorStep, BeginReap, Wipe, DeleteSite, MayStart, Busy, At
  <2>2. \A p \in Procs : p # Janitor => job'[p] = job[p] /\ At(p, "idle")
    BY <1>1, <1>7, <2>1, OthersIdle DEF AllIdle, JanitorStep, BeginReap, Wipe,
       DeleteSite, Advance, Done, Goto
  <2>3. PublishPhase(Janitor)'
    <3>1. CASE Wipe(Janitor)
      <4>1. PublishPhase(Janitor) /\ At(Janitor, "wipe")
        BY <1>1, <3>1 DEF PublishPhases, Wipe
      <4>2. job[Janitor].op # "publish"
        BY <4>1 DEF PublishPhase, TrashPCs, At
      <4>3. job'[Janitor].op # "publish"
        BY <1>1, <3>1, <4>2 DEF Wipe, Goto, Done, Idle, Job
      <4> QED BY <1>1, <1>3, <4>3
    <3>2. CASE BeginReap \/ DeleteSite
      <4>1. job'[Janitor].op # "publish"
        BY <1>1, <3>2, NextListed DEF BeginReap, DeleteSite, TypeOK
      <4> QED BY <1>1, <1>3, <4>1
    <3> QED BY <1>7, <3>1, <3>2 DEF JanitorStep
  <2> QED BY <1>2, <2>2, <2>3 DEF PublishPhases
<1>8. ASSUME NEW q \in Procs, Fail(q)
      PROVE  PublishPhases'
  <2>1. \A p \in Procs : p # q => job'[p] = job[p] /\ At(p, "idle")
    BY <1>1, <1>8, FailFlow, OthersIdle DEF Busy
  <2>2. PublishPhase(q)'
    BY <1>8, PublishFails DEF PublishPhases
  <2> QED BY <1>2, <2>1, <2>2 DEF PublishPhases
<1>9. ASSUME NEW q \in Procs, Tear(q)
      PROVE  PublishPhases'
  <2>1. \A p \in Procs : p # q => job'[p] = job[p] /\ At(p, "idle")
    <3>1. Busy(q)
      BY <1>9 DEF Tear, Busy, At
    <3> QED BY <1>1, <1>9, <3>1, OthersIdle DEF Tear
  <2>2. job'[q] = job[q] /\ UNCHANGED <<reg, size>> /\ PublishPhase(q)
    BY <1>9 DEF Tear, PublishPhases, registry
  <2>3. ASSUME At(q, "clear")
        PROVE  PublishPhase(q)'
    <3>1. job[q].pc = "clear" /\ job'[q].pc = "clear"
      BY <2>2, <2>3 DEF At
    <3>2. job[q].op = "publish" => WholeDir(job[q].stage)
      BY <2>2, <3>1 DEF PublishPhase, Swapping
    <3> QED BY <2>2, <3>1, <3>2 DEF PublishPhase, Swapping, TrashPCs, WholeDir
  <2>4. ASSUME ~At(q, "clear")
        PROVE  PublishPhase(q)'
    <3>1. UNCHANGED live
      BY <1>9, <2>4, Zenon DEF Tear
    <3> QED BY <1>2, <2>2, <3>1
  <2> QED BY <1>2, <2>1, <2>3, <2>4 DEF PublishPhases
<1>10. CASE Restart
  BY <1>1, <1>3, <1>10 DEF Restart, PublishPhases, Idle
<1>11. CASE \E s \in Sites : Expire(s)
  BY <1>2, <1>11 DEF Expire, PublishPhases, disk
<1>12. CASE UNCHANGED vars
  BY <1>2, <1>12 DEF PublishPhases, vars
<1> QED BY <1>5, <1>6, <1>7, <1>8, <1>9, <1>10, <1>11, <1>12 DEF Next

(* Run one at a time, a publish that reports success has the new files     *)
(* online, whole, its row listed, and their size and favicon in the row    *)
(* except for what it failed to read or write itself: whatever operations  *)
(* came before, wherever they failed, and wherever the process had died.   *)
THEOREM PublishesSettle ==
  ASSUME Serial = TRUE
  PROVE  Spec => PublishSettles
<1> DEFINE Inv == TypeOK /\ OneAtATime /\ PublishPhases
           Row(w, s, d) ==
             /\ reg'[s] = "live" /\ d # NoDir /\ ~d.torn
             /\ size'[s] \subseteq {<<s, d>>, <<s, TornDir(d)>>}
             /\ "size" \notin job[w].missed => size'[s] = {<<s, d>>}
             /\ SetIcon(w) => icon'[s] \in {NoIcon, d.c}
             /\ SetIcon(w) /\ "icon" \notin job[w].missed
                  => icon'[s] = d.c
<1>1. Init => Inv
  BY TypeInit
     DEF Init, OneAtATime, PublishPhases, PublishPhase, At, Idle, Procs
<1>2. Inv /\ [Next]_vars => Inv'
  BY TypeStep, OneAtATimeStep, PublishPhasesStep
<1>3. ASSUME Inv, NEW w \in Workers, Succeeds(w)
      PROVE  Row(w, job[w].site, live'[job[w].site])
  <2>1. PICK s \in Sites : s = job[w].site
    BY <1>3, BusyJob DEF Succeeds, TypeOK, JobsOK, At, Procs
  <2>2. /\ WholeDir(live[s]) /\ reg[s] = "live"
        /\ SizeRead(s, size[s], job[w].missed)
        /\ IconRead(s, job[w].icon, job[w].missed)
    BY <1>3, <2>1 DEF PublishPhases, PublishPhase, Succeeds, At, Procs
  <2>3. UNCHANGED <<reg, size, live>>
    BY <1>3 DEF Succeeds, SetIcon, SetSiteFavicon, Fail, registry, disk
  <2>4. SetIcon(w) => icon'[s] = job[w].icon
    BY <2>1, <2>2, <1>3 DEF SetIcon, SetSiteFavicon, TypeOK, RegistryOK
  <2> QED BY <2>1, <2>2, <2>3, <2>4 DEF WholeDir, SizeRead, IconRead
<1>4. Inv /\ [Next]_vars
        => [\A w \in Workers : Succeeds(w) =>
              LET s == job[w].site
                  d == live'[s]
              IN  /\ reg'[s] = "live" /\ d # NoDir /\ ~d.torn
                  /\ size'[s] \subseteq {<<s, d>>, <<s, TornDir(d)>>}
                  /\ "size" \notin job[w].missed => size'[s] = {<<s, d>>}
                  /\ SetIcon(w) => icon'[s] \in {NoIcon, d.c}
                  /\ SetIcon(w) /\ "icon" \notin job[w].missed
                       => icon'[s] = d.c]_vars
  BY <1>3
<1> QED BY <1>1, <1>2, <1>4, PTL DEF Spec, PublishSettles

-----------------------------------------------------------------------------
(* The calls each operation is made of.                                    *)

Displacing == {"stamp", "archive", "prune", "drop", "movein"}

Route(o) ==
  CASE o = "publish"    -> Displacing \union {"stat", "clear", "measure",
                                              "upsert", "reread", "detect",
                                              "icon"}
    [] o = "rollbackTo" -> Displacing \union {"stat", "touch", "reread",
                                              "measure", "resize"}
    [] o = "rollback"   -> Displacing \union {"rbstat", "touch", "reread",
                                              "measure", "resize", "detect",
                                              "icon"}
    [] o = "unpublish"  -> {"qstat", "qclear", "qmove"}
    [] o = "restore"    -> {"qcheck", "clear", "movein"}
    [] o = "purge"      -> {"wipe"}
    [] o = "favicons"   -> {"detect", "compare", "icon"}
    [] o = "reap"       -> {"wipe", "delete"}
    [] OTHER            -> {"idle"}

OnRoute ==
  \A p \in Procs :
    /\ job[p].pc \in Route(job[p].op)
    /\ job[p].op \in Ops \union {"none", "reap"}
    /\ job[p].op \in {"rollback", "rollbackTo"} => Versioning
    /\ job[p].op \in {"publish", "rollback", "rollbackTo"}
       /\ job[p].pc \in Displacing \ {"movein"} => Versioning
    /\ job[p].op = "publish" /\ job[p].pc = "clear" => ~Versioning
    /\ job[p].op \in IF p = Janitor THEN {"none", "reap"}
                                     ELSE AllOps \union {"none"}

(* Only the purge loop purges in the background; a failing call can let    *)
(* its operation go on.                                                    *)
LEMMA JanitorJobs ==
  ASSUME TypeOK, OnRoute, NEW p \in Procs,
         JanitorStep \/ \E q \in Procs : Fail(q)
  PROVE  \/ job'[p] = job[p] \/ job'[p] = Idle
         \/ /\ p = Janitor
            /\ job'[p].pc \in {"wipe", "delete"} /\ job'[p].op = "reap"
         \/ Faults /\ Fail(p) /\ Overlooks(p)
<1>1. /\ job \in [Procs -> Job] /\ Janitor \in Procs
      /\ \A q \in Procs : job[q].op = "reap" => q = Janitor
      /\ \A q \in Procs : job[q].pc = "delete" => q = Janitor
      /\ job[Janitor].pc = "wipe" => job[Janitor].op = "reap"
  BY JanitorAssumption
     DEF TypeOK, JobsOK, Procs, OnRoute, Route, Displacing, AllOps, Job
<1>2. ASSUME NEW rest, Advance(Janitor, rest)
      PROVE  \/ job'[p] = job[p] \/ job'[p] = Idle
             \/ /\ p = Janitor
                /\ job'[p].pc \in {"wipe", "delete"} /\ job'[p].op = "reap"
  BY <1>1, <1>2, NextListed DEF TypeOK
<1>3. ASSUME NEW q \in Procs, Done(q)
      PROVE  job'[p] = job[p] \/ job'[p] = Idle
  BY <1>1, <1>3 DEF Done
<1>4. ASSUME At(Janitor, "wipe"), Goto(Janitor, "delete")
      PROVE  \/ job'[p] = job[p]
             \/ /\ p = Janitor
                /\ job'[p].pc \in {"wipe", "delete"} /\ job'[p].op = "reap"
  BY <1>1, <1>4 DEF Goto, Job, At
<1>5. CASE JanitorStep
  BY <1>1, <1>2, <1>3, <1>4, <1>5 DEF JanitorStep, BeginReap, Wipe, DeleteSite
<1>6. ASSUME NEW q \in Procs, Fail(q)
      PROVE  \/ job'[p] = job[p] \/ job'[p] = Idle
             \/ /\ p = Janitor
                /\ job'[p].pc \in {"wipe", "delete"} /\ job'[p].op = "reap"
             \/ Faults /\ Fail(p) /\ Overlooks(p)
  BY <1>1, <1>6, FailFlow DEF At
<1> QED BY <1>5, <1>6

(* Where the way on depends on the operation or on the configuration.      *)
LEMMA Turns ==
  ASSUME TypeOK, NEW w \in Workers, WorkerStep(w), Continues(w)
  PROVE  /\ job[w].pc \in {"stat", "rbstat"}
              => job'[w].pc # IF Versioning THEN "clear" ELSE "stamp"
         /\ job[w].pc = "movein" =>
              \/ job[w].op = "publish" /\ job'[w].pc = "measure"
              \/ /\ job[w].op \in {"rollback", "rollbackTo"}
                 /\ job'[w].pc = "touch"
         /\ job[w].pc = "measure" =>
              job'[w].pc = IF job[w].op = "publish" THEN "upsert" ELSE "resize"
         /\ job[w].pc = "reread" =>
              job'[w].pc = IF job[w].op = "publish" THEN "detect"
                                                    ELSE "measure"
         /\ job[w].pc = "resize" => job[w].op = "rollback"
         /\ job[w].pc = "detect" =>
              job'[w].pc = IF job[w].op = "favicons" THEN "compare" ELSE "icon"
<1> USE DEF At
<1>1. w \in Procs /\ job \in [Procs -> Job] /\ job'[w] # Idle
  BY DEF TypeOK, JobsOK, Procs, Continues, Idle, After
<1>2. job[w].pc \in {"stat", "rbstat"}
        => job'[w].pc # IF Versioning THEN "clear" ELSE "stamp"
  <2> SUFFICES ASSUME job[w].pc \in {"stat", "rbstat"}
               PROVE  job'[w].pc # IF Versioning THEN "clear" ELSE "stamp"
    OBVIOUS
  <2>1. Stat(w)
    BY ActionAt
  <2> QED BY <1>1, <2>1 DEF Stat, Goto, Job
<1>3. job[w].pc = "movein" =>
        \/ job[w].op = "publish" /\ job'[w].pc = "measure"
        \/ job[w].op \in {"rollback", "rollbackTo"} /\ job'[w].pc = "touch"
  <2> SUFFICES ASSUME job[w].pc = "movein"
               PROVE  \/ job[w].op = "publish" /\ job'[w].pc = "measure"
                      \/ /\ job[w].op \in {"rollback", "rollbackTo"}
                         /\ job'[w].pc = "touch"
    OBVIOUS
  <2>1. CASE SwapIn(w)
    BY <1>1, <2>1 DEF SwapIn, Done, Job
  <2>2. CASE RollbackIn(w)
    BY <1>1, <2>2 DEF RollbackIn, Goto, Done, Job
  <2>3. CASE RestoreIn(w)
    BY <1>1, <2>3 DEF RestoreIn, Done
  <2> QED BY <2>1, <2>2, <2>3, ActionAt
<1>4. ASSUME job[w].pc \in {"measure", "reread", "resize", "detect"}
      PROVE  MeasureLive(w) \/ Reread(w) \/ Resize(w) \/ Detect(w)
  BY <1>4, ActionAt
<1>5. job[w].pc = "measure" =>
        job'[w].pc = IF job[w].op = "publish" THEN "upsert" ELSE "resize"
  BY <1>1, <1>4 DEF MeasureLive, Reread, Resize, Detect, TakeSize, Job
<1>6. job[w].pc = "reread" =>
        job'[w].pc = IF job[w].op = "publish" THEN "detect" ELSE "measure"
  BY <1>1, <1>4 DEF MeasureLive, Reread, Resize, Detect, Goto, Done, Job
<1>7. job[w].pc = "resize" => job[w].op = "rollback"
  BY <1>1, <1>4 DEF MeasureLive, Reread, Resize, Detect, Done
<1>8. job[w].pc = "detect" =>
        job'[w].pc = IF job[w].op = "favicons" THEN "compare" ELSE "icon"
  BY <1>1, <1>4 DEF MeasureLive, Reread, Resize, Detect, TakeIcon, Job
<1> QED BY <1>2, <1>3, <1>5, <1>6, <1>7, <1>8

(* Every process follows the route of its operation, in any deployment.    *)
LEMMA OnRouteStep ==
  ASSUME TypeOK, OnRoute, [Next]_vars
  PROVE  OnRoute'
<1> DEFINE P(p) ==
      /\ job'[p].pc \in Route(job'[p].op)
      /\ job'[p].op \in Ops \union {"none", "reap"}
      /\ job'[p].op \in {"rollback", "rollbackTo"} => Versioning
      /\ job'[p].op \in {"publish", "rollback", "rollbackTo"}
         /\ job'[p].pc \in Displacing \ {"movein"} => Versioning
      /\ job'[p].op = "publish" /\ job'[p].pc = "clear" => ~Versioning
      /\ job'[p].op \in IF p = Janitor THEN {"none", "reap"}
                                       ELSE AllOps \union {"none"}
<1> SUFFICES ASSUME NEW p \in Procs
             PROVE  P(p)
  BY DEF OnRoute
<1>1. job \in [Procs -> Job] /\ Workers \subseteq Procs
  BY DEF TypeOK, JobsOK, Procs
<1>2. ASSUME job'[p] = Idle
      PROVE  P(p)
  BY <1>2 DEF Idle, Route, Displacing
<1>3. ASSUME job'[p] = job[p]
      PROVE  P(p)
  BY <1>3 DEF OnRoute
<1>4. ASSUME p = Janitor, job'[p].pc \in {"wipe", "delete"},
             job'[p].op = "reap"
      PROVE  P(p)
  BY <1>4 DEF Route, Displacing
<1>5. ASSUME p \in Workers, Begin(p)
      PROVE  P(p)
  <2>1. p # Janitor
    BY <1>5, JanitorAssumption
  <2>2. PICK s \in Sites :
          \/ \E c \in Contents : BeginPublish(p, s, c)
          \/ \E v \in vers[s] : BeginRollbackTo(p, s, v)
          \/ \E v \in vers[s] : BeginRollback(p, s, v)
          \/ BeginUnpublish(p, s) \/ BeginRestore(p, s)
          \/ BeginPurge(p, s) \/ BeginFavicons(p, s)
    BY <1>5 DEF Begin
  <2>3. /\ job'[p].op \in Ops
        /\ \/ job'[p].op = "publish" /\ job'[p].pc = "stat"
           \/ job'[p].op = "rollbackTo" /\ job'[p].pc = "stat" /\ Versioning
           \/ job'[p].op = "rollback" /\ job'[p].pc = "rbstat" /\ Versioning
           \/ job'[p].op = "unpublish" /\ job'[p].pc = "qstat"
           \/ job'[p].op = "restore" /\ job'[p].pc = "qcheck"
           \/ job'[p].op = "purge" /\ job'[p].pc = "wipe"
           \/ job'[p].op = "favicons" /\ job'[p].pc = "detect"
    <3>1. CASE \E c \in Contents : BeginPublish(p, s, c)
      BY <1>1, <3>1 DEF BeginPublish, Idle
    <3>2. CASE \E v \in vers[s] : BeginRollbackTo(p, s, v)
      BY <1>1, <3>2 DEF BeginRollbackTo, Idle
    <3>3. CASE \E v \in vers[s] : BeginRollback(p, s, v)
      BY <1>1, <3>3 DEF BeginRollback, Idle
    <3>4. CASE BeginUnpublish(p, s)
      BY <1>1, <3>4 DEF BeginUnpublish, Idle
    <3>5. CASE BeginRestore(p, s)
      BY <1>1, <3>5 DEF BeginRestore, Idle
    <3>6. CASE BeginPurge(p, s)
      BY <1>1, <3>6 DEF BeginPurge, Idle
    <3>7. CASE BeginFavicons(p, s)
      BY <1>1, <3>7 DEF BeginFavicons, Idle
    <3> QED BY <2>2, <3>1, <3>2, <3>3, <3>4, <3>5, <3>6, <3>7
  <2> QED BY <2>1, <2>3 DEF Route, Displacing, AllOps
<1>6. ASSUME p \in Workers, WorkerStep(p), Continues(p)
      PROVE  P(p)
  <2>1. job'[p].op = job[p].op /\ job'[p].pc \in After(job[p].pc)
        /\ job[p].pc \in PCs /\ job[p] \in Job
    BY <1>1, <1>6 DEF Continues, Job
  <2>2. /\ job[p].pc \in Route(job[p].op)
        /\ job[p].op \in Ops \union {"none", "reap"}
        /\ job[p].op \in {"rollback", "rollbackTo"} => Versioning
        /\ job[p].op \in {"publish", "rollback", "rollbackTo"}
           /\ job[p].pc \in Displacing \ {"movein"} => Versioning
        /\ job[p].op = "publish" /\ job[p].pc = "clear" => ~Versioning
        /\ job[p].op \in IF p = Janitor THEN {"none", "reap"}
                                        ELSE AllOps \union {"none"}
    BY DEF OnRoute
  <2>3. job[p].op # "reap"
    BY <1>6, <2>2, JanitorAssumption DEF AllOps
  <2>4. job'[p].pc \in Route(job'[p].op)
    <3>1. CASE job[p].op = "publish"
      BY <1>6, <2>1, <2>2, <3>1, Turns DEF Route, Displacing, After, PCs
    <3>2. CASE job[p].op \in {"rollback", "rollbackTo"}
      BY <1>6, <2>1, <2>2, <3>2, Turns DEF Route, Displacing, After, PCs
    <3>3. CASE job[p].op \in {"unpublish", "restore", "purge", "favicons"}
      <4>1. job[p].pc # "wipe"
        <5>1. SUFFICES ASSUME Wipe(p) PROVE FALSE
          BY <1>6, ActionAt DEF At
        <5>2. job'[p] = Idle
          BY <1>1, <3>3, <5>1 DEF Wipe, Done
        <5> QED BY <1>1, <1>6, <5>1, <5>2 DEF Continues, After, Idle, Wipe, At
      <4> QED
        BY <1>6, <2>1, <2>2, <3>3, <4>1, Turns DEF Route, After, PCs
    <3>4. CASE job[p].op = "none"
      BY <2>1, <2>2, <3>4 DEF Route, After
    <3> QED BY <2>2, <2>3, <3>1, <3>2, <3>3, <3>4, OpsAssumption DEF AllOps
  <2>5. /\ job[p].op \in {"publish", "rollback", "rollbackTo"}
           /\ job'[p].pc \in Displacing \ {"movein"} => Versioning
        /\ job[p].op = "publish" /\ job'[p].pc = "clear" => ~Versioning
    BY <1>6, <2>1, <2>2, Turns, ModeAssumption
       DEF Displacing, After, Route, PCs
  <2> QED BY <2>1, <2>2, <2>3, <2>4, <2>5
<1>12. ASSUME Fail(p), Overlooks(p)
       PROVE  P(p)
  <2>1. /\ job'[p].op = job[p].op /\ job'[p].pc \in After(job[p].pc)
        /\ job[p].pc \in Lenient
    BY <1>12 DEF Overlooks, Continues
  <2>2. Overlooked(p)
    BY <1>1, <1>12, <2>1 DEF Fail, Aborted, Done, Idle, After, At, Lenient
  <2>3. \/ job'[p].pc = "movein" /\ job[p].pc \in {"stat", "rbstat", "clear"}
        \/ job'[p].pc = "qmove" /\ job[p].pc = "qclear"
        \/ job'[p].pc = "delete" /\ job[p].op = "reap"
        \/ /\ job[p].pc = "measure"
           /\ job'[p].pc = IF job[p].op = "publish" THEN "upsert" ELSE "resize"
        \/ /\ job[p].pc = "detect"
           /\ job'[p].pc = IF job[p].op = "favicons" THEN "compare" ELSE "icon"
    <3>1. CASE \E n : TakeSize(p, n, {"size"}) /\ At(p, "measure")
      BY <1>1, <3>1 DEF TakeSize, At, Job
    <3>2. CASE \E i : TakeIcon(p, i, {"icon"}) /\ At(p, "detect")
      BY <1>1, <3>2 DEF TakeIcon, At, Job
    <3>3. CASE /\ At(p, "stat") \/ At(p, "rbstat") \/ At(p, "clear")
               /\ Goto(p, "movein")
      BY <1>1, <3>3 DEF Goto, At, Job
    <3>4. CASE \/ At(p, "qclear") /\ Goto(p, "qmove")
               \/ job[p].op = "reap" /\ Goto(p, "delete")
      BY <1>1, <3>4 DEF Goto, At, Job
    <3> QED BY <2>2, <3>1, <3>2, <3>3, <3>4 DEF Overlooked
  <2>4. /\ job[p].pc \in Route(job[p].op)
        /\ job[p].op \in AllOps \union {"none", "reap"}
    BY OpsAssumption DEF OnRoute
  <2>5. job'[p].pc \in Route(job[p].op) \ (Displacing \ {"movein"})
    BY <2>3, <2>4 DEF Route, Displacing, AllOps
  <2>6. job'[p].pc # "clear"
    BY <2>3
  <2> QED BY <2>1, <2>5, <2>6 DEF OnRoute
<1> HIDE DEF P
<1>7. CASE JanitorStep \/ \E q \in Procs : Fail(q)
  BY <1>2, <1>3, <1>4, <1>7, <1>12, JanitorJobs
<1>8. ASSUME NEW w \in Workers, Begin(w)
      PROVE  P(p)
  BY <1>3, <1>5, <1>8, BeginJob
<1>9. ASSUME NEW w \in Workers, WorkerStep(w)
      PROVE  P(p)
  BY <1>1, <1>2, <1>3, <1>6, <1>9, ControlFlow
<1>10. CASE \/ \E s \in Sites : Expire(s)
            \/ \E q \in Procs : Tear(q)
            \/ UNCHANGED vars
  BY <1>3, <1>10 DEF Expire, Tear, vars
<1>11. CASE Restart
  BY <1>2, <1>11 DEF Restart
<1> QED BY <1>7, <1>8, <1>9, <1>10, <1>11 DEF Next

-----------------------------------------------------------------------------
(* Registry and disk, step by step, with nobody beside the operation and   *)
(* no call failing.                                                        *)

(* The registry and the disk tell the same story of a site.                *)
Consistent(s) ==
  /\ reg[s] = "live" => Exact(s, live[s])
  /\ reg[s] = "deleted" => live[s] = NoDir /\ Exact(s, quar[s])

(* What an operation can rely on at each of its calls.                     *)
Phase(p) ==
  LET s == job[p].site
      o == job[p].op
      l == job[p].pc
  IN  /\ l \in {"stat", "rbstat", "stamp", "archive",
                "detect", "compare", "icon"} => Consistent(s)
      /\ l \in {"prune", "drop", "movein"} => live[s] = NoDir
      /\ l \in Swapping /\ o \in {"publish", "rollbackTo"}
           => WholeDir(job[p].stage)
      /\ l \in {"measure", "upsert", "touch", "reread", "resize"}
           => WholeDir(live[s])
      /\ l \in {"upsert", "resize"} => job[p].size = {<<s, live[s]>>}
      /\ l = "reread" => IF o = "publish" THEN reg[s] = "live" /\ Consistent(s)
                                          ELSE reg[s] # "deleted"
      /\ l \in {"measure", "resize"} /\ o # "publish" => reg[s] = "live"
      /\ o = "unpublish" => reg[s] = "deleted" /\ Exact(s, live[s])
      /\ l = "qmove" => quar[s] = NoDir
      /\ o = "restore" => /\ reg[s] = "live" /\ live[s] = NoDir
                          /\ Exact(s, quar[s])
      /\ o = "purge" => reg[s] = "none"

(* The version a rollback is about to bring online is there, and whole.    *)
SourceReady(p) ==
  At(p, "movein") /\ job[p].op = "rollback" =>
    /\ \E v \in vers[job[p].site] : v.stamp = job[p].src
    /\ \A v \in vers[job[p].site] : v.stamp = job[p].src => WholeDir(v.dir)

(* Each call of an operation brings it to the next phase, or to its end    *)
(* with the site consistent.                                               *)
LEMMA PhaseAdvances ==
  ASSUME TypeOK, OnRoute, NEW w \in Workers, WorkerStep(w), Phase(w),
         SourceReady(w), NEW s \in Sites, s = job[w].site
  PROVE  IF job'[w] = Idle THEN Consistent(s)' ELSE Phase(w)'
<1> USE DEF At
<1>1. /\ w \in Procs /\ job \in [Procs -> Job] /\ w # Janitor
      /\ reg \in [Sites -> {"none", "live", "deleted"}]
      /\ size \in [Sites -> Sized] /\ live \in [Sites -> AnyDir]
      /\ quar \in [Sites -> AnyDir] /\ vers \in [Sites -> SUBSET Version]
      /\ job[w].pc \in Route(job[w].op) /\ job[w].op \in AllOps \union {"none"}
  BY JanitorAssumption DEF TypeOK, RegistryOK, DiskOK, JobsOK, Procs, OnRoute
<1>2. /\ job'[w] = Idle \/ Continues(w)
      /\ Continues(w) => job'[w].site = s /\ job'[w].op = job[w].op
  BY ControlFlow DEF Continues
<1>3. ASSUME UNCHANGED <<reg, size, live, quar>>, Consistent(s)
      PROVE  Consistent(s)'
  BY <1>3 DEF Consistent, Exact
<1>4. CASE Stat(w)
  <2>1. /\ UNCHANGED <<reg, size, live, quar>> /\ Consistent(s)
        /\ job[w].op \in {"publish", "rollbackTo"} => WholeDir(job[w].stage)
        /\ job[w].op \notin {"unpublish", "restore", "purge"}
    BY <1>1, <1>4 DEF Stat, Phase, Swapping, Route, Displacing, disk, registry
  <2>2. /\ job'[w].pc \in {"movein", "stamp", "clear"}
        /\ job'[w].pc = "movein" => live[s] = NoDir
        /\ job'[w].stage = job[w].stage /\ job'[w] # Idle
    BY <1>1, <1>4 DEF Stat, Goto, Job, Idle
  <2> QED BY <1>1, <1>2, <1>3, <2>1, <2>2 DEF Phase, Swapping
<1>5. CASE TakeStamp(w)
  <2>1. /\ UNCHANGED <<reg, size, live, quar>> /\ Consistent(s)
        /\ job[w].op \in {"publish", "rollbackTo"} => WholeDir(job[w].stage)
        /\ job[w].op \notin {"unpublish", "restore", "purge"}
    BY <1>1, <1>5 DEF TakeStamp, Phase, Swapping, Route, Displacing, registry
  <2>2. /\ job'[w].pc = "archive"
        /\ job'[w].stage = job[w].stage /\ job'[w] # Idle
    BY <1>1, <1>5 DEF TakeStamp, Job, Idle
  <2> QED BY <1>1, <1>2, <1>3, <2>1, <2>2 DEF Phase, Swapping
<1>6. CASE Archive(w)
  <2>1. /\ UNCHANGED <<reg, size, quar>> /\ Consistent(s)
        /\ job[w].op \in {"publish", "rollbackTo"} => WholeDir(job[w].stage)
        /\ job[w].op \notin {"unpublish", "restore", "purge"}
    BY <1>1, <1>6 DEF Archive, Phase, Swapping, Route, Displacing, registry
  <2>2. CASE live[s] = NoDir
    <3>1. UNCHANGED live /\ job'[w] = Idle
      BY <1>1, <1>6, <2>2 DEF Archive, Done
    <3> QED BY <1>3, <2>1, <3>1
  <2>3. CASE live[s] # NoDir
    <3>1. /\ job'[w].pc = "prune" /\ job'[w].stage = job[w].stage
          /\ job'[w] # Idle /\ live'[s] = NoDir
      BY <1>1, <1>6, <2>3 DEF Archive, Job, Idle
    <3> QED BY <1>1, <1>2, <2>1, <3>1 DEF Phase, Swapping
  <2> QED BY <2>2, <2>3
<1>7. CASE Prune(w) \/ Drop(w)
  <2>1. /\ UNCHANGED <<reg, size, live, quar>> /\ live[s] = NoDir
        /\ job[w].op \in {"publish", "rollbackTo"} => WholeDir(job[w].stage)
        /\ job[w].op \notin {"unpublish", "restore", "purge"}
    BY <1>1, <1>7 DEF Prune, Drop, Phase, Swapping, Route, Displacing, disk,
       registry
  <2>2. /\ job'[w].pc \in {"drop", "movein"}
        /\ job'[w].stage = job[w].stage /\ job'[w] # Idle
    BY <1>1, <1>7 DEF Prune, Drop, Goto, Job, Idle
  <2> QED BY <1>1, <1>2, <2>1, <2>2 DEF Phase, Swapping
<1>8. CASE Clear(w)
  <2>1. /\ UNCHANGED <<reg, size, quar>> /\ live'[s] = NoDir
        /\ job[w].op \in {"publish", "rollbackTo"} => WholeDir(job[w].stage)
        /\ job[w].op = "restore" => reg[s] = "live" /\ Exact(s, quar[s])
        /\ job[w].op \notin {"unpublish", "purge"}
    BY <1>1, <1>8 DEF Clear, Phase, Swapping, Route, Displacing, registry
  <2>2. /\ job'[w].pc = "movein"
        /\ job'[w].stage = job[w].stage /\ job'[w] # Idle
    BY <1>1, <1>8 DEF Clear, Goto, Job, Idle
  <2> QED BY <1>1, <1>2, <2>1, <2>2 DEF Phase, Swapping, Exact
<1>9. CASE SwapIn(w)
  <2>1. live[s] = NoDir /\ WholeDir(job[w].stage)
    BY <1>1, <1>9 DEF SwapIn, Phase, Swapping
  <2>2. /\ live'[s] = job[w].stage
        /\ job[w].op \in {"publish", "rollbackTo"}
        /\ job'[w].pc \in {"measure", "touch"} /\ job'[w] # Idle
        /\ job'[w].pc = "measure" => job[w].op = "publish"
    BY <1>1, <1>9, <2>1 DEF SwapIn, Job, Idle
  <2> QED BY <1>1, <1>2, <2>1, <2>2 DEF Phase, Swapping, WholeDir
<1>10. CASE RollbackIn(w)
  <2>1. /\ live[s] = NoDir /\ job[w].op = "rollback"
        /\ \E v \in vers[s] : v.stamp = job[w].src
        /\ \A v \in vers[s] : v.stamp = job[w].src => WholeDir(v.dir)
    BY <1>1, <1>10 DEF RollbackIn, Phase, Swapping, SourceReady
  <2>2. PICK v \in vers[s] :
          /\ v.stamp = job[w].src /\ live' = [live EXCEPT ![s] = v.dir]
          /\ Goto(w, "touch")
    BY <1>10, <2>1 DEF RollbackIn
  <2>3. /\ WholeDir(live'[s]) /\ job'[w].pc = "touch" /\ job'[w] # Idle
    BY <1>1, <2>1, <2>2 DEF Goto, Job, Idle
  <2> QED BY <1>1, <1>2, <2>1, <2>3 DEF Phase, Swapping, WholeDir
<1>11. CASE RestoreIn(w)
  <2>1. reg[s] = "live" /\ live[s] = NoDir /\ Exact(s, quar[s])
    BY <1>1, <1>11 DEF RestoreIn, Phase
  <2>2. /\ live'[s] = quar[s] /\ UNCHANGED <<reg, size>> /\ job'[w] = Idle
    BY <1>1, <1>11, <2>1 DEF RestoreIn, Exact, Done, registry
  <2> QED BY <2>1, <2>2 DEF Consistent, Exact
<1>12. CASE MeasureLive(w)
  <2>1. /\ WholeDir(live[s]) /\ UNCHANGED <<reg, live>>
        /\ job[w].op # "publish" => reg[s] = "live"
        /\ job[w].op \notin {"unpublish", "restore", "purge"}
    BY <1>1, <1>12 DEF MeasureLive, Phase, Route, Displacing, disk, registry
  <2>2. Measure({s}) = {<<s, live[s]>>}
    BY <2>1, MeasureOwn DEF WholeDir
  <2>3. /\ job'[w].pc = IF job[w].op = "publish" THEN "upsert" ELSE "resize"
        /\ job'[w].size = {<<s, live[s]>>} /\ job'[w] # Idle
    BY <1>1, <1>12, <2>2 DEF MeasureLive, TakeSize, Job, Idle
  <2> QED BY <1>1, <1>2, <2>1, <2>3 DEF Phase, Swapping, WholeDir
<1>13. CASE Upsert(w)
  <2>1. /\ WholeDir(live[s]) /\ UNCHANGED <<live>> /\ job[w].op = "publish"
        /\ job[w].size = {<<s, live[s]>>}
    BY <1>1, <1>13 DEF Upsert, Phase, Route, Displacing, disk, AllOps
  <2>2. /\ reg'[s] = "live" /\ size'[s] = {<<s, live[s]>>}
        /\ job'[w].pc = "reread" /\ job'[w] # Idle
    BY <1>1, <1>13, <2>1 DEF Upsert, UpsertSite, Job, Idle
  <2>3. Consistent(s)'
    BY <2>1, <2>2 DEF Consistent, Exact, WholeDir
  <2> QED BY <1>1, <1>2, <2>1, <2>2, <2>3 DEF Phase, Swapping, WholeDir
<1>14. CASE Touch(w)
  <2>1. /\ WholeDir(live[s]) /\ UNCHANGED live
        /\ job[w].op \in {"rollback", "rollbackTo"}
    BY <1>1, <1>14 DEF Touch, Phase, Route, Displacing, disk, AllOps
  <2>2. /\ reg'[s] # "deleted" /\ job'[w].pc = "reread" /\ job'[w] # Idle
    BY <1>1, <1>14 DEF Touch, UpsertSiteTouch, Goto, Job, Idle
  <2> QED BY <1>1, <1>2, <2>1, <2>2 DEF Phase, Swapping, WholeDir
<1>15. CASE Reread(w)
  <2>1. /\ WholeDir(live[s]) /\ UNCHANGED <<reg, size, live, quar>>
        /\ job[w].op = "publish" => reg[s] = "live" /\ Consistent(s)
        /\ job[w].op # "publish" => reg[s] # "deleted"
        /\ job[w].op \notin {"unpublish", "restore", "purge"}
    BY <1>1, <1>15 DEF Reread, Phase, Route, Displacing, disk, registry
  <2>2. CASE reg[s] = "live"
    <3>1. /\ job'[w].pc = IF job[w].op = "publish" THEN "detect" ELSE "measure"
          /\ job'[w] # Idle
      BY <1>1, <1>15, <2>2 DEF Reread, Goto, Job, Idle
    <3> QED BY <1>1, <1>2, <1>3, <2>1, <2>2, <3>1
            DEF Phase, Swapping, WholeDir
  <2>3. CASE reg[s] # "live"
    <3>1. job'[w] = Idle /\ Consistent(s)
      BY <1>1, <1>15, <2>1, <2>3 DEF Reread, Done, Consistent
    <3> QED BY <1>3, <2>1, <3>1
  <2> QED BY <2>2, <2>3
<1>16. CASE Resize(w)
  <2>1. /\ WholeDir(live[s]) /\ reg[s] = "live"
        /\ UNCHANGED <<reg, live, quar>>
        /\ job[w].size = {<<s, live[s]>>}
        /\ job[w].op \in {"rollback", "rollbackTo"}
    BY <1>1, <1>16 DEF Resize, Phase, Route, Displacing, SetSiteSize, disk,
       AllOps
  <2>2. size'[s] = {<<s, live[s]>>}
    BY <1>1, <1>16, <2>1 DEF Resize, SetSiteSize
  <2>3. Consistent(s)'
    BY <2>1, <2>2 DEF Consistent, Exact, WholeDir
  <2>4. job'[w] = Idle \/ job'[w].pc = "detect"
    BY <1>1, <1>16 DEF Resize, Job, Done
  <2> QED BY <1>1, <1>2, <2>1, <2>3, <2>4 DEF Phase, Swapping
<1>17. CASE Detect(w) \/ Compare(w) \/ SetIcon(w)
  <2>1. /\ Consistent(s) /\ UNCHANGED <<reg, size, live, quar>>
        /\ job[w].op \notin {"unpublish", "restore", "purge"}
    BY <1>1, <1>17 DEF Detect, Compare, SetIcon, SetSiteFavicon, Phase, Route,
       Displacing, disk, registry
  <2>2. job'[w] = Idle \/ job'[w].pc \in {"compare", "icon"}
    <3>1. CASE Detect(w)
      BY <1>1, <3>1 DEF Detect, TakeIcon, Job
    <3>2. CASE Compare(w)
      BY <1>1, <3>2 DEF Compare, Done, Goto, Job
    <3>3. CASE SetIcon(w)
      BY <1>1, <3>3 DEF SetIcon, Done
    <3> QED BY <1>17, <3>1, <3>2, <3>3
  <2> QED BY <1>1, <1>2, <1>3, <2>1, <2>2 DEF Phase, Swapping
<1>18. CASE QStat(w) \/ QClear(w)
  <2>1. /\ job[w].op = "unpublish" /\ reg[s] = "deleted" /\ Exact(s, live[s])
        /\ UNCHANGED <<reg, size, live>>
    BY <1>1, <1>18 DEF QStat, QClear, Phase, Route, Displacing, AllOps, disk,
       registry
  <2>2. /\ job'[w].pc \in {"qclear", "qmove"} /\ job'[w] # Idle
        /\ job'[w].pc = "qmove" => quar'[s] = NoDir
    BY <1>1, <1>18, <2>1 DEF QStat, QClear, Exact, Goto, Job, Idle
  <2> QED BY <1>1, <1>2, <2>1, <2>2 DEF Phase, Swapping, Exact
<1>19. CASE QMove(w)
  <2>1. /\ reg[s] = "deleted" /\ Exact(s, live[s]) /\ quar[s] = NoDir
    BY <1>1, <1>19 DEF QMove, Phase, Route, Displacing, AllOps
  <2>2. /\ quar'[s] = live[s] /\ live'[s] = NoDir /\ UNCHANGED <<reg, size>>
        /\ job'[w] = Idle
    BY <1>1, <1>19, <2>1 DEF QMove, Exact, Done, registry
  <2> QED BY <2>1, <2>2 DEF Consistent, Exact
<1>20. CASE QCheck(w)
  <2>1. /\ job[w].op = "restore" /\ UNCHANGED <<reg, size, live, quar>>
        /\ reg[s] = "live" /\ live[s] = NoDir /\ Exact(s, quar[s])
    BY <1>1, <1>20 DEF QCheck, Phase, Route, Displacing, AllOps, disk, registry
  <2>2. job'[w].pc = "clear" /\ job'[w] # Idle
    BY <1>1, <1>20, <2>1 DEF QCheck, Exact, Goto, Job, Idle
  <2> QED BY <1>1, <1>2, <2>1, <2>2 DEF Phase, Swapping, Exact
<1>21. CASE Wipe(w)
  <2>1. job[w].op = "purge" /\ reg[s] = "none" /\ UNCHANGED reg
    BY <1>1, <1>21 DEF Wipe, Phase, Route, Displacing, AllOps, registry
  <2>2. job'[w] = Idle
    BY <1>1, <1>21, <2>1 DEF Wipe, Done
  <2> QED BY <2>1, <2>2 DEF Consistent
<1> QED BY <1>4, <1>5, <1>6, <1>7, <1>8, <1>9, <1>10, <1>11, <1>12, <1>13,
        <1>14, <1>15, <1>16, <1>17, <1>18, <1>19, <1>20, <1>21 DEF WorkerStep

(* While a process works, every step is its own, the removal of files it   *)
(* has under way, or time that passes.                                     *)
LEMMA SoloStep ==
  ASSUME Serial = TRUE, Faults = FALSE, TypeOK, OneAtATime, [Next]_vars,
         NEW p \in Procs, Busy(p)
  PROVE  \/ p \in Workers /\ WorkerStep(p)
         \/ p = Janitor /\ (Wipe(Janitor) \/ DeleteSite)
         \/ Tear(p) \/ (\E s \in Sites : Expire(s)) \/ UNCHANGED vars
<1>1. \A q \in Procs : Busy(q) => q = p
  BY OthersIdle DEF Busy
<1>2. ~AllIdle
  BY DEF AllIdle, Busy
<1>3. ASSUME NEW w \in Workers, WorkerStep(w)
      PROVE  w = p
  BY <1>1, <1>3, ActionAt DEF Busy, Procs
<1>4. \A q \in Procs : Tear(q) => q = p
  BY <1>1 DEF Tear, Busy, At
<1>5. Wipe(Janitor) \/ DeleteSite => p = Janitor
  BY <1>1 DEF Wipe, DeleteSite, Busy, At, Procs
<1>6. /\ \A w \in Workers : ~Begin(w)
      /\ ~BeginReap /\ ~Restart /\ \A q \in Procs : ~Fail(q)
  BY <1>2, BeginJob DEF MayStart, BeginReap, Restart, Fail
<1> QED BY <1>3, <1>4, <1>5, <1>6 DEF Next, JanitorStep

(* When none works, one may start, or the server restart.                  *)
LEMMA RestingStep ==
  ASSUME Faults = FALSE, AllIdle, [Next]_vars
  PROVE  \/ \E w \in Workers : Begin(w)
         \/ BeginReap \/ Restart
         \/ (\E s \in Sites : Expire(s)) \/ UNCHANGED vars
<1>1. ASSUME NEW w \in Workers
      PROVE  ~WorkerStep(w)
  BY ActionAt DEF AllIdle, Procs
<1>2. ~Wipe(Janitor) /\ ~DeleteSite
  BY DEF AllIdle, Wipe, DeleteSite, At, Procs
<1>3. \A p \in Procs : ~Tear(p) /\ ~Fail(p)
  BY DEF AllIdle, Tear, Fail, At
<1> QED BY <1>1, <1>2, <1>3 DEF Next, JanitorStep

-----------------------------------------------------------------------------
(* Nothing torn is ever kept or shown, but by the process removing it.     *)

WholeVersions ==
  \A s \in Sites : \A v \in vers[s] :
    v.dir.torn => \E p \in Procs : /\ At(p, "drop") /\ job[p].site = s
                                   /\ v.stamp \in job[p].doomed

WholeLive ==
  \A s \in Sites :
    live[s] = NoDir \/ ~live[s].torn
      \/ \E p \in Procs : At(p, "clear") /\ job[p].site = s

(* What a rollback to the newest version needs of the history: the version *)
(* it has chosen is there, nothing but what it archives itself is newer,   *)
(* and so it does not prune its own choice.                                *)
SourceKept(p) ==
  LET n == job[p].src
      l == job[p].pc
  IN  job[p].op = "rollback" =>
        /\ l \in Displacing \union {"rbstat"} => n \in Stamps(job[p].site)
        /\ l \in {"rbstat", "stamp", "archive"}
             => \A m \in Stamps(job[p].site) : m <= n
        /\ l = "prune" => \A k, m \in Stamps(job[p].site) :
                            k > n /\ m > n => k = m
        /\ l = "drop" => n \notin job[p].doomed

Sources == \A p \in Procs : SourceKept(p)

(* The version to roll back to is still there at the move, and whole.      *)
LEMMA SourceIsReady ==
  ASSUME TypeOK, OneAtATime, WholeVersions, NEW p \in Procs, SourceKept(p)
  PROVE  SourceReady(p)
<1> SUFFICES ASSUME At(p, "movein"), job[p].op = "rollback"
             PROVE  /\ \E v \in vers[job[p].site] : v.stamp = job[p].src
                    /\ \A v \in vers[job[p].site] : WholeDir(v.dir)
  BY DEF SourceReady
<1>1. Busy(p) /\ job[p].site \in Sites
  BY BusyJob DEF At, Busy, TypeOK
<1>2. \A q \in Procs : ~At(q, "drop")
  BY <1>1, OthersIdle DEF At
<1>3. \A v \in vers[job[p].site] : ~v.dir.torn /\ v.dir \in Dir
  BY <1>1, <1>2 DEF WholeVersions, TypeOK, DiskOK, Version
<1> QED BY <1>3, NoDirAssumption
        DEF SourceKept, Displacing, At, Stamps, WholeDir

(* Only whole directories are moved into the place of a live one.          *)
LEMMA WholeLiveStep ==
  ASSUME Serial = TRUE, Faults = FALSE, TypeOK, OneAtATime, WholeVersions,
         WholeLive, Sources, \A p \in Procs : Phase(p), [Next]_vars
  PROVE  WholeLive'
<1> SUFFICES ASSUME NEW s \in Sites, live'[s] # NoDir, live'[s].torn
             PROVE  \E p \in Procs : At(p, "clear")' /\ job'[p].site = s
  BY DEF WholeLive
<1>1. /\ live \in [Sites -> AnyDir] /\ Workers \subseteq Procs
      /\ job \in [Procs -> Job] /\ vers \in [Sites -> SUBSET Version]
  BY DEF TypeOK, DiskOK, JobsOK, Procs
<1>2. ASSUME NEW p \in Procs, At(p, "clear"), job[p].site = s
      PROVE  job'[p] = job[p]
  <2>1. ~Clear(p)
    BY <1>1, <1>2 DEF Clear
  <2>2. ~(p \in Workers /\ WorkerStep(p))
    BY <1>2, <2>1, ActionAt
  <2>3. Busy(p) /\ ~Wipe(p) /\ (p = Janitor => ~DeleteSite)
    BY <1>2 DEF Busy, At, Wipe, DeleteSite
  <2> QED BY <2>2, <2>3, SoloStep DEF Tear, Expire, vars
<1>3. CASE live'[s] = live[s]
  BY <1>2, <1>3 DEF WholeLive, At
<1>4. CASE \E p \in Procs : At(p, "clear") /\ job[p].site = s
  BY <1>2, <1>4 DEF At
<1>5. ASSUME NEW w \in Workers, live[s] = NoDir, job[w].site = s,
             At(w, "movein"), SwapIn(w)
      PROVE  FALSE
  <2>1. WholeDir(job[w].stage)
    BY <1>1, <1>5 DEF Phase, SwapIn, At, Swapping
  <2>2. live'[s] = job[w].stage
    BY <1>1, <1>5 DEF SwapIn
  <2> QED BY <2>1, <2>2 DEF WholeDir
<1>6. ASSUME NEW w \in Workers, live[s] = NoDir, job[w].site = s,
             At(w, "movein"), RollbackIn(w)
      PROVE  FALSE
  <2>1. SourceReady(w)
    BY <1>1, SourceIsReady DEF Sources
  <2>2. \A v \in vers[s] : v.stamp = job[w].src => WholeDir(v.dir)
    BY <1>6, <2>1 DEF SourceReady, RollbackIn
  <2>3. \E v \in vers[s] : v.stamp = job[w].src /\ live'[s] = v.dir
    BY <1>1, <1>6, <2>1 DEF SourceReady, RollbackIn
  <2> QED BY <2>2, <2>3 DEF WholeDir
<1>7. ASSUME NEW w \in Workers, live[s] = NoDir, job[w].site = s,
             At(w, "movein"), RestoreIn(w)
      PROVE  FALSE
  <2>1. Exact(s, quar[s])
    BY <1>1, <1>7 DEF Phase, RestoreIn
  <2>2. live'[s] = quar[s]
    BY <1>1, <1>7, <2>1 DEF RestoreIn, Exact
  <2> QED BY <2>1, <2>2 DEF Exact
<1>8. ASSUME NEW w \in Workers, Archives(w, s)
      PROVE  FALSE
  BY <1>1, <1>8 DEF Archives, Archive, Done, Idle
<1> QED BY <1>3, <1>4, <1>5, <1>6, <1>7, <1>8, LiveSteps

(* A version loses files only to the process that prunes it.               *)
LEMMA WholeVersionsStep ==
  ASSUME Serial = TRUE, Faults = FALSE, TypeOK, OneAtATime, WholeVersions,
         WholeLive, [Next]_vars
  PROVE  WholeVersions'
<1> SUFFICES ASSUME NEW s \in Sites, NEW v \in vers'[s], v.dir.torn
             PROVE  \E p \in Procs : /\ At(p, "drop")' /\ job'[p].site = s
                                     /\ v.stamp \in job'[p].doomed
  BY DEF WholeVersions
<1>1. /\ vers \in [Sites -> SUBSET Version] /\ Workers \subseteq Procs
      /\ job \in [Procs -> Job]
  BY DEF TypeOK, DiskOK, JobsOK, Procs
<1>2. ASSUME NEW p \in Procs, At(p, "drop"), job[p].site = s,
             v.stamp \in job[p].doomed
      PROVE  At(p, "drop")' /\ job'[p].site = s /\ v.stamp \in job'[p].doomed
  <2>1. Busy(p) /\ ~Wipe(p) /\ (p = Janitor => ~DeleteSite)
    BY <1>2 DEF Busy, At, Wipe, DeleteSite
  <2>2. CASE p \in Workers /\ WorkerStep(p)
    <3>1. Drop(p)
      BY <1>2, <2>2, ActionAt
    <3>2. PICK m \in Oldest(job[p].doomed) :
            /\ vers' = [vers EXCEPT ![s] = {u \in @ : u.stamp # m}]
            /\ job' = [job EXCEPT ![p].doomed = @ \ {m}]
      BY <1>2, <3>1 DEF Drop
    <3>3. v.stamp # m
      BY <1>1, <3>2
    <3> QED BY <1>1, <1>2, <3>2, <3>3 DEF At, Job
  <2> QED BY <1>2, <2>1, <2>2, SoloStep DEF Tear, Expire, vars, At
<1>3. CASE v \in vers[s]
  BY <1>2, <1>3 DEF WholeVersions
<1>4. CASE v \notin vers[s]
  <2>1. ASSUME NEW w \in Workers, Archives(w, s)
        PROVE  FALSE
    <3>1. v.dir = live[s] /\ live[s] # NoDir
      BY <1>4, <2>1, NoDirAssumption DEF Archives
    <3>2. \A p \in Procs : ~At(p, "clear")
      BY <1>1, <2>1, OthersIdle DEF Archives, Busy, At
    <3> QED BY <3>1, <3>2 DEF WholeLive
  <2>2. ASSUME NEW w \in Workers, Drops(w, s) \/ MovesOut(w, s)
        PROVE  FALSE
    BY <1>4, <2>2 DEF Drops, MovesOut
  <2>3. CASE Tears(s)
    BY <1>2, <1>4, <2>3 DEF Tears
  <2> QED BY <1>4, <2>1, <2>2, <2>3, HistorySteps
<1> QED BY <1>3, <1>4

(* With two versions kept or more, the newest but one is not superfluous.  *)
LEMMA ChoiceIsKept ==
  ASSUME TypeOK, StampInv, Keep >= 2, NEW s \in Sites, NEW n \in Nat,
         \A k, m \in Stamps(s) : k > n /\ m > n => k = m
  PROVE  n \notin Superfluous(vers[s])
<1> SUFFICES ASSUME NEW v \in vers[s], v.stamp = n,
                    Cardinality(Newer(v, vers[s])) >= Keep
             PROVE  FALSE
  BY DEF Superfluous
<1>1. Cardinality(NewerStamps(s, n)) >= Keep
  BY NewerCount
<1>2. CASE NewerStamps(s, n) = {}
  BY <1>1, <1>2, FS_EmptySet, KeepAssumption
<1>3. CASE NewerStamps(s, n) # {}
  <2>1. PICK m : m \in NewerStamps(s, n)
    BY <1>3
  <2>2. NewerStamps(s, n) = {m}
    BY <2>1 DEF NewerStamps
  <2>3. Cardinality(NewerStamps(s, n)) = 1
    BY <2>2, FS_Singleton
  <2> QED BY <1>1, <2>3, KeepAssumption
<1> QED BY <1>2, <1>3

(* A rollback never prunes the version it has chosen.                      *)
LEMMA SourcesStep ==
  ASSUME Serial = TRUE, Faults = FALSE, "rollback" \in Ops => Keep >= 2,
         TypeOK, StampInv, OneAtATime, OnRoute, Sources, [Next]_vars
  PROVE  Sources'
<1> USE DEF At
<1> SUFFICES ASSUME NEW p \in Procs, job'[p].op = "rollback"
             PROVE  SourceKept(p)'
  BY DEF Sources, SourceKept
<1>1. /\ job \in [Procs -> Job] /\ vers \in [Sites -> SUBSET Version]
      /\ Workers \subseteq Procs /\ job[p] \in Job
  BY DEF TypeOK, DiskOK, JobsOK, Procs
<1>2. p # Janitor /\ "rollback" \in Ops
  <2>1. OnRoute'
    BY OnRouteStep
  <2> QED BY <2>1 DEF OnRoute
<1>3. CASE At(p, "idle")
  <2>1. job[p].op # "rollback"
    BY <1>3 DEF OnRoute, Route, Displacing
  <2>2. p \in Workers /\ Begin(p)
    BY <1>3, <2>1, JobSteps, ActionAt
       DEF Idle, Reaps, Overlooks, Continues, Lenient
  <2>3. PICK s \in Sites : \E v \in vers[s] : BeginRollback(p, s, v)
    <3>1. PICK s \in Sites :
            \/ \E c \in Contents : BeginPublish(p, s, c)
            \/ \E v \in vers[s] : BeginRollbackTo(p, s, v)
            \/ \E v \in vers[s] : BeginRollback(p, s, v)
            \/ BeginUnpublish(p, s) \/ BeginRestore(p, s)
            \/ BeginPurge(p, s) \/ BeginFavicons(p, s)
      BY <2>2 DEF Begin
    <3>2. /\ ~\E c \in Contents : BeginPublish(p, s, c)
          /\ ~\E v \in vers[s] : BeginRollbackTo(p, s, v)
      BY <1>1 DEF BeginPublish, BeginRollbackTo, Idle
    <3>3. ~BeginUnpublish(p, s) /\ ~BeginRestore(p, s)
          /\ ~BeginPurge(p, s) /\ ~BeginFavicons(p, s)
      BY <1>1 DEF BeginUnpublish, BeginRestore, BeginPurge, BeginFavicons,
         Idle
    <3> QED BY <3>1, <3>2, <3>3
  <2> PICK v \in vers[s] : BeginRollback(p, s, v)
    BY <2>3
  <2>4. /\ job'[p].pc = "rbstat" /\ job'[p].site = s
        /\ job'[p].src = v.stamp
    BY <1>1 DEF BeginRollback, Idle
  <2>5. /\ Stamps(s)' = Stamps(s) /\ v.stamp \in Stamps(s)
        /\ \A m \in Stamps(s) : m <= v.stamp
    BY DEF BeginRollback, Stamps, IsNewest, disk
  <2> QED BY <2>4, <2>5 DEF SourceKept
<1>4. CASE ~At(p, "idle")
  <2>1. \/ p \in Workers /\ WorkerStep(p)
        \/ Tear(p) \/ (\E s \in Sites : Expire(s)) \/ UNCHANGED vars
    BY <1>2, <1>4, SoloStep DEF Busy
  <2>2. PICK s \in Sites : s = job[p].site
    BY <1>4, BusyJob DEF TypeOK
  <2>3. SourceKept(p) /\ job[p].src \in Nat
    BY <1>1 DEF Sources, Job
  <2>4. ASSUME job'[p] = job[p], Stamps(s)' = Stamps(s)
        PROVE  SourceKept(p)'
    BY <2>2, <2>3, <2>4 DEF SourceKept
  <2>5. CASE (\E t \in Sites : Expire(t)) \/ UNCHANGED vars
    <3>1. job'[p] = job[p] /\ vers' = vers
      BY <2>5 DEF Expire, disk, vars
    <3> QED BY <2>4, <3>1 DEF Stamps
  <2>6. CASE Tear(p)
    <3>1. job' = job
      BY <2>6 DEF Tear
    <3>2. Stamps(s)' = Stamps(s)
      <4>1. ASSUME NEW w \in Workers
            PROVE  ~Archives(w, s) /\ ~Drops(w, s) /\ ~MovesOut(w, s)
        <5>1. ~Archives(w, s)
          BY <1>1, <3>1 DEF Archives
        <5>2. ~Drops(w, s)
          BY <1>1, <3>1, <2>6 DEF Drops, Drop, Goto, Oldest, Job
        <5>3. ~MovesOut(w, s)
          BY <1>1, <3>1 DEF MovesOut, RollbackIn, Goto, Done, Job, Idle
        <5> QED BY <5>1, <5>2, <5>3
      <4> QED BY <4>1, HistorySteps DEF Tears, Stamps
    <3> QED BY <2>4, <3>1, <3>2
  <2>7. CASE p \in Workers /\ WorkerStep(p)
    <3>1. /\ Continues(p) /\ job'[p].site = s
          /\ job[p].op = "rollback" /\ job'[p].op = "rollback"
          /\ job'[p].pc \in After(job[p].pc)
      BY <2>2, <2>7, ControlFlow DEF Idle, Continues
    <3>2. CASE job[p].pc \in {"stat", "rbstat", "stamp"}
      <4>1. Stat(p) \/ TakeStamp(p)
        BY <2>7, <3>2, ActionAt
      <4>2. vers' = vers /\ job'[p].src = job[p].src
            /\ job'[p].pc \in {"movein", "stamp", "archive", "clear"}
        BY <1>1, <4>1 DEF Stat, TakeStamp, disk, Goto, Job
      <4>3. job[p].pc # "stat"
        BY <3>1 DEF OnRoute, Route, Displacing
      <4>4. Stamps(s)' = Stamps(s)
        BY <4>2 DEF Stamps
      <4> QED BY <2>2, <2>3, <3>1, <3>2, <4>2, <4>3, <4>4
              DEF SourceKept, Displacing
    <3>3. CASE job[p].pc = "archive"
      <4>1. Archive(p)
        BY <2>7, <3>3, ActionAt
      <4>2. Archives(p, s)
        BY <2>2, <2>7, <3>1, <4>1, ArchiveSteps DEF Idle
      <4>3. /\ job'[p].src = job[p].src /\ job'[p].pc = "prune"
            /\ Stamps(s)' = Stamps(s) \union {job[p].name}
        BY <1>1, <4>1, <4>2 DEF Archives, Archive, Done, Idle, Job
      <4>4. Stamps(s) \subseteq Nat
        BY <1>1 DEF Stamps, Version
      <4>5. \A k, m \in Stamps(s)' :
              k > job[p].src /\ m > job[p].src => k = m
        BY <2>2, <2>3, <3>1, <3>3, <4>3, <4>4 DEF SourceKept
      <4>6. job[p].src \in Stamps(s)'
        BY <2>2, <2>3, <3>1, <3>3, <4>3 DEF SourceKept, Displacing
      <4> QED BY <3>1, <4>3, <4>5, <4>6 DEF SourceKept, Displacing
    <3>4. CASE job[p].pc = "prune"
      <4>1. Prune(p)
        BY <2>7, <3>4, ActionAt
      <4>2. /\ job'[p].src = job[p].src /\ job'[p].pc = "drop"
            /\ job'[p].doomed = Superfluous(vers[s]) /\ vers' = vers
        BY <1>1, <2>2, <4>1 DEF Prune, Job, disk
      <4>3. job[p].src \notin Superfluous(vers[s])
        BY <1>2, <2>2, <2>3, <3>1, <3>4, ChoiceIsKept DEF SourceKept
      <4>4. Stamps(s)' = Stamps(s) /\ job[p].src \in Stamps(s)
        BY <2>2, <2>3, <3>1, <3>4, <4>2 DEF Stamps, SourceKept, Displacing
      <4> QED BY <3>1, <4>2, <4>3, <4>4 DEF SourceKept, Displacing
    <3>5. CASE job[p].pc = "drop"
      <4>1. Drop(p)
        BY <2>7, <3>5, ActionAt
      <4>2. /\ job[p].src \in Stamps(s) /\ job[p].src \notin job[p].doomed
        BY <2>2, <2>3, <3>1, <3>5 DEF SourceKept, Displacing
      <4>3. CASE Goto(p, "movein") /\ UNCHANGED vers
        <5>1. job'[p].src = job[p].src /\ job'[p].pc = "movein"
          BY <1>1, <4>3 DEF Goto, Job
        <5>2. Stamps(s)' = Stamps(s)
          BY <4>3 DEF Stamps
        <5> QED BY <3>1, <4>2, <5>1, <5>2 DEF SourceKept
      <4>4. CASE ~(Goto(p, "movein") /\ UNCHANGED vers)
        <5>1. PICK m \in Oldest(job[p].doomed) :
                /\ vers' = [vers EXCEPT ![s] = {v \in @ : v.stamp # m}]
                /\ job' = [job EXCEPT ![p].doomed = @ \ {m}]
          BY <2>2, <4>1, <4>4 DEF Drop
        <5>2. /\ job'[p].src = job[p].src /\ job'[p].pc = "drop"
              /\ job'[p].doomed = job[p].doomed \ {m}
              /\ vers'[s] = {v \in vers[s] : v.stamp # m}
          BY <1>1, <3>5, <5>1 DEF Job
        <5>3. Stamps(s)' = Stamps(s) \ {m}
          BY <5>2 DEF Stamps
        <5>4. m # job[p].src
          BY <4>2, <5>1 DEF Oldest
        <5> QED BY <3>1, <4>2, <5>2, <5>3, <5>4 DEF SourceKept
      <4> QED BY <4>3, <4>4
    <3>6. CASE job[p].pc \notin {"stat", "rbstat", "stamp", "archive",
                                 "prune", "drop"}
      <4>1. job'[p].pc \notin Displacing \union {"rbstat"}
        <5>1. job[p].pc # "clear"
          BY <3>1 DEF OnRoute, Route, Displacing
        <5> QED BY <1>1, <3>1, <3>6, <5>1
                DEF After, Displacing, Job, PCs
      <4> QED BY <4>1 DEF SourceKept, Displacing
    <3> QED BY <3>2, <3>3, <3>4, <3>5, <3>6
  <2> QED BY <2>1, <2>5, <2>6, <2>7
<1> QED BY <1>3, <1>4

-----------------------------------------------------------------------------
(* Only the site an operation is on is out of step, and only in the way    *)
(* its phase tells.                                                        *)

Phases == \A p \in Procs : Phase(p)

Elsewhere ==
  \A s \in Sites : Consistent(s) \/ \E p \in Procs : Busy(p) /\ job[p].site = s

(* A call touches the row and the directories of its own site alone.       *)
LEMMA OwnSiteOnly ==
  ASSUME NEW p \in Procs, NEW s \in Sites, job[p].site # s, TypeOK,
         \/ p \in Workers /\ WorkerStep(p)
         \/ p = Janitor /\ (Wipe(Janitor) \/ DeleteSite)
         \/ Tear(p)
  PROVE  /\ reg'[s] = reg[s] /\ size'[s] = size[s]
         /\ live'[s] = live[s] /\ quar'[s] = quar[s]
<1>1. /\ reg \in [Sites -> {"none", "live", "deleted"}]
      /\ size \in [Sites -> Sized] /\ live \in [Sites -> AnyDir]
      /\ quar \in [Sites -> AnyDir]
  BY DEF TypeOK, RegistryOK, DiskOK
<1>2. CASE Stat(p) \/ TakeStamp(p) \/ Archive(p) \/ Prune(p) \/ Drop(p)
           \/ Clear(p) \/ SwapIn(p) \/ RollbackIn(p) \/ RestoreIn(p)
  BY <1>1, <1>2 DEF Stat, TakeStamp, Archive, Prune, Drop, Clear, SwapIn,
     RollbackIn, RestoreIn, registry, disk
<1>3. CASE MeasureLive(p) \/ Upsert(p) \/ Touch(p) \/ Reread(p) \/ Resize(p)
           \/ Detect(p) \/ Compare(p) \/ SetIcon(p)
  BY <1>1, <1>3 DEF MeasureLive, Upsert, UpsertSite, Touch, UpsertSiteTouch,
     Reread, Resize, SetSiteSize, Detect, Compare, SetIcon, SetSiteFavicon,
     registry, disk
<1>4. CASE QStat(p) \/ QClear(p) \/ QMove(p) \/ QCheck(p) \/ Wipe(p)
  BY <1>1, <1>4 DEF QStat, QClear, QMove, QCheck, Wipe, registry, disk
<1>5. CASE p = Janitor /\ DeleteSite
  BY <1>1, <1>5 DEF DeleteSite, HardDeleteSite, disk
<1>6. CASE Tear(p)
  BY <1>1, <1>6 DEF Tear, registry
<1> QED BY <1>2, <1>3, <1>4, <1>5, <1>6 DEF WorkerStep

(* A process that does not work asks nothing of the disk.                  *)
LEMMA IdlePhase ==
  ASSUME NEW p \in Procs, job'[p].pc = "idle", job'[p].op = "none"
  PROVE  Phase(p)'
BY DEF Phase, Swapping

(* A request that begins finds every site consistent.                      *)
LEMMA BeginPhase ==
  ASSUME TypeOK, AllIdle, WholeVersions, \A s \in Sites : Consistent(s),
         NEW w \in Workers, Begin(w)
  PROVE  /\ Phase(w)' /\ Busy(w)'
         /\ \A s \in Sites : Consistent(s)' \/ job'[w].site = s
<1>1. /\ w \in Procs /\ job \in [Procs -> Job]
      /\ reg \in [Sites -> {"none", "live", "deleted"}]
  BY DEF TypeOK, RegistryOK, JobsOK, Procs
<1>2. PICK s \in Sites :
        \/ \E c \in Contents : BeginPublish(w, s, c)
        \/ \E v \in vers[s] : BeginRollbackTo(w, s, v)
        \/ \E v \in vers[s] : BeginRollback(w, s, v)
        \/ BeginUnpublish(w, s)
        \/ BeginRestore(w, s)
        \/ BeginPurge(w, s)
        \/ BeginFavicons(w, s)
  BY DEF Begin
<1>3. Consistent(s)
  OBVIOUS
<1>4. ASSUME UNCHANGED <<reg, size, live, quar>>
      PROVE  \A t \in Sites : Consistent(t)'
  BY <1>4 DEF Consistent, Exact
<1>5. ASSUME NEW c \in Contents, BeginPublish(w, s, c)
      PROVE  /\ Phase(w)' /\ Busy(w)'
             /\ \A t \in Sites : Consistent(t)' \/ job'[w].site = t
  <2>1. /\ job'[w].pc = "stat" /\ job'[w].op = "publish"
        /\ job'[w].site = s /\ job'[w].stage = Whole(c)
        /\ UNCHANGED <<reg, size, live, quar>>
    BY <1>1, <1>5 DEF BeginPublish, Idle, registry, disk
  <2>2. WholeDir(Whole(c))
    BY StageIsWhole
  <2> QED BY <1>4, <2>1, <2>2 DEF Phase, Swapping, Busy, At, WholeDir
<1>6. ASSUME NEW v \in vers[s], BeginRollbackTo(w, s, v)
      PROVE  /\ Phase(w)' /\ Busy(w)'
             /\ \A t \in Sites : Consistent(t)' \/ job'[w].site = t
  <2>1. /\ job'[w].pc = "stat" /\ job'[w].op = "rollbackTo"
        /\ job'[w].site = s /\ job'[w].stage = v.dir
        /\ UNCHANGED <<reg, size, live, quar>>
    BY <1>1, <1>6 DEF BeginRollbackTo, Idle, registry, disk
  <2>2. WholeDir(v.dir)
    <3>1. v.dir \in Dir
      BY DEF TypeOK, DiskOK, Version
    <3>2. ~v.dir.torn
      BY DEF WholeVersions, AllIdle, At
    <3> QED BY <3>1, <3>2, NoDirAssumption DEF WholeDir
  <2> QED BY <1>4, <2>1, <2>2 DEF Phase, Swapping, Busy, At, WholeDir
<1>7. ASSUME NEW v \in vers[s], BeginRollback(w, s, v)
      PROVE  /\ Phase(w)' /\ Busy(w)'
             /\ \A t \in Sites : Consistent(t)' \/ job'[w].site = t
  <2>1. /\ job'[w].pc = "rbstat" /\ job'[w].op = "rollback"
        /\ job'[w].site = s /\ UNCHANGED <<reg, size, live, quar>>
    BY <1>1, <1>7 DEF BeginRollback, Idle, registry, disk
  <2> QED BY <1>4, <2>1 DEF Phase, Swapping, Busy, At
<1>8. CASE BeginUnpublish(w, s)
  <2>1. /\ job'[w].pc = "qstat" /\ job'[w].op = "unpublish"
        /\ job'[w].site = s /\ UNCHANGED <<size, live, quar>>
        /\ reg[s] = "live" /\ reg'[s] = "deleted"
        /\ \A t \in Sites : t # s => reg'[t] = reg[t]
    BY <1>1, <1>8 DEF BeginUnpublish, SoftDeleteSite, Idle, disk
  <2>2. Exact(s, live[s])'
    BY <1>3, <2>1 DEF Consistent, Exact
  <2>3. Phase(w)'
    BY <2>1, <2>2 DEF Phase, Swapping, Exact
  <2> QED BY <2>1, <2>3 DEF Busy, At, Consistent, Exact
<1>9. CASE BeginRestore(w, s)
  <2>1. /\ job'[w].pc = "qcheck" /\ job'[w].op = "restore"
        /\ job'[w].site = s /\ UNCHANGED <<size, live, quar>>
        /\ reg[s] = "deleted" /\ reg'[s] = "live"
        /\ \A t \in Sites : t # s => reg'[t] = reg[t]
    BY <1>1, <1>9 DEF BeginRestore, RestoreSite, Idle, disk
  <2>2. live'[s] = NoDir /\ Exact(s, quar[s])'
    BY <1>3, <2>1 DEF Consistent, Exact
  <2>3. Phase(w)'
    BY <2>1, <2>2 DEF Phase, Swapping, Exact
  <2> QED BY <2>1, <2>3 DEF Busy, At, Consistent, Exact
<1>10. CASE BeginPurge(w, s)
  <2>1. /\ job'[w].pc = "wipe" /\ job'[w].op = "purge"
        /\ job'[w].site = s /\ UNCHANGED <<live, quar>> /\ reg'[s] = "none"
        /\ \A t \in Sites : t # s => reg'[t] = reg[t] /\ size'[t] = size[t]
    BY <1>1, <1>10
       DEF BeginPurge, PurgeDeletedSite, HardDeleteSite, Idle, disk
  <2>2. Phase(w)'
    BY <2>1 DEF Phase, Swapping
  <2> QED BY <2>1, <2>2 DEF Busy, At, Consistent, Exact
<1>11. CASE BeginFavicons(w, s)
  <2>1. /\ job'[w].pc = "detect" /\ job'[w].op = "favicons"
        /\ job'[w].site = s /\ UNCHANGED <<reg, size, live, quar>>
    BY <1>1, <1>11 DEF BeginFavicons, Idle, registry, disk
  <2> QED BY <1>4, <2>1 DEF Phase, Swapping, Busy, At
<1> QED BY <1>2, <1>5, <1>6, <1>7, <1>8, <1>9, <1>10, <1>11

(* With each site's size its own, a restart finds nothing to correct.      *)
LEMMA RestartChangesNothing ==
  ASSUME TypeOK, Restart, \A s \in Sites : Below[s] = {s} /\ Consistent(s)
  PROVE  UNCHANGED <<reg, size, live, quar>>
<1>1. PICK left, skipped \in SUBSET Sites : BackfillSizes(left, skipped)
  BY DEF Restart
<1>2. ASSUME NEW s \in Sites, reg[s] = "live"
      PROVE  Measure(Below[s]) = size[s]
  <2>1. live[s] # NoDir /\ size[s] = {<<s, live[s]>>}
    BY <1>2 DEF Consistent, Exact
  <2> QED BY <2>1, MeasureOwn
<1>3. size \in [Sites -> Sized]
  BY DEF TypeOK, RegistryOK
<1>4. size' = size
  BY <1>1, <1>2, <1>3 DEF BackfillSizes
<1> QED BY <1>4 DEF Restart, disk

(* The removal of files under way is of files no phase relies on.          *)
LEMMA TearPhase ==
  ASSUME TypeOK, OnRoute, NEW p \in Procs, Phase(p), Tear(p)
  PROVE  Phase(p)'
<1>1. /\ UNCHANGED <<reg, size>> /\ job'[p] = job[p]
      /\ job[p].pc \in Route(job[p].op)
      /\ job[p].op \in AllOps \union {"none", "reap"}
      /\ job[p] \in Job
  BY DEF Tear, registry, OnRoute, TypeOK, JobsOK, Job
<1>2. CASE At(p, "clear")
  <2>1. job[p].pc = "clear" /\ live[job[p].site] # NoDir
    BY <1>2 DEF Tear, At
  <2>2. job[p].op = "publish" /\ WholeDir(job[p].stage)
    BY <1>1, <2>1 DEF Phase, Route, Displacing, Swapping, AllOps
  <2> QED BY <1>1, <2>1, <2>2 DEF Phase, Swapping, WholeDir
<1>3. CASE At(p, "qclear") \/ At(p, "wipe")
  <2>1. live' = live /\ job[p].pc \in {"qclear", "wipe"}
    BY <1>3, Zenon DEF Tear, At
  <2>2. job[p].op \in {"unpublish", "purge", "reap"}
    BY <1>1, <2>1 DEF Route, Displacing, AllOps
  <2> QED BY <1>1, <2>1, <2>2 DEF Phase, Swapping, Exact
<1>4. CASE At(p, "drop")
  <2>1. live' = live /\ quar' = quar /\ job[p].pc = "drop"
    BY <1>4 DEF Tear, At
  <2> QED BY <1>1, <2>1 DEF Phase, Swapping, Exact, WholeDir
<1> QED BY <1>2, <1>3, <1>4 DEF Tear

(* Every step brings the operation to its next phase, and leaves the other *)
(* sites alone.                                                            *)
LEMMA PhasesStep ==
  ASSUME Serial = TRUE, Faults = FALSE, \A s \in Sites : Below[s] = {s},
         TypeOK, OneAtATime, OnRoute, WholeVersions, Sources,
         Phases, Elsewhere, [Next]_vars
  PROVE  Phases' /\ Elsewhere'
<1>1. /\ job \in [Procs -> Job] /\ Workers \subseteq Procs
      /\ Janitor \in Procs
      /\ reg \in [Sites -> {"none", "live", "deleted"}]
  BY DEF TypeOK, JobsOK, RegistryOK, Procs
<1>2. ASSUME NEW p \in Procs, job'[p] = job[p], At(p, "idle")
      PROVE  Phase(p)'
  <2>1. job[p].op = "none"
    BY <1>1, <1>2 DEF OnRoute, Route, Displacing, Job, AllOps, At
  <2> QED BY <1>2, <2>1, IdlePhase DEF At
<1>3. ASSUME NEW p \in Procs, job'[p] = Idle
      PROVE  Phase(p)'
  BY <1>3, IdlePhase DEF Idle
<1>4. ASSUME UNCHANGED <<reg, size, live, quar>>, NEW s \in Sites,
             Consistent(s)
      PROVE  Consistent(s)'
  BY <1>4 DEF Consistent, Exact
<1>5. ASSUME UNCHANGED <<reg, size, live, quar, job>>
      PROVE  Phases' /\ Elsewhere'
  BY <1>5
     DEF Phases, Phase, Elsewhere, Consistent, Exact, WholeDir, Busy, At
<1>6. CASE (\E s \in Sites : Expire(s)) \/ UNCHANGED vars
  BY <1>5, <1>6 DEF Expire, disk, vars
<1>7. CASE AllIdle
  <2>1. \A s \in Sites : Consistent(s)
    BY <1>7 DEF Elsewhere, AllIdle, Busy
  <2>2. ASSUME NEW w \in Workers, Begin(w)
        PROVE  Phases' /\ Elsewhere'
    <3>1. \A p \in Procs : p # w => Phase(p)'
      BY <1>2, <1>7, <2>2, BeginJob DEF AllIdle
    <3>2. /\ Phase(w)' /\ Busy(w)'
          /\ \A s \in Sites : Consistent(s)' \/ job'[w].site = s
      BY <1>7, <2>1, <2>2, BeginPhase
    <3> QED BY <1>1, <3>1, <3>2 DEF Phases, Elsewhere
  <2>3. CASE BeginReap
    <3>1. UNCHANGED <<reg, size, live, quar>>
      BY <2>3 DEF BeginReap, registry, disk
    <3>2. \A p \in Procs : p # Janitor => Phase(p)'
      BY <1>1, <1>2, <1>7, <2>3, NextListed DEF AllIdle, BeginReap, TypeOK
    <3>3. \/ job'[Janitor] = Idle
          \/ job'[Janitor].pc = "wipe" /\ job'[Janitor].op = "reap"
      BY <1>1, <2>3, NextListed DEF BeginReap, TypeOK
    <3>4. Phase(Janitor)'
      BY <1>1, <1>3, <3>3 DEF Phase, Swapping
    <3> QED BY <1>4, <2>1, <3>1, <3>2, <3>4 DEF Phases, Elsewhere
  <2>4. CASE Restart
    <3>1. UNCHANGED <<reg, size, live, quar>>
      BY <2>1, <2>4, RestartChangesNothing
    <3>2. \A p \in Procs : job'[p] = Idle
      BY <2>4 DEF Restart
    <3> QED BY <1>3, <1>4, <2>1, <3>1, <3>2 DEF Phases, Elsewhere
  <2> QED BY <1>6, <1>7, <2>2, <2>3, <2>4, RestingStep
<1>8. ASSUME NEW p \in Procs, Busy(p)
      PROVE  Phases' /\ Elsewhere'
  <2>1. \A q \in Procs : q # p => At(q, "idle")
    BY <1>8, OthersIdle
  <2>2. PICK s \in Sites : s = job[p].site
    BY <1>8, BusyJob DEF Busy, TypeOK
  <2>3. \A t \in Sites : t # s => Consistent(t)
    BY <2>1, <2>2 DEF Elsewhere, Busy
  <2>4. Phase(p)
    BY DEF Phases
  <2>5. ASSUME \/ p \in Workers /\ WorkerStep(p)
               \/ p = Janitor /\ (Wipe(Janitor) \/ DeleteSite)
               \/ Tear(p)
        PROVE  \A t \in Sites : t # s => Consistent(t)'
    BY <2>2, <2>3, <2>5, OwnSiteOnly DEF Consistent, Exact
  <2>6. CASE p \in Workers /\ WorkerStep(p)
    <3>1. \A q \in Procs : q # p => Phase(q)'
      BY <1>2, <2>1, <2>6, ControlFlow
    <3>2. IF job'[p] = Idle THEN Consistent(s)' ELSE Phase(p)'
      <4>1. SourceReady(p)
        BY SourceIsReady DEF Sources
      <4> QED BY <2>2, <2>4, <2>6, <4>1, PhaseAdvances
    <3>3. job'[p] # Idle => Busy(p)' /\ job'[p].site = s
      <4>1. CASE Continues(p)
        <5>1. job'[p].pc # "idle"
          BY <1>1, <4>1 DEF Continues, After, Job, PCs
        <5> QED BY <2>2, <4>1, <5>1 DEF Continues, Busy, At
      <4> QED BY <2>6, <4>1, ControlFlow
    <3>4. Phases'
      BY <1>3, <3>1, <3>2 DEF Phases
    <3>5. Elsewhere'
      BY <2>5, <2>6, <3>2, <3>3 DEF Elsewhere
    <3> QED BY <3>4, <3>5
  <2>7. CASE p = Janitor /\ Wipe(Janitor)
    <3>1. job[Janitor].op = "reap"
      BY <1>1, <1>8, <2>7
         DEF OnRoute, Route, Displacing, AllOps, Busy, At, Job, Wipe
    <3>2. Goto(Janitor, "delete")
      BY <2>7, <3>1 DEF Wipe
    <3>3. /\ \A q \in Procs : q # p => job'[q] = job[q]
          /\ job'[p].pc = "delete" /\ job'[p].op = "reap" /\ job'[p].site = s
      BY <1>1, <2>2, <2>7, <3>1, <3>2 DEF Goto, Job
    <3>4. Phase(p)' /\ Busy(p)'
      BY <3>3 DEF Phase, Swapping, Busy, At
    <3> QED BY <1>2, <2>1, <2>5, <2>7, <3>3, <3>4 DEF Phases, Elsewhere
  <2>8. CASE p = Janitor /\ DeleteSite
    <3>1. /\ \A q \in Procs : q # p => job'[q] = job[q]
          /\ \/ job'[p] = Idle
             \/ job'[p].pc = "wipe" /\ job'[p].op = "reap"
      BY <1>1, <2>8, NextListed DEF DeleteSite, TypeOK
    <3>2. Phase(p)'
      BY <1>3, <3>1 DEF Phase, Swapping
    <3>3. reg'[s] = "none"
      BY <1>1, <2>2, <2>8 DEF DeleteSite, HardDeleteSite
    <3>4. Consistent(s)'
      BY <3>3 DEF Consistent
    <3> QED BY <1>2, <2>1, <2>5, <2>8, <3>1, <3>2, <3>4 DEF Phases, Elsewhere
  <2>9. CASE Tear(p)
    <3>1. job' = job
      BY <2>9 DEF Tear
    <3>2. Phase(p)'
      BY <2>4, <2>9, TearPhase
    <3> QED BY <1>2, <1>8, <2>1, <2>2, <2>5, <2>9, <3>1, <3>2
            DEF Phases, Elsewhere, Busy, At
  <2> QED BY <1>6, <1>8, <2>6, <2>7, <2>8, <2>9, SoloStep
<1> QED BY <1>7, <1>8 DEF AllIdle, Busy

-----------------------------------------------------------------------------
(* The theorems about operations that do not overlap.                      *)

(* Operations run one at a time and no call fails; no site is nested under *)
(* another; a deployment that rolls back keeps two versions or more. Each  *)
(* is needed: PurgeRace, NestedSizes and RollbackKeep1 show what happens   *)
(* without the first, third and fourth.                                    *)
SoloDeployment ==
  /\ Serial = TRUE /\ Faults = FALSE
  /\ "rollback" \in Ops => Keep >= 2
  /\ \A s \in Sites : Below[s] = {s}

SerialInv ==
  /\ TypeOK /\ StampInv /\ OneAtATime /\ OnRoute
  /\ WholeVersions /\ WholeLive /\ Sources /\ Phases /\ Elsewhere

(* The parts make an inductive invariant.                                  *)
LEMMA SerialInvariant ==
  ASSUME SoloDeployment
  PROVE  /\ Init => SerialInv
         /\ SerialInv /\ [Next]_vars => SerialInv'
<1>1. ASSUME Init
      PROVE  SerialInv
  <2>1. TypeOK /\ StampInv
    BY <1>1, TypeInit, StampInvInit
  <2>2. OneAtATime /\ OnRoute /\ Sources
    BY <1>1 DEF Init, OneAtATime, OnRoute, Sources, SourceKept, Idle, Route,
       Displacing, At
  <2>3. WholeVersions /\ WholeLive /\ Phases /\ Elsewhere
    BY <1>1 DEF Init, WholeVersions, WholeLive, Phases, Phase, Elsewhere,
       Consistent, Idle, Swapping
  <2> QED BY <2>1, <2>2, <2>3 DEF SerialInv
<1>2. ASSUME SerialInv, [Next]_vars
      PROVE  SerialInv'
  <2>1. TypeOK' /\ StampInv' /\ OneAtATime' /\ OnRoute'
    BY <1>2, TypeStep, StampInvStep, OneAtATimeStep, OnRouteStep
       DEF SerialInv, SoloDeployment
  <2>2. WholeVersions' /\ WholeLive'
    BY <1>2, WholeVersionsStep, WholeLiveStep
       DEF SerialInv, SoloDeployment, Phases
  <2>3. Sources'
    BY <1>2, SourcesStep DEF SerialInv, SoloDeployment
  <2>4. Phases' /\ Elsewhere'
    BY <1>2, PhasesStep DEF SerialInv, SoloDeployment
  <2> QED BY <2>1, <2>2, <2>3, <2>4 DEF SerialInv
<1> QED BY <1>1, <1>2

(* It holds throughout.                                                    *)
LEMMA SerialAlways ==
  ASSUME SoloDeployment
  PROVE  Spec => []SerialInv
<1>1. Init => SerialInv
  BY SerialInvariant
<1>2. SerialInv /\ [Next]_vars => SerialInv'
  BY SerialInvariant
<1> QED BY <1>1, <1>2, PTL DEF Spec

(* Between any two operations the registry and the disk tell the same      *)
(* story of every site, whichever operations ran, on whatever sites and    *)
(* with or without versioning.                                             *)
THEOREM OperationsKeepConsistency ==
  ASSUME SoloDeployment
  PROVE  Spec => []SerialConsistency
<1>1. SerialInv => SerialConsistency
  BY DEF SerialInv, Elsewhere, Consistent, SerialConsistency, AllIdle, Busy
<1> QED BY <1>1, SerialAlways, PTL

(* With two versions kept, a rollback leaves a listed site online.         *)
THEOREM RollbackKeepsSiteOnline ==
  ASSUME SoloDeployment
  PROVE  Spec => []RollbackStaysOnline
<1>1. SerialInv => RollbackStaysOnline
  BY DEF SerialInv, Elsewhere, Consistent, RollbackStaysOnline, AllIdle, Busy,
     Exact
<1> QED BY <1>1, SerialAlways, PTL

(* The only live directory ever cleared is one there is nothing in.        *)
LEMMA ClearsNothing ==
  ASSUME Versioning = TRUE, SerialInv, NEW p \in Procs, At(p, "clear")
  PROVE  live[job[p].site] = NoDir
<1>1. /\ Phase(p) /\ job[p].pc = "clear"
      /\ job[p].pc \in Route(job[p].op)
      /\ job[p].op \in AllOps \union {"none", "reap"}
      /\ job[p].op # "publish"
  BY DEF SerialInv, Phases, OnRoute, At, TypeOK, JobsOK, Job
<1>2. job[p].op = "restore"
  BY <1>1 DEF Route, Displacing, AllOps
<1> QED BY <1>1, <1>2 DEF Phase

(* With versioning, no visitor ever finds a site half-written, whichever   *)
(* operations replace it, rollbacks and Restore included.                  *)
THEOREM SerialServesWhole ==
  ASSUME SoloDeployment, Versioning = TRUE
  PROVE  Spec => []NeverServedTorn
<1>1. SerialInv => NeverServedTorn
  BY ClearsNothing DEF SerialInv, WholeLive, NeverServedTorn
<1> QED BY <1>1, SerialAlways, PTL

(* With versioning, what is on display is moved to the history or to the   *)
(* quarantine by every operation, and deleted by none, Restore included.   *)
THEOREM SerialKeepsDisplayed ==
  ASSUME SoloDeployment, Versioning = TRUE
  PROVE  Spec => NothingOverwritten
<1>1. ASSUME SerialInv, [Next]_vars, NEW s \in Sites, live[s] # NoDir,
             live'[s] # live[s]
      PROVE  live[s] \in {v.dir : v \in vers'[s]} \union {quar'[s]}
  <2>1. \A p \in Procs : ~(At(p, "clear") /\ job[p].site = s)
    BY <1>1, ClearsNothing
  <2>2. (\E w \in Workers : Archives(w, s)) \/ quar'[s] = live[s]
    BY <1>1, <2>1, LiveSteps DEF SerialInv
  <2>3. ASSUME NEW w \in Workers, Archives(w, s)
        PROVE  live[s] \in {v.dir : v \in vers'[s]}
    <3>1. [stamp |-> job[w].name, dir |-> live[s]] \in vers'[s]
      BY <2>3 DEF Archives
    <3> QED BY <3>1
  <2> QED BY <2>2, <2>3
<1>2. SerialInv /\ [Next]_vars
        => [\A s \in Sites :
              live[s] # NoDir /\ live'[s] # live[s]
                => live[s] \in {v.dir : v \in vers'[s]} \union {quar'[s]}]_vars
  BY <1>1
<1> QED BY <1>2, SerialAlways, PTL DEF NothingOverwritten, Spec

-----------------------------------------------------------------------------
(* A history is a set of versions in the code and a sequence of contents   *)
(* in SiteLifecycle. A version comes where its stamp comes.                *)

StampsOf(V) == {v.stamp : v \in V}

IsHistory(V) ==
  /\ V \in SUBSET Version /\ IsFiniteSet(StampsOf(V))
  /\ \A u, v \in V : u.stamp = v.stamp => u = v

Place(n, S) == Cardinality({m \in S : m <= n})

(* Places are in the order of the stamps, from 1 on, with none left out.   *)
LEMMA PlacesInOrder ==
  ASSUME NEW S \in SUBSET Nat, IsFiniteSet(S)
  PROVE  /\ Cardinality(S) \in Nat
         /\ \A n \in S : Place(n, S) \in 1..Cardinality(S)
         /\ \A n, m \in S : n < m => Place(n, S) < Place(m, S)
<1>1. ASSUME NEW n \in S
      PROVE  Place(n, S) \in 1..Cardinality(S)
  <2> DEFINE T == {m \in S : m <= n}
  <2>1. T \subseteq S /\ n \in T
    OBVIOUS
  <2>2. IsFiniteSet(T) /\ Cardinality(T) <= Cardinality(S)
        /\ Cardinality(T) \in Nat /\ Cardinality(S) \in Nat
    BY <2>1, CountPart
  <2>3. Cardinality(T) # 0
    BY <2>1, <2>2, FS_EmptySet
  <2> QED BY <2>2, <2>3 DEF Place
<1>2. ASSUME NEW n \in S, NEW m \in S, n < m
      PROVE  Place(n, S) < Place(m, S)
  <2> DEFINE T == {k \in S : k <= n}
             U == {k \in S : k <= m}
  <2>1. T \subseteq U /\ U \subseteq S /\ m \in U /\ m \notin T
    <3>1. n \in Nat /\ m \in Nat /\ \A k \in S : k \in Nat
      OBVIOUS
    <3>2. \A k \in S : k <= n => k <= m
      BY <1>2, <3>1
    <3>3. ~(m <= n) /\ m <= m
      BY <1>2, <3>1
    <3> QED BY <3>2, <3>3
  <2>2. IsFiniteSet(U) /\ Cardinality(U) \in Nat
    BY <2>1, CountPart
  <2>3. Cardinality(T) <= Cardinality(U) /\ Cardinality(T) \in Nat
    BY <2>1, <2>2, CountPart
  <2>4. Cardinality(T) # Cardinality(U)
    BY <2>1, <2>2, FS_Subset
  <2> QED BY <2>2, <2>3, <2>4 DEF Place
<1> QED BY <1>1, <1>2, FS_CardinalityType

(* Every place up to the number of stamps is taken.                        *)
LEMMA PlacesFilled ==
  ASSUME NEW S \in SUBSET Nat, IsFiniteSet(S), NEW i \in 1..Cardinality(S)
  PROVE  \E n \in S : Place(n, S) = i
<1> DEFINE I == 1..Cardinality(S)
           f == [n \in S |-> Place(n, S)]
<1>1. Cardinality(S) \in Nat
  BY PlacesInOrder
<1>2. IsFiniteSet(I) /\ Cardinality(I) = Cardinality(S)
  BY <1>1, FS_Interval
<1>3. f \in [S -> I]
  BY PlacesInOrder
<1>4. ASSUME NEW n \in S, NEW m \in S, f[n] = f[m]
      PROVE  n = m
  <2>1. f[n] \in Nat /\ f[m] \in Nat /\ n \in Nat /\ m \in Nat
    BY <1>1, <1>3
  <2>2. f[n] = Place(n, S) /\ f[m] = Place(m, S)
    OBVIOUS
  <2>3. ~(n < m) /\ ~(m < n)
    BY <1>4, <2>1, <2>2, PlacesInOrder
  <2> QED BY <2>1, <2>3
<1>5. f \in Injection(S, I)
  BY <1>3, <1>4 DEF Injection, IsInjective
<1>6. f \in Surjection(S, I)
  <2> HIDE DEF f, I
  <2> QED BY <1>2, <1>5, FS_Injection
<1> QED BY <1>6 DEF Surjection

(* Ordered puts the content of each version in its place.                  *)
LEMMA OrderedAt ==
  ASSUME NEW V, IsHistory(V)
  PROVE  LET S == StampsOf(V)
         IN  /\ Ordered(V) \in Seq(Contents) /\ Len(Ordered(V)) = Cardinality(S)
             /\ \A v \in V : Ordered(V)[Place(v.stamp, S)] = v.dir.c
<1> DEFINE S == StampsOf(V)
           n == Cardinality(S)
           Rank(v) == Cardinality({u \in V : u.stamp <= v.stamp})
           o == [i \in 1..n |-> (CHOOSE v \in V : Rank(v) = i).dir.c]
<1>1. S \in SUBSET Nat /\ IsFiniteSet(S) /\ V \in SUBSET Version
  BY DEF IsHistory, StampsOf, Version
<1>2. n \in Nat
  BY <1>1, PlacesInOrder
<1>3. ASSUME NEW v \in V
      PROVE  Rank(v) = Place(v.stamp, S)
  <2> DEFINE U == {u \in V : u.stamp <= v.stamp}
             T == {m \in S : m <= v.stamp}
  <2>1. T = {u.stamp : u \in U}
    BY DEF StampsOf
  <2>2. IsFiniteSet(T)
    BY <1>1, CountPart
  <2>3. \A u, x \in U : u.stamp = x.stamp => u = x
    BY DEF IsHistory
  <2> HIDE DEF U, T
  <2>4. Cardinality(U) = Cardinality(T)
    BY <2>1, <2>2, <2>3, CountByStamp
  <2> QED BY <2>4 DEF U, T, Place
<1>4. Cardinality(V) = n
  BY <1>1, CountByStamp DEF IsHistory, StampsOf
<1>5. Ordered(V) = o
  BY <1>4 DEF Ordered
<1> HIDE DEF n, Rank
<1>6. ASSUME NEW i \in 1..n
      PROVE  \E v \in V : Rank(v) = i
  <2>1. PICK m \in S : Place(m, S) = i
    BY <1>1, PlacesFilled DEF n
  <2>2. PICK v \in V : v.stamp = m
    BY DEF StampsOf
  <2> QED BY <1>3, <2>1, <2>2
<1>7. ASSUME NEW u \in V, NEW v \in V, Rank(u) = Rank(v)
      PROVE  u = v
  <2>1. u.stamp \in S /\ v.stamp \in S /\ u.stamp \in Nat /\ v.stamp \in Nat
    BY <1>1 DEF StampsOf
  <2>2. Place(u.stamp, S) \in Nat /\ Place(u.stamp, S) = Place(v.stamp, S)
    BY <1>1, <1>2, <1>3, <1>7, <2>1, PlacesInOrder DEF n
  <2>3. ~(u.stamp < v.stamp) /\ ~(v.stamp < u.stamp)
    <3> HIDE DEF S
    <3> QED BY <1>1, <2>1, <2>2, PlacesInOrder
  <2> QED BY <2>1, <2>3 DEF IsHistory
<1>8. ASSUME NEW v \in V
      PROVE  Rank(v) \in 1..n /\ o[Rank(v)] = v.dir.c
  <2>1. v.stamp \in S
    BY DEF StampsOf
  <2>2. Rank(v) \in 1..n
    BY <1>1, <1>3, <2>1, PlacesInOrder DEF n
  <2>3. (CHOOSE u \in V : Rank(u) = Rank(v)) = v
    BY <1>7
  <2> QED BY <2>2, <2>3
<1>9. o \in Seq(Contents) /\ Len(o) = n
  <2>1. \A v \in V : v.dir.c \in Contents
    BY <1>1 DEF Version, Dir
  <2>2. o \in [1..n -> Contents]
    BY <1>6, <2>1
  <2> HIDE DEF o
  <2> QED BY <1>2, <2>2
<1> QED BY <1>3, <1>5, <1>8, <1>9 DEF n

(* And nothing else does.                                                  *)
LEMMA OrderedIs ==
  ASSUME NEW V, IsHistory(V), NEW q \in Seq(Contents),
         Len(q) = Cardinality(StampsOf(V)),
         \A v \in V : q[Place(v.stamp, StampsOf(V))] = v.dir.c
  PROVE  Ordered(V) = q
<1> DEFINE S == StampsOf(V)
<1>1. S \in SUBSET Nat /\ IsFiniteSet(S)
  BY DEF IsHistory, StampsOf, Version
<1>2. /\ Ordered(V) \in Seq(Contents) /\ Len(Ordered(V)) = Len(q)
      /\ \A v \in V : Ordered(V)[Place(v.stamp, S)] = v.dir.c
  BY OrderedAt
<1>3. ASSUME NEW i \in 1..Len(q)
      PROVE  Ordered(V)[i] = q[i]
  <2>1. PICK m \in S : Place(m, S) = i
    BY <1>1, PlacesFilled
  <2>2. PICK v \in V : v.stamp = m
    BY DEF StampsOf
  <2> QED BY <1>2, <2>1, <2>2
<1> QED BY <1>2, <1>3

(* A newer version comes at the end.                                       *)
LEMMA OrderedNewest ==
  ASSUME NEW V, IsHistory(V), NEW x \in Version,
         \A v \in V : v.stamp < x.stamp
  PROVE  /\ IsHistory(V \union {x})
         /\ StampsOf(V \union {x}) = StampsOf(V) \union {x.stamp}
         /\ Cardinality(StampsOf(V \union {x})) = Cardinality(StampsOf(V)) + 1
         /\ Ordered(V \union {x}) = Append(Ordered(V), x.dir.c)
<1> DEFINE W == V \union {x}
           S == StampsOf(V)
           T == StampsOf(W)
           o == Ordered(V)
           q == Append(o, x.dir.c)
<1>1. /\ V \in SUBSET Version /\ S \in SUBSET Nat /\ IsFiniteSet(S)
      /\ x.stamp \in Nat /\ x.dir.c \in Contents
  BY DEF IsHistory, StampsOf, Version, Dir
<1>2. T = S \union {x.stamp} /\ x.stamp \notin S /\ \A m \in S : m < x.stamp
  BY <1>1 DEF StampsOf
<1>3. IsFiniteSet(T) /\ Cardinality(T) = Cardinality(S) + 1
  <2> HIDE DEF S, T
  <2> QED BY <1>1, <1>2, FS_AddElement
<1>4. IsHistory(W)
  BY <1>1, <1>2, <1>3 DEF IsHistory, StampsOf
<1>5. /\ o \in Seq(Contents) /\ Len(o) = Cardinality(S)
      /\ \A v \in V : o[Place(v.stamp, S)] = v.dir.c
  BY OrderedAt
<1> HIDE DEF o, S, T
<1>6. /\ q \in Seq(Contents) /\ Len(q) = Len(o) + 1 /\ q[Len(o) + 1] = x.dir.c
      /\ \A i \in 1..Len(o) : q[i] = o[i]
  BY <1>1, <1>5
<1>7. ASSUME NEW m \in S
      PROVE  Place(m, T) = Place(m, S)
  <2>1. {k \in T : k <= m} = {k \in S : k <= m}
    <3>1. m < x.stamp /\ m \in Nat /\ x.stamp \in Nat
      BY <1>1, <1>2
    <3>2. ~(x.stamp <= m)
      BY <3>1
    <3> QED BY <1>2, <3>2
  <2> QED BY <2>1 DEF Place
<1>8. Place(x.stamp, T) = Len(o) + 1
  <2>1. \A k \in T : k <= x.stamp
    BY <1>1, <1>2
  <2>2. {k \in T : k <= x.stamp} = T
    BY <2>1
  <2> QED BY <1>3, <1>5, <2>2 DEF Place
<1>9. ASSUME NEW v \in W
      PROVE  q[Place(v.stamp, T)] = v.dir.c
  <2>1. CASE v = x
    BY <1>6, <1>8, <2>1
  <2>2. CASE v \in V
    <3>1. v.stamp \in S
      BY <2>2 DEF StampsOf, S
    <3>2. Place(v.stamp, S) \in 1..Len(o)
      BY <1>1, <1>5, <3>1, PlacesInOrder
    <3> QED BY <1>5, <1>6, <1>7, <2>2, <3>1, <3>2
  <2> QED BY <2>1, <2>2
<1> HIDE DEF q, W
<1>10. Ordered(W) = q
  BY <1>3, <1>4, <1>5, <1>6, <1>9, OrderedIs DEF T
<1> QED BY <1>2, <1>3, <1>4, <1>10 DEF q, W, S, T, o

(* A sequence without its k-th element.                                    *)
Without(q, k) == SubSeq(q, 1, k - 1) \o SubSeq(q, k + 1, Len(q))

(* Without its k-th element a sequence has those behind it move up.        *)
LEMMA WithoutElement ==
  ASSUME NEW C, NEW q \in Seq(C), NEW k \in 1..Len(q)
  PROVE  /\ Without(q, k) \in Seq(C) /\ Len(Without(q, k)) = Len(q) - 1
         /\ \A i \in 1..(k - 1) : Without(q, k)[i] = q[i]
         /\ \A i \in (k + 1)..Len(q) : Without(q, k)[i - 1] = q[i]
<1> DEFINE a == SubSeq(q, 1, k - 1)
           b == SubSeq(q, k + 1, Len(q))
<1>1. k \in Nat /\ Len(q) \in Nat /\ 1 <= k /\ k <= Len(q)
  OBVIOUS
<1>2. /\ a \in Seq(C) /\ Len(a) = k - 1
      /\ \A i \in 1..(k - 1) : a[i] = q[i]
  BY <1>1
<1>3. /\ b \in Seq(C) /\ Len(b) = Len(q) - k
      /\ \A i \in 1..(Len(q) - k) : b[i] = q[k + i]
  BY <1>1
<1> HIDE DEF a, b
<1>4. /\ a \o b \in Seq(C) /\ Len(a \o b) = Len(a) + Len(b)
      /\ \A i \in 1..Len(a) : (a \o b)[i] = a[i]
      /\ \A i \in 1..Len(b) : (a \o b)[Len(a) + i] = b[i]
  <2>1. a \o b \in Seq(C) /\ Len(a \o b) = Len(a) + Len(b)
    BY ONLY <1>2, <1>3, ConcatProperties
  <2>2. \A i \in 1..Len(a) : (a \o b)[i] = a[i]
    BY <1>2, <1>3
  <2>3. \A i \in 1..Len(b) : (a \o b)[Len(a) + i] = b[i]
    BY <1>1, <1>2, <1>3
  <2> QED BY <2>1, <2>2, <2>3
<1> DEFINE r == a \o b
<1> HIDE DEF r
<1>5. /\ r \in Seq(C) /\ Len(r) = Len(q) - 1
      /\ \A i \in 1..(k - 1) : r[i] = q[i]
      /\ \A i \in 1..(Len(q) - k) : r[k - 1 + i] = q[k + i]
  BY <1>1, <1>2, <1>3, <1>4 DEF r
<1>6. ASSUME NEW i \in (k + 1)..Len(q) PROVE r[i - 1] = q[i]
  <2>1. i - k \in 1..(Len(q) - k) /\ k - 1 + (i - k) = i - 1 /\ k + (i - k) = i
    BY <1>1
  <2> QED BY <1>5, <2>1
<1>7. Without(q, k) = r
  BY DEF Without, r, a, b
<1> QED BY <1>5, <1>6, <1>7

(* When a version leaves a history, the later ones move up.                *)
LEMMA OrderedWithout ==
  ASSUME NEW V, IsHistory(V), NEW x \in V
  PROVE  /\ IsHistory(V \ {x})
         /\ Ordered(V \ {x}) =
              Without(Ordered(V), Place(x.stamp, StampsOf(V)))
<1> DEFINE W == V \ {x}
           S == StampsOf(V)
           T == StampsOf(W)
           o == Ordered(V)
           k == Place(x.stamp, S)
           q == Without(o, k)
<1>1. /\ V \in SUBSET Version /\ S \in SUBSET Nat /\ IsFiniteSet(S)
      /\ x.stamp \in S /\ x.stamp \in Nat
  BY DEF IsHistory, StampsOf, Version
<1>2. T = S \ {x.stamp}
  BY DEF StampsOf, IsHistory
<1>3. IsFiniteSet(T) /\ Cardinality(T) = Cardinality(S) - 1
  <2> DEFINE n == x.stamp
  <2>1. IsFiniteSet(S) /\ n \in S /\ T = S \ {n}
    BY <1>1, <1>2
  <2> HIDE DEF S, T, n
  <2>2. IsFiniteSet(S \ {n}) /\ Cardinality(S \ {n}) = Cardinality(S) - 1
    BY <2>1, FS_RemoveElement
  <2> QED BY <2>1, <2>2
<1>4. IsHistory(W)
  BY <1>1, <1>3 DEF IsHistory
<1>5. /\ o \in Seq(Contents) /\ Len(o) = Cardinality(S)
      /\ \A v \in V : o[Place(v.stamp, S)] = v.dir.c
  BY OrderedAt
<1> HIDE DEF o, S, T
<1>6. k \in 1..Len(o)
  BY <1>1, <1>5, PlacesInOrder
<1> HIDE DEF k
<1>7. /\ q \in Seq(Contents) /\ Len(q) = Len(o) - 1
      /\ \A i \in 1..(k - 1) : q[i] = o[i]
      /\ \A i \in (k + 1)..Len(o) : q[i - 1] = o[i]
  BY <1>5, <1>6, WithoutElement
<1> HIDE DEF q
<1>8. ASSUME NEW v \in W
      PROVE  q[Place(v.stamp, T)] = v.dir.c
  <2> DEFINE n == v.stamp
             U == {m \in S : m <= n}
  <2>1. n \in S /\ n \in Nat /\ n # x.stamp
    BY <1>1 DEF S, StampsOf, IsHistory
  <2>2. Place(n, S) \in 1..Len(o) /\ Len(o) \in Nat /\ k \in Nat
    BY <1>1, <1>5, <1>6, <2>1, PlacesInOrder
  <2>3. {m \in T : m <= n} = U \ {x.stamp}
    BY <1>2
  <2>4. IsFiniteSet(U)
    BY <1>1, CountPart
  <2>5. CASE n < x.stamp
    <3>1. ~(x.stamp <= n)
      BY <1>1, <2>1, <2>5
    <3>2. U \ {x.stamp} = U
      BY <3>1
    <3>3. Place(n, T) = Place(n, S)
      BY <2>3, <3>2 DEF Place
    <3>4. Place(n, S) < k
      BY <1>1, <2>1, <2>5, PlacesInOrder DEF k
    <3>5. Place(n, S) \in 1..(k - 1)
      BY <2>2, <3>4
    <3> QED BY <1>5, <1>7, <3>3, <3>5
  <2>6. CASE x.stamp < n
    <3>1. x.stamp \in U
      BY <1>1, <2>1, <2>6
    <3>2. Place(n, T) = Place(n, S) - 1
      BY <2>3, <2>4, <3>1, FS_RemoveElement DEF Place
    <3>3. k < Place(n, S)
      BY <1>1, <2>1, <2>6, PlacesInOrder DEF k
    <3>4. Place(n, S) \in (k + 1)..Len(o)
      BY <2>2, <3>3
    <3> QED BY <1>5, <1>7, <3>2, <3>4
  <2>7. n < x.stamp \/ x.stamp < n
    BY <1>1, <2>1
  <2> QED BY <2>5, <2>6, <2>7
<1>9. Ordered(W) = q
  <2> HIDE DEF W
  <2> QED BY <1>3, <1>4, <1>5, <1>7, <1>8, OrderedIs DEF T
<1> QED BY <1>4, <1>9 DEF W, q, k, o, S

-----------------------------------------------------------------------------
(* What pruneVersions leaves of a history, in places.                      *)

Kept(V) == {v \in V : v.stamp \notin Superfluous(V)}

(* Some of the versions of a history are a history.                        *)
LEMMA PartOfHistory ==
  ASSUME NEW V, IsHistory(V), NEW W, W \subseteq V
  PROVE  IsHistory(W) /\ StampsOf(W) \subseteq StampsOf(V)
<1>1. StampsOf(W) \subseteq StampsOf(V)
  BY DEF StampsOf
<1>2. IsFiniteSet(StampsOf(W))
  BY <1>1, CountPart DEF IsHistory
<1> QED BY <1>1, <1>2 DEF IsHistory

(* How many versions are newer follows from the place.                     *)
LEMMA NewerByPlace ==
  ASSUME NEW V, IsHistory(V), NEW v \in V
  PROVE  LET S == StampsOf(V)
         IN  /\ IsFiniteSet(Newer(v, V))
             /\ Cardinality(Newer(v, V)) \in Nat
             /\ Cardinality(Newer(v, V)) = Cardinality(S) - Place(v.stamp, S)
             /\ v.stamp \in Superfluous(V)
                  <=> Cardinality(Newer(v, V)) >= Keep
<1> DEFINE S == StampsOf(V)
           n == v.stamp
           T == {m \in S : m <= n}
           U == {m \in S : m > n}
<1>1. S \in SUBSET Nat /\ IsFiniteSet(S) /\ n \in S /\ V \in SUBSET Version
  BY DEF IsHistory, StampsOf, Version
<1>2. Newer(v, V) \subseteq V /\ U = StampsOf(Newer(v, V))
  BY DEF Newer, StampsOf
<1>3. Cardinality(Newer(v, V)) = Cardinality(U) /\ IsFiniteSet(Newer(v, V))
  <2>1. IsHistory(Newer(v, V))
    BY <1>2, PartOfHistory
  <2> HIDE DEF U
  <2> QED BY <1>2, <2>1, CountByStamp DEF IsHistory, StampsOf
<1>4. U = S \ T /\ T \subseteq S
  <2>1. \A m \in S : m > n <=> ~(m <= n)
    BY <1>1
  <2> QED BY <2>1
<1>5. /\ Cardinality(U) = Cardinality(S) - Cardinality(T)
      /\ Cardinality(U) \in Nat
  <2>1. S \cap T = T
    BY <1>4
  <2>2. IsFiniteSet(U)
    BY <1>1, <1>4, CountPart
  <2> HIDE DEF S, T, U
  <2>3. Cardinality(S \ T) = Cardinality(S) - Cardinality(S \cap T)
    BY <1>1, FS_Difference
  <2> QED BY <1>4, <2>1, <2>2, <2>3, FS_CardinalityType
<1>6. v.stamp \in Superfluous(V) <=> Cardinality(Newer(v, V)) >= Keep
  BY DEF Superfluous, IsHistory
<1> QED BY <1>3, <1>5, <1>6 DEF Place

(* A pruned version was not among those to keep, and those that were still *)
(* are.                                                                    *)
LEMMA DropLeavesKept ==
  ASSUME NEW V, IsHistory(V), NEW m \in Superfluous(V), NEW W,
         W = {v \in V : v.stamp # m}
  PROVE  /\ IsHistory(W)
         /\ Superfluous(W) = Superfluous(V) \ {m} /\ Kept(W) = Kept(V)
<1>1. IsHistory(W) /\ W \subseteq V /\ V \in SUBSET Version
  BY PartOfHistory DEF IsHistory
<1>2. PICK x \in V : x.stamp = m
  BY DEF Superfluous
<1>3. ASSUME NEW v \in W
      PROVE  v.stamp \in Superfluous(W) <=> v.stamp \in Superfluous(V)
  <2>1. /\ Newer(v, W) \subseteq Newer(v, V)
        /\ IsFiniteSet(Newer(v, V)) /\ IsFiniteSet(Newer(v, W))
        /\ Cardinality(Newer(v, W)) <= Cardinality(Newer(v, V))
        /\ Cardinality(Newer(v, W)) \in Nat /\ Cardinality(Newer(v, V)) \in Nat
    <3>1. Newer(v, W) \subseteq Newer(v, V)
      BY <1>1 DEF Newer
    <3>2. IsFiniteSet(Newer(v, V))
      BY <1>1, NewerByPlace
    <3> QED BY <3>1, <3>2, CountPart
  <2>2. ASSUME v.stamp \in Superfluous(V)
        PROVE  Cardinality(Newer(v, W)) >= Keep
    <3>1. CASE x \in Newer(v, V)
      <4>1. Newer(x, V) \subseteq Newer(v, W)
        <5>1. x.stamp > v.stamp /\ x.stamp \in Nat /\ v.stamp \in Nat
              /\ \A u \in V : u.stamp \in Nat
          BY <1>1, <3>1 DEF Newer, Version
        <5>2. \A u \in V : u.stamp > x.stamp
                             => u.stamp > v.stamp /\ u.stamp # m
          BY <1>2, <5>1
        <5> QED BY <5>2 DEF Newer
      <4>2. Cardinality(Newer(x, V)) >= Keep /\ Cardinality(Newer(x, V)) \in Nat
        BY <1>2, NewerByPlace
      <4>3. Cardinality(Newer(x, V)) <= Cardinality(Newer(v, W))
        BY <2>1, <4>1, CountPart
      <4> QED BY <2>1, <4>2, <4>3, KeepAssumption
    <3>2. CASE x \notin Newer(v, V)
      <4>1. Newer(v, W) = Newer(v, V)
        BY <1>2, <3>2 DEF Newer, IsHistory
      <4> QED BY <1>1, <2>2, <4>1, NewerByPlace
    <3> QED BY <3>1, <3>2
  <2>3. /\ v.stamp \in Superfluous(W) <=> Cardinality(Newer(v, W)) >= Keep
        /\ v.stamp \in Superfluous(V) <=> Cardinality(Newer(v, V)) >= Keep
    BY <1>1, NewerByPlace
  <2> QED BY <2>1, <2>2, <2>3, KeepAssumption
<1>4. /\ \A n \in Superfluous(V) : \E v \in V : v.stamp = n
      /\ \A n \in Superfluous(W) : \E v \in W : v.stamp = n
  BY DEF Superfluous
<1>5. Superfluous(W) = Superfluous(V) \ {m}
  BY <1>3, <1>4
<1>6. Kept(W) = Kept(V)
  BY <1>5 DEF Kept
<1> QED BY <1>1, <1>5, <1>6

(* Nothing becomes superfluous by another version's leaving.               *)
LEMMA NoneSuperfluous ==
  ASSUME NEW V, IsHistory(V), Superfluous(V) = {}, NEW W, W \subseteq V
  PROVE  Superfluous(W) = {} /\ Kept(W) = W
<1>1. IsHistory(W)
  BY PartOfHistory
<1>2. ASSUME NEW v \in W
      PROVE  ~(Cardinality(Newer(v, W)) >= Keep)
  <2>1. Newer(v, W) \subseteq Newer(v, V)
    BY DEF Newer
  <2>2. IsFiniteSet(Newer(v, V)) /\ ~(Cardinality(Newer(v, V)) >= Keep)
    BY NewerByPlace
  <2>3. /\ Cardinality(Newer(v, W)) <= Cardinality(Newer(v, V))
        /\ Cardinality(Newer(v, W)) \in Nat /\ Cardinality(Newer(v, V)) \in Nat
    BY <2>1, <2>2, CountPart
  <2> QED BY <2>2, <2>3, KeepAssumption
<1> QED BY <1>2 DEF Superfluous, Kept

(* Histories that differ in nothing but the state of some directories.     *)
SameVersions(V, W) ==
  /\ StampsOf(V) = StampsOf(W)
  /\ \A v \in V, w \in W : v.stamp = w.stamp => v.dir.c = w.dir.c

(* Same stamps, same contents: the same history, superfluous or kept.      *)
LEMMA SameHistory ==
  ASSUME NEW V, IsHistory(V), NEW W, IsHistory(W), SameVersions(V, W)
  PROVE  /\ Ordered(V) = Ordered(W) /\ Superfluous(V) = Superfluous(W)
         /\ SameVersions(Kept(V), Kept(W))
<1> DEFINE S == StampsOf(V)
<1>1. StampsOf(W) = S /\ V \in SUBSET Version
  BY DEF SameVersions, IsHistory
<1>2. /\ Ordered(V) \in Seq(Contents) /\ Len(Ordered(V)) = Cardinality(S)
      /\ \A v \in V : Ordered(V)[Place(v.stamp, S)] = v.dir.c
  BY OrderedAt
<1>3. ASSUME NEW w \in W
      PROVE  \E v \in V : v.stamp = w.stamp /\ v.dir.c = w.dir.c
  BY <1>1 DEF StampsOf, SameVersions
<1>4. ASSUME NEW v \in V
      PROVE  \E w \in W : v.stamp = w.stamp
  BY <1>1 DEF StampsOf
<1>5. Ordered(W) = Ordered(V)
  <2>1. \A w \in W : Ordered(V)[Place(w.stamp, S)] = w.dir.c
    BY <1>2, <1>3
  <2> QED BY <1>1, <1>2, <2>1, OrderedIs
<1>6. ASSUME NEW v \in V, NEW w \in W, v.stamp = w.stamp
      PROVE  v.stamp \in Superfluous(V) <=> w.stamp \in Superfluous(W)
  <2>1. Cardinality(Newer(v, V)) = Cardinality(Newer(w, W))
    BY <1>1, <1>6, NewerByPlace
  <2> QED BY <2>1, NewerByPlace
<1>7. /\ \A n \in Superfluous(V) : \E v \in V : v.stamp = n
      /\ \A n \in Superfluous(W) : \E w \in W : w.stamp = n
  BY DEF Superfluous
<1>8. Superfluous(V) = Superfluous(W)
  <2>1. \A n \in Superfluous(V) : n \in Superfluous(W)
    BY <1>4, <1>6, <1>7
  <2>2. \A n \in Superfluous(W) : n \in Superfluous(V)
    BY <1>3, <1>6, <1>7
  <2> QED BY <2>1, <2>2
<1>9. SameVersions(Kept(V), Kept(W))
  <2>1. StampsOf(Kept(V)) = StampsOf(Kept(W))
    BY <1>3, <1>4, <1>8 DEF StampsOf, Kept
  <2> QED BY <2>1 DEF SameVersions, Kept
<1> QED BY <1>5, <1>8, <1>9

(* The newest version but one has the last place but one.                  *)
LEMMA LastPlaces ==
  ASSUME NEW V, IsHistory(V), NEW v \in V
  PROVE  LET n == Cardinality(StampsOf(V))
         IN  /\ (\A u \in V : u.stamp <= v.stamp)
                  => Place(v.stamp, StampsOf(V)) = n
             /\ \A x \in V : v.stamp < x.stamp
                  /\ (\A u \in V : u = x \/ u.stamp <= v.stamp)
                  => Place(v.stamp, StampsOf(V)) = n - 1
<1> DEFINE n == Cardinality(StampsOf(V))
           k == Place(v.stamp, StampsOf(V))
<1>1. /\ n \in Nat /\ k \in Nat /\ Cardinality(Newer(v, V)) = n - k
      /\ V \in SUBSET Version
  <2>1. StampsOf(V) \in SUBSET Nat /\ v.stamp \in StampsOf(V)
    BY DEF IsHistory, StampsOf, Version
  <2>2. n \in Nat /\ k \in 1..n
    BY <2>1, PlacesInOrder DEF IsHistory
  <2> QED BY <2>2, NewerByPlace DEF IsHistory
<1>2. \A u \in V : u.stamp \in Nat
  BY <1>1 DEF Version
<1>3. ASSUME \A u \in V : u.stamp <= v.stamp
      PROVE  k = n
  <2>1. Newer(v, V) = {}
    BY <1>2, <1>3 DEF Newer
  <2> HIDE DEF n, k
  <2> QED BY <1>1, <2>1, FS_EmptySet
<1>4. ASSUME NEW x \in V, v.stamp < x.stamp,
             \A u \in V : u = x \/ u.stamp <= v.stamp
      PROVE  k = n - 1
  <2>1. Newer(v, V) = {x}
    BY <1>2, <1>4 DEF Newer
  <2>2. Cardinality({x}) = 1
    BY FS_Singleton
  <2> HIDE DEF n, k
  <2> QED BY <1>1, <2>1, <2>2
<1> QED BY <1>3, <1>4

(* Archiving and pruning: one more content at the end of the history, and  *)
(* the oldest gone if these are too many.                                  *)
LEMMA ArchivedHistory ==
  ASSUME NEW V, IsHistory(V), Superfluous(V) = {}, NEW x \in Version,
         \A v \in V : v.stamp < x.stamp
  PROVE  LET W == V \union {x}
         IN  /\ IsHistory(W) /\ IsHistory(Kept(W)) /\ x \in Kept(W)
             /\ Ordered(Kept(W)) =
                  Lifecycle!LastN(Append(Ordered(V), x.dir.c), Keep)
<1> DEFINE W == V \union {x}
           S == StampsOf(V)
           T == StampsOf(W)
           n == Cardinality(S)
           q == Append(Ordered(V), x.dir.c)
<1>1. /\ IsHistory(W) /\ T = S \union {x.stamp} /\ Cardinality(T) = n + 1
      /\ Ordered(W) = q
  BY OrderedNewest
<1>2. T \in SUBSET Nat /\ IsFiniteSet(T) /\ S \in SUBSET Nat /\ IsFiniteSet(S)
  BY <1>1 DEF IsHistory, StampsOf, Version
<1>3. n \in Nat /\ n <= Keep
  <2>1. Cardinality(S \ {}) <= Keep
    BY SuperfluousLeavesKeep DEF IsHistory, StampsOf
  <2>2. S \ {} = S
    OBVIOUS
  <2> QED BY <1>2, <2>1, <2>2, PlacesInOrder
<1>4. Ordered(V) \in Seq(Contents) /\ Len(Ordered(V)) = n /\ x.dir.c \in Contents
  BY OrderedAt DEF Version, Dir
<1>5. q \in Seq(Contents) /\ Len(q) = n + 1
  <2> HIDE DEF n
  <2> QED BY <1>4
<1> HIDE DEF W, q, S, T, n
<1>6. ASSUME NEW w \in W
      PROVE  /\ Place(w.stamp, T) \in 1..(n + 1)
             /\ w.stamp \in Superfluous(W)
                  <=> n + 1 - Place(w.stamp, T) >= Keep
  <2>1. w.stamp \in T
    BY DEF T, StampsOf
  <2>2. Place(w.stamp, T) \in 1..(n + 1)
    BY <1>1, <1>2, <2>1, PlacesInOrder
  <2>3. /\ Cardinality(Newer(w, W)) = Cardinality(T) - Place(w.stamp, T)
        /\ w.stamp \in Superfluous(W) <=> Cardinality(Newer(w, W)) >= Keep
    BY <1>1, NewerByPlace DEF T
  <2>4. Cardinality(Newer(w, W)) = n + 1 - Place(w.stamp, T)
    BY <1>1, <1>3, <2>2, <2>3
  <2> QED BY <2>2, <2>3, <2>4
<1>7. IsHistory(Kept(W))
  BY <1>1, PartOfHistory DEF Kept
<1>8. x \in W /\ \A u \in W : u.stamp <= x.stamp
  <2>1. \A v \in V \union {x} : v.stamp \in Nat
    BY DEF IsHistory, Version
  <2> QED BY <2>1 DEF W
<1>9. x \in Kept(W)
  <2>1. Place(x.stamp, T) = n + 1
    BY <1>1, <1>8, LastPlaces DEF T
  <2> QED BY <1>3, <1>6, <1>8, <2>1, KeepAssumption DEF Kept
<1>10. CASE n < Keep
  <2>1. ASSUME NEW w \in W PROVE w.stamp \notin Superfluous(W)
    BY <1>3, <1>6, <1>10, KeepAssumption
  <2>2. Kept(W) = W
    BY <2>1 DEF Kept
  <2>3. Lifecycle!LastN(q, Keep) = q
    BY <1>3, <1>5, <1>10, KeepAssumption DEF Lifecycle!LastN
  <2> QED BY <1>1, <1>7, <1>9, <2>2, <2>3 DEF W, q
<1>11. CASE n = Keep
  <2>1. PICK m \in T : Place(m, T) = 1
    BY <1>1, <1>2, <1>3, PlacesFilled
  <2>2. PICK w \in W : w.stamp = m
    BY <2>1 DEF T, StampsOf
  <2>3. ASSUME NEW v \in W, v.stamp \in Superfluous(W)
        PROVE  v = w
    <3>1. Place(v.stamp, T) = 1
      BY <1>3, <1>6, <1>11, <2>3
    <3>2. v.stamp \in T /\ v.stamp \in Nat /\ m \in Nat
      BY <1>2 DEF T, StampsOf
    <3>3. ~(v.stamp < m) /\ ~(m < v.stamp)
      BY <1>2, <2>1, <3>1, <3>2, PlacesInOrder
    <3>4. v.stamp = w.stamp
      BY <2>2, <3>2, <3>3
    <3> QED BY <1>1, <3>4 DEF IsHistory
  <2>4. w.stamp \in Superfluous(W)
    BY <1>3, <1>6, <1>11, <2>1, <2>2, KeepAssumption
  <2>5. Kept(W) = W \ {w}
    <3>1. \A v \in W : v.stamp = w.stamp => v = w
      BY <1>1 DEF IsHistory
    <3> QED BY <2>3, <2>4, <3>1 DEF Kept
  <2>6. Ordered(Kept(W)) = Without(q, 1)
    BY <1>1, <2>1, <2>2, <2>5, OrderedWithout DEF T
  <2>7. Lifecycle!LastN(q, Keep) = SubSeq(q, 2, Len(q))
    BY <1>3, <1>5, <1>11, KeepAssumption DEF Lifecycle!LastN
  <2>8. Without(q, 1) = SubSeq(q, 2, Len(q))
    <3> DEFINE a == Without(q, 1)
               b == SubSeq(q, 2, Len(q))
    <3>1. /\ a \in Seq(Contents) /\ Len(a) = Len(q) - 1
          /\ \A i \in 2..Len(q) : a[i - 1] = q[i]
      <4>1. 1 \in 1..Len(q) /\ 1 + 1 = 2
        BY <1>3, <1>5
      <4>2. \A i \in (1 + 1)..Len(q) : Without(q, 1)[i - 1] = q[i]
        BY <1>5, <4>1, WithoutElement
      <4> QED BY <1>5, <4>1, <4>2, WithoutElement
    <3>2. /\ b \in Seq(Contents) /\ Len(b) = Len(q) - 1
          /\ \A i \in 1..(Len(q) - 1) : b[i] = q[i + 1]
      BY <1>3, <1>5
    <3> HIDE DEF a, b
    <3>3. ASSUME NEW i \in 1..Len(a) PROVE a[i] = b[i]
      <4>1. i + 1 \in 2..Len(q) /\ (i + 1) - 1 = i /\ i \in 1..(Len(q) - 1)
        BY <1>3, <1>5, <3>1
      <4>2. a[(i + 1) - 1] = q[i + 1]
        BY <3>1, <4>1
      <4> QED BY <3>2, <4>1, <4>2
    <3>4. a = b
      BY <3>1, <3>2, <3>3
    <3> QED BY <3>4 DEF a, b
  <2> QED BY <1>1, <1>7, <1>9, <2>6, <2>7, <2>8 DEF W, q
<1> QED BY <1>3, <1>10, <1>11, KeepAssumption

-----------------------------------------------------------------------------
(* What the abstract state of a site is read off.                          *)

(* A process between two operations has no business with any site.         *)
Rested == \A p \in Procs : At(p, "idle") => job[p] = Idle

(* The revision a process rolls back to is in the history until it comes   *)
(* to displace what is online.                                             *)
Target(p) ==
  job[p].op = "rollbackTo" /\ job[p].pc \in {"stat", "stamp", "archive"}
    => \E v \in vers[job[p].site] : v.dir = job[p].stage
Targets == \A p \in Procs : Target(p)

(* There is nothing superfluous in a history but what a process is about   *)
(* to remove.                                                              *)
Doomed(p) == At(p, "drop") => job[p].doomed = Superfluous(vers[job[p].site])
Trimmed ==
  /\ \A p \in Procs : Doomed(p)
  /\ \A s \in Sites :
       \/ Superfluous(vers[s]) = {}
       \/ \E p \in Procs : job[p].site = s /\ job[p].pc \in {"prune", "drop"}

(* What a process archives will be the newest of its site's versions.      *)
Latest ==
  \A p \in Procs :
    At(p, "archive") => \A m \in Stamps(job[p].site) : m < job[p].name

LifeInv == SerialInv /\ JanitorList /\ Rested /\ Targets /\ Latest /\ Trimmed

(* Every set of versions is a history.                                     *)
LEMMA Histories ==
  ASSUME TypeOK, StampInv, NEW s \in Sites
  PROVE  IsHistory(vers[s])
BY DEF TypeOK, DiskOK, StampInv, UniqueStamps, Stamps, StampsOf, IsHistory

(* The same of the next state.                                             *)
LEMMA HistoriesAfter ==
  ASSUME TypeOK', StampInv', NEW s \in Sites
  PROVE  IsHistory(vers'[s])
BY DEF TypeOK, DiskOK, StampInv, UniqueStamps, Stamps, StampsOf, IsHistory

(* Only archiving, pruning and rolling back to the newest version touch a  *)
(* history, and only that of their own site.                               *)
LEMMA OwnHistoryOnly ==
  ASSUME NEW p \in Procs, TypeOK,
         \/ p \in Workers /\ WorkerStep(p)
         \/ p = Janitor /\ (Wipe(Janitor) \/ DeleteSite)
         \/ Tear(p)
  PROVE  /\ \A t \in Sites : t # job[p].site => vers'[t] = vers[t]
         /\ (job[p].pc \notin {"archive", "drop"}
             /\ ~(job[p].op = "rollback" /\ job[p].pc = "movein"))
              => vers' = vers
<1>1. vers \in [Sites -> SUBSET Version]
  BY DEF TypeOK, DiskOK
<1>2. CASE Archive(p) \/ Drop(p) \/ RollbackIn(p)
  <2>1. CASE Archive(p)
    BY <1>1, <2>1 DEF Archive, At
  <2>2. CASE Drop(p)
    <3>1. CASE vers' = vers
      BY <2>2, <3>1 DEF Drop, At
    <3>2. CASE vers' # vers
      <4>1. PICK m : vers' = [vers EXCEPT ![job[p].site] =
                                {v \in @ : v.stamp # m}]
        BY <2>2, <3>2 DEF Drop
      <4>2. \A t \in Sites : t # job[p].site => vers'[t] = vers[t]
        BY ONLY <1>1, <4>1
      <4> QED BY <2>2, <4>2 DEF Drop, At
    <3> QED BY <3>1, <3>2
  <2>3. CASE RollbackIn(p)
    <3>1. CASE vers' = vers
      BY <3>1
    <3>2. CASE vers' # vers
      <4>1. PICK v : vers' = [vers EXCEPT ![job[p].site] = @ \ {v}]
        BY <2>3, <3>2 DEF RollbackIn
      <4>2. \A t \in Sites : t # job[p].site => vers'[t] = vers[t]
        BY ONLY <1>1, <4>1
      <4> QED BY <2>3, <4>2 DEF RollbackIn, At
    <3> QED BY <3>1, <3>2
  <2> QED BY <1>2, <2>1, <2>2, <2>3
<1>3. CASE /\ p \in Workers /\ WorkerStep(p)
           /\ ~Archive(p) /\ ~Drop(p) /\ ~RollbackIn(p)
  <2>1. vers' = vers
    BY <1>3, Untouched
  <2> QED BY ONLY <2>1
<1>4. CASE p = Janitor /\ (Wipe(Janitor) \/ DeleteSite)
  BY <1>4 DEF Wipe, DeleteSite, disk
<1>5. CASE Tear(p)
  BY <1>1, <1>5 DEF Tear, At
<1> QED BY <1>2, <1>3, <1>4, <1>5

(* Rested is kept by every step.                                           *)
LEMMA RestedStep ==
  ASSUME TypeOK, OnRoute, Rested, [Next]_vars
  PROVE  Rested'
<1> SUFFICES ASSUME NEW p \in Procs, At(p, "idle")'
             PROVE  job'[p] = Idle
  BY DEF Rested
<1>1. job \in [Procs -> Job] /\ Workers \subseteq Procs /\ job'[p].pc = "idle"
  BY DEF TypeOK, JobsOK, Procs, At
<1>2. CASE job'[p] = job[p]
  BY <1>1, <1>2 DEF Rested, At
<1>3. ASSUME NEW w \in Workers, Begin(w)
      PROVE  job'[p] = Idle
  BY <1>1, <1>2, <1>3, BeginJob
<1>4. ASSUME NEW w \in Workers, WorkerStep(w)
      PROVE  job'[p] = Idle
  BY <1>1, <1>2, <1>4, ControlFlow DEF Continues, After, Job, PCs
<1>5. CASE JanitorStep \/ \E q \in Procs : Fail(q)
  BY <1>1, <1>2, <1>5, JanitorJobs
     DEF Overlooks, Continues, After, Lenient
<1>6. CASE (\E s \in Sites : Expire(s)) \/ (\E q \in Procs : Tear(q))
           \/ UNCHANGED vars
  BY <1>2, <1>6 DEF Expire, Tear, vars
<1>7. CASE Restart
  BY <1>7 DEF Restart
<1> QED BY <1>3, <1>4, <1>5, <1>6, <1>7 DEF Next

(* Targets is kept by every step.                                          *)
LEMMA TargetsStep ==
  ASSUME Serial = TRUE, Faults = FALSE, TypeOK, OneAtATime, OnRoute, Rested,
         Targets, [Next]_vars
  PROVE  Targets'
<1> USE DEF At
<1> SUFFICES ASSUME NEW p \in Procs, job'[p].op = "rollbackTo",
                    job'[p].pc \in {"stat", "stamp", "archive"}
             PROVE  \E v \in vers'[job'[p].site] : v.dir = job'[p].stage
  BY DEF Targets, Target
<1>1. job \in [Procs -> Job] /\ Workers \subseteq Procs /\ Janitor \in Procs
  BY DEF TypeOK, JobsOK, Procs
<1>2. CASE job'[p] = job[p] /\ vers' = vers
  BY <1>2 DEF Targets, Target
<1>3. ~AllIdle => \E q \in Procs : Busy(q)
  BY DEF AllIdle, Busy
<1>4. CASE AllIdle
  <2>1. ASSUME NEW w \in Workers, Begin(w)
        PROVE  \E v \in vers'[job'[p].site] : v.dir = job'[p].stage
    <3>1. CASE p # w
      BY <1>1, <1>2, <2>1, <3>1, BeginJob DEF disk
    <3>2. CASE p = w
      <4>1. PICK s \in Sites :
              \/ \E c \in Contents : BeginPublish(w, s, c)
              \/ \E v \in vers[s] : BeginRollbackTo(w, s, v)
              \/ \E v \in vers[s] : BeginRollback(w, s, v)
              \/ BeginUnpublish(w, s) \/ BeginRestore(w, s)
              \/ BeginPurge(w, s) \/ BeginFavicons(w, s)
        BY <2>1 DEF Begin
      <4>2. PICK v \in vers[s] : BeginRollbackTo(w, s, v)
        <5>1. job'[w].op = "rollbackTo"
          BY <3>2
        <5>2. \A c \in Contents : ~BeginPublish(w, s, c)
          BY <1>1, <5>1 DEF BeginPublish, Idle
        <5>3. \A v \in vers[s] : ~BeginRollback(w, s, v)
          BY <1>1, <5>1 DEF BeginRollback, Idle
        <5>4. ~BeginUnpublish(w, s) /\ ~BeginRestore(w, s)
          BY <1>1, <5>1 DEF BeginUnpublish, BeginRestore, Idle
        <5>5. ~BeginPurge(w, s) /\ ~BeginFavicons(w, s)
          BY <1>1, <5>1 DEF BeginPurge, BeginFavicons, Idle
        <5> QED BY <4>1, <5>2, <5>3, <5>4, <5>5
      <4>3. vers' = vers /\ job'[w].site = s /\ job'[w].stage = v.dir
        BY <1>1, <4>2 DEF BeginRollbackTo, disk, Idle
      <4> QED BY <3>2, <4>3
    <3> QED BY <3>1, <3>2
  <2>2. CASE BeginReap
    <3>1. job'[p] = job[p] \/ job'[p].op \in {"none", "reap"}
      BY <1>1, <2>2, NextListed DEF BeginReap, TypeOK, Idle
    <3> QED BY <1>2, <2>2, <3>1 DEF BeginReap, disk
  <2>3. CASE Restart
    BY <2>3 DEF Restart, Idle
  <2>4. CASE (\E s \in Sites : Expire(s)) \/ UNCHANGED vars
    BY <1>2, <2>4 DEF Expire, disk, vars
  <2> QED BY <1>4, <2>1, <2>2, <2>3, <2>4, RestingStep
<1>5. ASSUME NEW q \in Procs, Busy(q)
      PROVE  \E v \in vers'[job'[p].site] : v.dir = job'[p].stage
  <2>1. p # q => job[p] = Idle
    BY <1>5, OthersIdle DEF Rested
  <2>2. job'[p].op # Idle.op
    BY DEF Idle
  <2>3. CASE q \in Workers /\ WorkerStep(q)
    <3>1. p = q
      BY <2>1, <2>2, <2>3, ControlFlow
    <3>2. Continues(p)
      BY <2>2, <2>3, <3>1, ControlFlow DEF Continues
    <3>3. /\ job[p].op = "rollbackTo" /\ job'[p].site = job[p].site
          /\ job[p].pc \in {"stat", "rbstat", "stamp"}
          /\ job'[p].stage = job[p].stage
      BY <1>1, <3>2 DEF Continues, After, Swapping, Job, PCs
    <3>4. job[p].pc # "rbstat"
      BY <3>3 DEF OnRoute, Route, Displacing
    <3>5. vers' = vers
      BY <2>3, <3>1, <3>3, OwnHistoryOnly
    <3> QED BY <3>3, <3>4, <3>5 DEF Targets, Target
  <2>4. CASE q = Janitor /\ (Wipe(Janitor) \/ DeleteSite)
    <3>1. job'[p] = job[p] \/ job'[p] = Idle \/ job'[p].op = "reap"
      BY <2>4, JanitorJobs DEF JanitorStep
    <3>2. job'[p] = job[p] /\ vers' = vers
      BY <2>2, <2>4, <3>1 DEF Wipe, DeleteSite, disk
    <3> QED BY <1>2, <3>2
  <2>5. CASE Tear(q)
    <3>1. job' = job
      BY <2>5 DEF Tear
    <3>2. p = q
      BY <2>1, <2>2, <3>1
    <3>3. job[p].op = "rollbackTo" /\ job[p].pc \in {"stat", "stamp", "archive"}
      BY <3>1
    <3>4. vers' = vers
      BY <2>5, <3>2, <3>3 DEF Tear
    <3> QED BY <1>2, <3>1, <3>4
  <2>6. CASE (\E s \in Sites : Expire(s)) \/ UNCHANGED vars
    BY <1>2, <2>6 DEF Expire, disk, vars
  <2> QED BY <1>5, <2>3, <2>4, <2>5, <2>6, SoloStep
<1> QED BY <1>3, <1>4, <1>5

(* Latest is kept by every step.                                           *)
LEMMA LatestStep ==
  ASSUME Serial = TRUE, Faults = FALSE, TypeOK, StampInv, OneAtATime, OnRoute,
         Rested, Latest, [Next]_vars
  PROVE  Latest'
<1> USE DEF At
<1> SUFFICES ASSUME NEW p \in Procs, job'[p].pc = "archive"
             PROVE  \A m \in Stamps(job[p].site)' : m < job'[p].name
  BY DEF Latest
<1>1. job \in [Procs -> Job] /\ Workers \subseteq Procs /\ Janitor \in Procs
  BY DEF TypeOK, JobsOK, Procs
<1>2. CASE job'[p] = job[p] /\ vers' = vers
  BY <1>2 DEF Latest, Stamps
<1>3. ~AllIdle => \E q \in Procs : Busy(q)
  BY DEF AllIdle, Busy
<1>4. CASE AllIdle
  <2>1. ASSUME NEW w \in Workers, Begin(w) PROVE FALSE
    BY <1>4, <2>1, BeginJob DEF AllIdle
  <2>2. ~BeginReap
    BY <1>1, <1>4, NextListed DEF BeginReap, TypeOK, Idle, AllIdle
  <2>3. ~Restart
    BY DEF Restart, Idle
  <2>4. CASE (\E s \in Sites : Expire(s)) \/ UNCHANGED vars
    BY <1>2, <2>4 DEF Expire, disk, vars
  <2> QED BY <1>4, <2>1, <2>2, <2>3, <2>4, RestingStep
<1>5. ASSUME NEW q \in Procs, Busy(q)
      PROVE  \A m \in Stamps(job[p].site)' : m < job'[p].name
  <2>1. p # q => job[p] = Idle
    BY <1>5, OthersIdle DEF Rested
  <2>2. job'[p].pc # Idle.pc
    BY DEF Idle
  <2>3. CASE q \in Workers /\ WorkerStep(q)
    <3>1. p = q
      BY <2>1, <2>2, <2>3, ControlFlow
    <3>2. Continues(p)
      BY <2>2, <2>3, <3>1, ControlFlow
    <3>3. job[p].pc = "stamp"
      BY <1>1, <3>2 DEF Continues, After, Job, PCs
    <3>4. TakeStamp(p)
      BY <2>3, <3>1, <3>3, ActionAt
    <3>5. vers' = vers /\ job'[p].site = job[p].site /\ job'[p].name = stamp
      BY <1>1, <3>4 DEF TakeStamp, Job
    <3>6. job[p].site \in Sites
      BY <3>3 DEF TypeOK, JobsOK
    <3> QED BY <3>5, <3>6 DEF Stamps, StampInv, PastStamps
  <2>4. CASE q = Janitor /\ (Wipe(Janitor) \/ DeleteSite)
    <3>1. vers' = vers
      BY <2>4 DEF Wipe, DeleteSite, disk
    <3>2. job'[p] = job[p]
      BY <2>2, <2>4, JanitorJobs DEF JanitorStep
    <3> QED BY <1>2, <3>1, <3>2
  <2>5. CASE Tear(q)
    <3>1. job' = job
      BY <2>5 DEF Tear
    <3>2. p = q
      BY <2>1, <2>2, <3>1
    <3>3. vers' = vers
      BY <2>5, <3>1, <3>2 DEF Tear
    <3> QED BY <1>2, <3>1, <3>3
  <2>6. CASE (\E s \in Sites : Expire(s)) \/ UNCHANGED vars
    BY <1>2, <2>6 DEF Expire, disk, vars
  <2> QED BY <1>5, <2>3, <2>4, <2>5, <2>6, SoloStep
<1> QED BY <1>3, <1>4, <1>5

(* A removal under way takes files and no content, and touches the history *)
(* in nothing but the state of a directory.                                *)
LEMMA TearShows ==
  ASSUME TypeOK, StampInv, NEW p \in Procs, Tear(p),
         NEW s \in Sites, s = job[p].site
  PROVE  /\ UNCHANGED <<reg, job>>
         /\ ContentOf(live'[s]) = ContentOf(live[s])
         /\ ContentOf(quar'[s]) = ContentOf(quar[s])
         /\ SameVersions(vers[s], vers'[s])
         /\ At(p, "drop") \/ vers' = vers
<1>1. /\ live \in [Sites -> AnyDir] /\ quar \in [Sites -> AnyDir]
      /\ vers \in [Sites -> SUBSET Version]
  BY DEF TypeOK, DiskOK
<1>2. ASSUME NEW d \in AnyDir, d # NoDir
      PROVE  ContentOf(TornDir(d)) = ContentOf(d)
  <2>1. d \in Dir /\ TornDir(d) \in Dir /\ TornDir(d).c = d.c
    BY <1>2 DEF AnyDir, Dir, TornDir
  <2> QED BY <1>2, <2>1, NoDirAssumption DEF ContentOf
<1>3. UNCHANGED <<reg, job>>
  BY DEF Tear, registry
<1>4. SameVersions(vers[s], vers[s])
  BY DEF SameVersions, StampInv, UniqueStamps
<1>5. CASE /\ At(p, "clear") /\ live[s] # NoDir
           /\ live' = [live EXCEPT ![s] = TornDir(@)]
           /\ UNCHANGED <<quar, vers>>
  <2>1. live'[s] = TornDir(live[s]) /\ live[s] \in AnyDir
    BY <1>1, <1>5
  <2> QED BY <1>2, <1>3, <1>4, <1>5, <2>1
<1>6. CASE /\ quar[s] # NoDir
           /\ quar' = [quar EXCEPT ![s] = TornDir(@)]
           /\ UNCHANGED <<live, vers>>
  <2>1. quar'[s] = TornDir(quar[s]) /\ quar[s] \in AnyDir
    BY <1>1, <1>6
  <2> QED BY <1>2, <1>3, <1>4, <1>6, <2>1
<1>7. CASE /\ At(p, "drop") /\ UNCHANGED <<live, quar>>
           /\ \E m \in Oldest(job[p].doomed) :
                vers' = [vers EXCEPT ![s] =
                  {IF v.stamp = m THEN [v EXCEPT !.dir = TornDir(@)] ELSE v :
                     v \in @}]
  <2>1. PICK m \in Oldest(job[p].doomed) :
                vers' = [vers EXCEPT ![s] =
                  {IF v.stamp = m THEN [v EXCEPT !.dir = TornDir(@)] ELSE v :
                     v \in @}]
    BY <1>7
  <2> DEFINE f(v) == IF v.stamp = m THEN [v EXCEPT !.dir = TornDir(@)] ELSE v
  <2>2. vers'[s] = {f(v) : v \in vers[s]}
    BY <1>1, <2>1
  <2>3. \A v \in vers[s] : f(v).stamp = v.stamp /\ f(v).dir.c = v.dir.c
    BY <1>1 DEF Version, Dir, TornDir
  <2> HIDE DEF f
  <2>4. StampsOf(vers'[s]) = StampsOf(vers[s])
    BY <2>2, <2>3 DEF StampsOf
  <2>5. \A v \in vers[s], w \in vers'[s] : v.stamp = w.stamp => v.dir.c = w.dir.c
    BY <2>2, <2>3 DEF StampInv, UniqueStamps
  <2>6. SameVersions(vers[s], vers'[s])
    BY <2>4, <2>5 DEF SameVersions
  <2> QED BY <1>3, <1>7, <2>6
<1> QED BY <1>5, <1>6, <1>7 DEF Tear

(* Rolling back to the newest version and archiving keep the history       *)
(* trimmed, and so does pruning.                                           *)
LEMMA TrimmedStep ==
  ASSUME Serial = TRUE, Faults = FALSE, TypeOK, StampInv, TypeOK', StampInv',
         OneAtATime, OnRoute, Rested, Trimmed, [Next]_vars
  PROVE  Trimmed'
<1>1. /\ job \in [Procs -> Job] /\ Workers \subseteq Procs
      /\ Janitor \in Procs /\ vers \in [Sites -> SUBSET Version]
  BY DEF TypeOK, JobsOK, DiskOK, Procs
<1>2. ~AllIdle => \E q \in Procs : Busy(q)
  BY DEF AllIdle, Busy
<1>3. CASE UNCHANGED <<vers, job>>
  BY <1>3 DEF Trimmed, Doomed, At
<1>4. CASE AllIdle
  <2>1. \A s \in Sites : Superfluous(vers[s]) = {}
    BY <1>4 DEF Trimmed, AllIdle, At
  <2>2. ASSUME vers' = vers, \A p \in Procs : job'[p].pc # "drop"
        PROVE  Trimmed'
    BY <2>1, <2>2 DEF Trimmed, Doomed, At
  <2>3. ASSUME NEW w \in Workers, Begin(w)
        PROVE  vers' = vers /\ \A p \in Procs : job'[p].pc # "drop"
    BY <1>4, <2>3, BeginJob DEF disk, AllIdle, At
  <2>4. CASE BeginReap
    <3>1. \A p \in Procs : job'[p].pc # "drop"
      BY <1>1, <1>4, <2>4, NextListed DEF BeginReap, TypeOK, Idle, AllIdle, At
    <3> QED BY <2>2, <2>4, <3>1 DEF BeginReap, disk
  <2>5. CASE Restart
    BY <2>2, <2>5 DEF Restart, disk, Idle
  <2>6. CASE (\E s \in Sites : Expire(s)) \/ UNCHANGED vars
    BY <1>3, <2>6 DEF Expire, disk, vars
  <2> QED BY <1>4, <2>2, <2>3, <2>4, <2>5, <2>6, RestingStep
<1>5. ASSUME NEW p \in Procs, Busy(p)
      PROVE  Trimmed'
  <2>1. \A q \in Procs : q # p => job[q] = Idle
    BY <1>5, OthersIdle DEF Rested
  <2>2. PICK s \in Sites : s = job[p].site
    BY <1>5, BusyJob DEF Busy, TypeOK
  <2> DEFINE V == vers[s]
             W == vers'[s]
  <2>3. IsHistory(V) /\ IsHistory(W)
    BY <2>2, Histories DEF TypeOK, DiskOK, StampInv, UniqueStamps, Stamps,
       StampsOf, IsHistory
  <2>4. \A t \in Sites : t # s => Superfluous(vers[t]) = {}
    BY <2>1, <2>2 DEF Trimmed, Idle
  <2>6. job[p].pc \in {"prune", "drop"} \/ Superfluous(V) = {}
    BY <2>1, <2>2 DEF Trimmed, Idle
  <2>7. job[p].pc = "drop" => job[p].doomed = Superfluous(V)
    BY <2>2 DEF Trimmed, Doomed, At
  <2> HIDE DEF V, W
  <2>8. ASSUME \/ p \in Workers /\ WorkerStep(p)
               \/ p = Janitor /\ (Wipe(Janitor) \/ DeleteSite)
               \/ Tear(p),
               \A q \in Procs : q # p => job'[q] = job[q],
               job'[p].pc # "drop",
               \/ Superfluous(W) = {}
               \/ job'[p].site = s /\ job'[p].pc = "prune"
        PROVE  Trimmed'
    <3>1. \A t \in Sites : t # s => vers'[t] = vers[t]
      BY <2>2, <2>8, OwnHistoryOnly
    <3>2. \A q \in Procs : job'[q].pc # "drop"
      BY <2>1, <2>8 DEF Idle
    <3> QED BY <2>4, <2>8, <3>1, <3>2 DEF Trimmed, Doomed, At, W
  <2>9. ASSUME \/ p \in Workers /\ WorkerStep(p)
               \/ p = Janitor /\ (Wipe(Janitor) \/ DeleteSite)
               \/ Tear(p),
               \A q \in Procs : q # p => job'[q] = job[q],
               job'[p].pc = "drop", job'[p].site = s,
               job'[p].doomed = Superfluous(W)
        PROVE  Trimmed'
    <3>1. \A t \in Sites : t # s => vers'[t] = vers[t]
      BY <2>2, <2>9, OwnHistoryOnly
    <3>2. \A q \in Procs : q # p => job'[q].pc # "drop"
      BY <2>1, <2>9 DEF Idle
    <3> QED BY <2>4, <2>9, <3>1, <3>2 DEF Trimmed, Doomed, At, W
  <2>10. CASE p \in Workers /\ WorkerStep(p)
    <3>1. \A q \in Procs : q # p => job'[q] = job[q]
      BY <2>10, ControlFlow
    <3>2. job'[p] = Idle \/ Continues(p)
      BY <2>10, ControlFlow
    <3>3. CASE job[p].pc = "prune"
      <4>1. Prune(p)
        BY <2>10, <3>3, ActionAt DEF At
      <4>2. /\ job'[p].pc = "drop" /\ job'[p].site = s
            /\ job'[p].doomed = Superfluous(V) /\ W = V
        BY <1>1, <2>2, <4>1 DEF Prune, Job, disk, V, W
      <4> QED BY <2>9, <2>10, <3>1, <4>2
    <3>4. CASE job[p].pc = "drop"
      <4>1. Drop(p)
        BY <2>10, <3>4, ActionAt DEF At
      <4>2. CASE job[p].doomed = {} /\ Goto(p, "movein") /\ UNCHANGED vers
        <5>1. job'[p].pc = "movein" /\ Superfluous(W) = {}
          BY <1>1, <2>7, <3>4, <4>2 DEF Goto, Job, V, W
        <5> QED BY <2>8, <2>10, <3>1, <5>1
      <4>3. ASSUME NEW m \in Oldest(job[p].doomed),
                   vers' = [vers EXCEPT ![s] = {v \in @ : v.stamp # m}],
                   job' = [job EXCEPT ![p].doomed = @ \ {m}]
            PROVE  Trimmed'
        <5>1. /\ job'[p].pc = "drop" /\ job'[p].site = s
              /\ job'[p].doomed = job[p].doomed \ {m}
              /\ W = {v \in V : v.stamp # m}
          BY <1>1, <2>2, <3>4, <4>3 DEF Job, V, W
        <5>2. m \in Superfluous(V)
          BY <2>7, <3>4 DEF Oldest
        <5>3. Superfluous(W) = Superfluous(V) \ {m}
          BY <2>3, <5>1, <5>2, DropLeavesKept
        <5> QED BY <2>7, <2>9, <2>10, <3>1, <3>4, <5>1, <5>3
      <4> QED BY <2>2, <4>1, <4>2, <4>3 DEF Drop
    <3>5. CASE job[p].pc = "archive"
      <4>1. Archive(p)
        BY <2>10, <3>5, ActionAt DEF At
      <4>2. \/ job'[p] = Idle /\ vers' = vers
            \/ job'[p].pc = "prune"
        BY <1>1, <4>1 DEF Archive, Done, Job
      <4>3. \/ job'[p].pc = "idle" /\ W = V
            \/ job'[p].site = s /\ job'[p].pc = "prune"
        BY <2>2, <3>2, <4>2 DEF Continues, Idle, V, W
      <4> QED BY <2>6, <2>8, <2>10, <3>1, <3>5, <4>3
    <3>6. CASE job[p].pc \notin {"prune", "drop", "archive"}
      <4>1. job'[p].pc # "drop"
        BY <3>2, <3>6 DEF Continues, After, Idle
      <4>2. W \subseteq V
        <5>1. CASE job[p].pc = "movein"
          <6>1. SwapIn(p) \/ RollbackIn(p) \/ RestoreIn(p)
            BY <2>10, <5>1, ActionAt DEF At
          <6> QED BY <1>1, <2>2, <6>1 DEF SwapIn, RollbackIn, RestoreIn, V, W
        <5>2. CASE job[p].pc # "movein"
          BY <2>10, <3>6, <5>2, OwnHistoryOnly DEF V, W
        <5> QED BY <5>1, <5>2
      <4>3. Superfluous(W) = {}
        BY <2>3, <2>6, <3>6, <4>2, NoneSuperfluous
      <4> QED BY <2>8, <2>10, <3>1, <4>1, <4>3
    <3> QED BY <3>3, <3>4, <3>5, <3>6
  <2>11. CASE p = Janitor /\ (Wipe(Janitor) \/ DeleteSite)
    <3>1. vers' = vers /\ job[p].pc \in {"wipe", "delete"}
      BY <2>11 DEF Wipe, DeleteSite, disk, At
    <3>2. job'[p] = job[p] \/ job'[p] = Idle \/ job'[p].pc \in {"wipe", "delete"}
      BY <2>11, JanitorJobs DEF JanitorStep
    <3>3. \A q \in Procs : q # p => job'[q] = job[q]
      BY <1>1, <2>11, NextListed DEF Wipe, DeleteSite, Goto, Done, TypeOK
    <3>4. job'[p].pc # "drop"
      BY <3>1, <3>2 DEF Idle
    <3>5. Superfluous(W) = {}
      BY <2>6, <3>1 DEF V, W
    <3> QED BY <2>8, <2>11, <3>3, <3>4, <3>5
  <2>12. CASE Tear(p)
    <3>1. /\ job' = job /\ SameVersions(V, W)
          /\ At(p, "drop") \/ vers' = vers
      BY <2>2, <2>12, TearShows DEF V, W
    <3>2. Superfluous(V) = Superfluous(W)
      BY <2>3, <3>1, SameHistory
    <3>3. CASE job[p].pc = "drop"
      BY <2>2, <2>7, <2>9, <2>12, <3>1, <3>2, <3>3
    <3>4. CASE job[p].pc # "drop"
      BY <1>3, <3>1, <3>4 DEF At
    <3> QED BY <3>3, <3>4
  <2>13. CASE (\E t \in Sites : Expire(t)) \/ UNCHANGED vars
    BY <1>3, <2>13 DEF Expire, disk, vars
  <2> QED BY <1>5, <2>10, <2>11, <2>12, <2>13, SoloStep
<1> QED BY <1>2, <1>4, <1>5

(* The invariant of the refinement.                                        *)
LEMMA LifeInvariant ==
  ASSUME SoloDeployment
  PROVE  /\ Init => LifeInv
         /\ LifeInv /\ [Next]_vars => LifeInv'
<1>1. ASSUME Init
      PROVE  LifeInv
  <2>1. Rested /\ Targets /\ Latest /\ JanitorList
    BY <1>1, JanitorAssumption
       DEF Init, Rested, Targets, Target, Latest, JanitorList, Busy, At, Idle,
       Procs
  <2>2. \A s \in Sites : Superfluous(vers[s]) = {}
    BY <1>1 DEF Init, Superfluous
  <2>3. Trimmed
    BY <1>1, <2>2 DEF Init, Trimmed, Doomed, At, Idle
  <2> QED BY <1>1, <2>1, <2>3, SerialInvariant DEF LifeInv
<1>2. ASSUME LifeInv, [Next]_vars
      PROVE  LifeInv'
  <2>1. SerialInv /\ SerialInv'
    BY <1>2, SerialInvariant DEF LifeInv
  <2>2. JanitorList'
    BY <1>2, JanitorListStep DEF LifeInv, SerialInv, SoloDeployment
  <2>3. Rested' /\ Targets' /\ Latest'
    BY <1>2, RestedStep, TargetsStep, LatestStep
       DEF LifeInv, SerialInv, SoloDeployment
  <2>4. Trimmed'
    BY <1>2, <2>1, TrimmedStep DEF LifeInv, SerialInv, SoloDeployment
  <2> QED BY <2>1, <2>2, <2>3, <2>4 DEF LifeInv
<1> QED BY <1>1, <1>2

-----------------------------------------------------------------------------
(* The abstract state of a site is a function of its row, its directories  *)
(* and the job of the process that works on it.                            *)

Doing(j, ops, pcs) == j.op \in ops /\ j.pc \in pcs

SeenListed(j, r) ==
  IF Doing(j, {"publish"}, Catching) THEN "live"
  ELSE IF Doing(j, {"rollback", "rollbackTo"}, Catching) /\ r = "deleted"
  THEN "live"
  ELSE IF Doing(j, {"reap"}, {"delete"}) THEN "none"
  ELSE r

Source(j, V) == CHOOSE v \in V : v.stamp = j.src

SeenOnline(j, l, q, V) ==
  IF Doing(j, {"publish", "rollbackTo"}, Displaced) THEN ContentOf(j.stage)
  ELSE IF Doing(j, {"rollback"}, Displaced) THEN Source(j, V).dir.c
  ELSE IF Doing(j, {"unpublish"}, PCs) THEN NoIcon
  ELSE IF Doing(j, {"restore"}, PCs) THEN q
  ELSE l

SeenTrash(j, r, l, q) ==
  IF SeenListed(j, r) # "deleted" THEN NoIcon
  ELSE IF Doing(j, {"unpublish"}, PCs) THEN l ELSE q

SeenHistory(j, V) ==
  IF Doing(j, {"rollback"}, Displaced)
  THEN Ordered(Kept(V) \ {Source(j, V)}) ELSE Ordered(Kept(V))

Seen(j, r, l, q, V) ==
  [listed |-> SeenListed(j, r), online |-> SeenOnline(j, l, q, V),
   trash |-> SeenTrash(j, r, l, q), history |-> SeenHistory(j, V)]

View(j, s) == Seen(j, reg[s], ContentOf(live[s]), ContentOf(quar[s]), vers[s])

(* The jobs that do not show.                                              *)
Quiet(j) ==
  /\ j.op \in {"unpublish", "restore"} => j.pc \notin PCs
  /\ j.op \in {"publish", "rollback", "rollbackTo"} => j.pc \notin Catching
  /\ j.op = "reap" => j.pc # "delete"

Plain(r, l, q, V) ==
  [listed |-> r, online |-> l, trash |-> IF r = "deleted" THEN q ELSE NoIcon,
   history |-> Ordered(Kept(V))]

(* Under a quiet job a site is what registry and disk say.                 *)
LEMMA QuietShows ==
  ASSUME NEW j, Quiet(j), NEW r, NEW l, NEW q, NEW V
  PROVE  Seen(j, r, l, q, V) = Plain(r, l, q, V)
BY DEF Seen, Plain, Quiet, SeenListed, SeenOnline, SeenTrash, SeenHistory,
   Doing, Catching, Displaced

(* An idle process is quiet.                                               *)
LEMMA IdleQuiet == Quiet(Idle)
BY DEF Quiet, Idle

(* The process, the only one with a job.                                   *)
Alone(p) == \A q \in Procs : q # p => job[q] = Idle

Reading ==
  \A p \in Procs :
    Alone(p) => /\ Abstract = [s \in Sites |-> Abstract[s]]
                /\ \A s \in Sites :
                     Abstract[s] = IF job[p].site = s THEN View(job[p], s)
                                                      ELSE View(Idle, s)

(* With one process at work, the abstract state is read off its job.       *)
LEMMA ReadingHolds == Reading
<1> SUFFICES ASSUME NEW p \in Procs, Alone(p), NEW s \in Sites
             PROVE  Abstract[s] = IF job[p].site = s THEN View(job[p], s)
                                                     ELSE View(Idle, s)
  BY DEF Reading, Abstract
<1>1. \A q \in Procs : q # p => job[q].site # s /\ job[q] = Idle
  BY NoneAssumption DEF Alone, Idle
<1>2. Abstract[s] = [listed |-> ListedAs(s), online |-> Online(s),
                     trash |-> Trash(s), history |-> History(s)]
  BY DEF Abstract
<1>3. Retained(s) = Kept(vers[s])
  BY DEF Retained, Kept
<1>4. CASE job[p].site = s
  <2>1. \A ops, pcs : On(s, ops, pcs) <=> Doing(job[p], ops, pcs)
    BY <1>1, <1>4 DEF On, Doing
  <2>2. Runner(s) = p
    BY <1>1, <1>4 DEF Runner
  <2>3. Chosen(s) = Source(job[p], vers[s])
    BY <2>2 DEF Chosen, Source
  <2>4. ListedAs(s) = SeenListed(job[p], reg[s])
    BY <2>1 DEF ListedAs, SeenListed
  <2>5. Online(s) = SeenOnline(job[p], ContentOf(live[s]), ContentOf(quar[s]),
                               vers[s])
    BY <2>1, <2>2, <2>3 DEF Online, SeenOnline
  <2>6. Trash(s) = SeenTrash(job[p], reg[s], ContentOf(live[s]),
                             ContentOf(quar[s]))
    BY <2>1, <2>4 DEF Trash, SeenTrash
  <2>7. History(s) = SeenHistory(job[p], vers[s])
    BY <1>3, <2>1, <2>3 DEF History, SeenHistory
  <2> QED BY <1>2, <1>4, <2>4, <2>5, <2>6, <2>7 DEF View, Seen
<1>5. CASE job[p].site # s
  <2>1. \A ops, pcs : ~On(s, ops, pcs)
    BY <1>1, <1>5 DEF On
  <2>2. /\ ListedAs(s) = reg[s] /\ Online(s) = ContentOf(live[s])
        /\ Trash(s) = IF reg[s] = "deleted" THEN ContentOf(quar[s]) ELSE NoIcon
        /\ History(s) = Ordered(Kept(vers[s]))
    BY <1>3, <2>1 DEF ListedAs, Online, Trash, History
  <2>3. View(Idle, s) = Plain(reg[s], ContentOf(live[s]), ContentOf(quar[s]),
                              vers[s])
    BY QuietShows, IdleQuiet DEF View
  <2> QED BY <1>2, <1>5, <2>2, <2>3 DEF Plain
<1> QED BY <1>4, <1>5

(* The same of the next state.                                             *)
LEMMA ReadingAfter == TRUE => Reading'
BY ReadingHolds, PTL

(* A step on one site changes what is read off that site only.             *)
LEMMA OneSite ==
  ASSUME NEW p \in Procs, Alone(p), Alone(p)', NEW s \in Sites,
         job[p].site = s \/ Quiet(job[p]),
         job'[p].site = s \/ Quiet(job'[p]),
         \A t \in Sites : t # s =>
           /\ reg'[t] = reg[t] /\ live'[t] = live[t]
           /\ quar'[t] = quar[t] /\ vers'[t] = vers[t]
  PROVE  /\ Abstract[s] = View(job[p], s)
         /\ Abstract' = [Abstract EXCEPT ![s] = View(job[p], s)']
<1>1. \A j : \A t \in Sites : Quiet(j) => View(j, t) = View(Idle, t)
  BY QuietShows, IdleQuiet DEF View
<1>2. \A j : \A t \in Sites : Quiet(j) =>
        Seen(j, reg'[t], ContentOf(live'[t]), ContentOf(quar'[t]), vers'[t])
          = Seen(Idle, reg'[t], ContentOf(live'[t]), ContentOf(quar'[t]),
                 vers'[t])
  BY QuietShows, IdleQuiet
<1>3. /\ Abstract = [t \in Sites |-> Abstract[t]]
      /\ \A t \in Sites : Abstract[t] = IF job[p].site = t
                                        THEN View(job[p], t) ELSE View(Idle, t)
  BY ReadingHolds DEF Reading
<1>4. /\ Abstract' = [t \in Sites |-> Abstract'[t]]
      /\ \A t \in Sites :
           Abstract'[t] = IF job'[p].site = t
             THEN Seen(job'[p], reg'[t], ContentOf(live'[t]),
                       ContentOf(quar'[t]), vers'[t])
             ELSE Seen(Idle, reg'[t], ContentOf(live'[t]),
                       ContentOf(quar'[t]), vers'[t])
  BY ReadingAfter DEF Reading, View
<1>5. Abstract[s] = View(job[p], s)
  BY <1>1, <1>3
<1>6. Abstract'[s] = View(job[p], s)'
  BY <1>2, <1>4 DEF View
<1>7. ASSUME NEW t \in Sites, t # s PROVE Abstract'[t] = Abstract[t]
  <2>1. Abstract[t] = View(Idle, t)
    BY <1>1, <1>3, <1>7
  <2>2. Abstract'[t] = Seen(Idle, reg'[t], ContentOf(live'[t]),
                            ContentOf(quar'[t]), vers'[t])
    BY <1>2, <1>4, <1>7
  <2> QED BY <1>7, <2>1, <2>2 DEF View
<1> QED BY <1>3, <1>4, <1>5, <1>6, <1>7

(* One step of the one process at work, and the site it is on.             *)
Stepping(p, s) ==
  /\ job[p].site = s \/ Quiet(job[p])
  /\ Abstract[s] = View(job[p], s)
  /\ Abstract' = [Abstract EXCEPT ![s] = View(job[p], s)']

(* A step that leaves the view of its site as it was is not seen.          *)
LEMMA NothingShows ==
  ASSUME NEW p \in Procs, NEW s \in Sites, Stepping(p, s),
         View(job[p], s)' = View(job[p], s)
  PROVE  UNCHANGED Abstract
<1>1. Abstract = [t \in Sites |-> Abstract[t]]
  BY DEF Abstract
<1> QED BY <1>1 DEF Stepping

(* What the process does is not seen as long as neither job shows, and     *)
(* contents and row stay.                                                  *)
LEMMA QuietStep ==
  ASSUME NEW p \in Procs, NEW s \in Sites, Stepping(p, s),
         Quiet(job[p]), Quiet(job'[p]), reg'[s] = reg[s],
         ContentOf(live'[s]) = ContentOf(live[s]), vers'[s] = vers[s],
         reg[s] = "deleted" => ContentOf(quar'[s]) = ContentOf(quar[s])
  PROVE  UNCHANGED Abstract
<1>1. View(job[p], s) = Plain(reg[s], ContentOf(live[s]), ContentOf(quar[s]),
                              vers[s])
  BY QuietShows DEF View
<1>2. View(job[p], s)' = Plain(reg'[s], ContentOf(live'[s]),
                               ContentOf(quar'[s]), vers'[s])
  BY QuietShows DEF View
<1>3. View(job[p], s)' = View(job[p], s)
  BY <1>1, <1>2 DEF Plain
<1> QED BY <1>3, NothingShows

-----------------------------------------------------------------------------
(* The jobs that show, and what they show.                                 *)

Relist(r) == IF r = "none" THEN "none" ELSE "live"

(* A site whose files Publish or RollbackTo is exchanging.                 *)
LEMMA SwapShows ==
  ASSUME NEW j, NEW r \in {"none", "live", "deleted"}, NEW l, NEW q, NEW V,
         j.op \in {"publish", "rollbackTo"}, j.pc \in Catching
  PROVE  Seen(j, r, l, q, V) =
           [listed |-> IF j.op = "publish" THEN "live" ELSE Relist(r),
            online |-> IF j.pc \in Displaced THEN ContentOf(j.stage) ELSE l,
            trash |-> NoIcon, history |-> Ordered(Kept(V))]
BY DEF Seen, Relist, SeenListed, SeenOnline, SeenTrash, SeenHistory, Doing,
   Catching, Displaced

(* A site whose files Rollback has moved aside, its source still kept.     *)
LEMMA RollbackShows ==
  ASSUME NEW j, NEW r \in {"none", "live", "deleted"}, NEW l, NEW q, NEW V,
         j.op = "rollback", j.pc \in Displaced
  PROVE  Seen(j, r, l, q, V) =
           [listed |-> Relist(r), online |-> Source(j, V).dir.c,
            trash |-> NoIcon, history |-> Ordered(Kept(V) \ {Source(j, V)})]
BY DEF Seen, Relist, SeenListed, SeenOnline, SeenTrash, SeenHistory, Doing,
   Catching, Displaced

(* A site which Rollback has moved its source to.                          *)
LEMMA RolledBackShows ==
  ASSUME NEW j, NEW r \in {"none", "live", "deleted"}, NEW l, NEW q, NEW V,
         j.op = "rollback", j.pc \in Catching, j.pc \notin Displaced
  PROVE  Seen(j, r, l, q, V) =
           [listed |-> Relist(r), online |-> l, trash |-> NoIcon,
            history |-> Ordered(Kept(V))]
BY DEF Seen, Relist, SeenListed, SeenOnline, SeenTrash, SeenHistory, Doing,
   Catching, Displaced

(* A site on its way to the quarantine or back.                            *)
LEMMA TrashShows ==
  ASSUME NEW j, NEW r, NEW l, NEW q, NEW V, j.pc \in PCs
  PROVE  /\ j.op = "unpublish" /\ r = "deleted" => Seen(j, r, l, q, V) =
              [listed |-> "deleted", online |-> NoIcon, trash |-> l,
               history |-> Ordered(Kept(V))]
         /\ j.op = "restore" /\ r = "live" => Seen(j, r, l, q, V) =
              [listed |-> "live", online |-> q, trash |-> NoIcon,
               history |-> Ordered(Kept(V))]
         /\ j.op = "reap" /\ j.pc = "delete" => Seen(j, r, l, q, V) =
              [listed |-> "none", online |-> l, trash |-> NoIcon,
               history |-> Ordered(Kept(V))]
BY DEF Seen, SeenListed, SeenOnline, SeenTrash, SeenHistory, Doing, Catching,
   Displaced

(* What is in a directory is one of the contents.                          *)
LEMMA ContentsOf ==
  ASSUME NEW d \in AnyDir
  PROVE  d # NoDir => /\ ContentOf(d) = d.c /\ ContentOf(d) \in Contents
                      /\ ContentOf(d) # NoIcon
BY NoneAssumption DEF AnyDir, Dir, ContentOf

-----------------------------------------------------------------------------
(* The steps at which the operations take effect.                          *)

(* A publish, or a rollback to a revision, once what was online is in the  *)
(* history or is gone, or nothing was online.                              *)
LEMMA SwapTakesEffect ==
  ASSUME NEW p \in Procs, NEW s \in Sites, Stepping(p, s), TypeOK,
         job[p].op \in {"publish", "rollbackTo"}, Quiet(job[p]),
         job'[p].op = job[p].op, job'[p].pc \in Displaced,
         job'[p].stage = job[p].stage, WholeDir(job[p].stage),
         reg'[s] = reg[s],
         Ordered(Kept(vers'[s])) = Lifecycle!Archived(View(job[p], s)),
         job[p].op = "rollbackTo" =>
           /\ Versioning
           /\ LET h == Ordered(Kept(vers[s]))
              IN  \E i \in DOMAIN h : h[i] = job[p].stage.c
  PROVE  Lifecycle!Next
<1> DEFINE x == View(job[p], s)
           c == job[p].stage.c
<1>1. reg[s] \in {"none", "live", "deleted"} /\ job[p].stage \in AnyDir
  BY DEF TypeOK, RegistryOK, JobsOK, Job
<1>2. ContentOf(job[p].stage) = c /\ c \in Contents
  BY <1>1, ContentsOf DEF WholeDir
<1>3. x.listed = reg[s] /\ x.history = Ordered(Kept(vers[s]))
  BY QuietShows DEF View, Plain
<1>4. job'[p].pc \in Catching
  BY DEF Catching
<1>5. x' = [listed |-> IF job[p].op = "publish" THEN "live" ELSE Relist(reg[s]),
            online |-> c, trash |-> NoIcon, history |-> Lifecycle!Archived(x)]
  BY <1>1, <1>2, <1>4, SwapShows DEF View
<1>6. Abstract[s] = x /\ Abstract' = [Abstract EXCEPT ![s] = x']
  BY DEF Stepping
<1> HIDE DEF x
<1>7. CASE job[p].op = "publish"
  <2>1. Lifecycle!Publish(s, c)
    BY <1>5, <1>6, <1>7 DEF Lifecycle!Publish, Lifecycle!Become
  <2> QED BY <1>2, <2>1 DEF Lifecycle!Next
<1>8. CASE job[p].op = "rollbackTo"
  <2>1. PICK i \in DOMAIN x.history : x.history[i] = c
    BY <1>3, <1>8
  <2>2. Lifecycle!RollbackTo(s, i)
    BY <1>3, <1>5, <1>6, <1>8, <2>1
       DEF Lifecycle!RollbackTo, Lifecycle!Become, Lifecycle!Relisted, Relist
  <2> QED BY <1>6, <2>1, <2>2 DEF Lifecycle!Next
<1> QED BY <1>7, <1>8

(* A rollback to the newest version, when it has archived what was online  *)
(* or nothing was: the version it has chosen is the last of the history,   *)
(* or the last but the one that was online.                                *)
LEMMA RollbackTakesEffect ==
  ASSUME NEW p \in Procs, NEW s \in Sites, Stepping(p, s), TypeOK,
         job[p].op = "rollback", Quiet(job[p]),
         job'[p].op = job[p].op, job'[p].pc \in Displaced,
         job'[p].src = job[p].src, reg'[s] = reg[s], Versioning,
         NEW V, V = vers[s], NEW W, W = vers'[s],
         IsHistory(V), Superfluous(V) = {},
         NEW v \in V, v.stamp = job[p].src, \A u \in V : u.stamp <= v.stamp,
         \/ live[s] = NoDir /\ W = V
         \/ \E x \in Version : /\ live[s] # NoDir /\ x.dir = live[s]
                               /\ Keep > 1
                               /\ W = V \union {x} /\ v \in Kept(W)
                               /\ \A u \in V : u.stamp < x.stamp
  PROVE  Lifecycle!Next
<1> DEFINE x == View(job[p], s)
           h == Ordered(V)
           d == Lifecycle!Archived(x)
           o == IF x.online = NoIcon THEN Len(d) ELSE Len(d) - 1
           S == StampsOf(V)
<1>1. reg[s] \in {"none", "live", "deleted"} /\ live[s] \in AnyDir
  BY DEF TypeOK, RegistryOK, DiskOK
<1>2. Kept(V) = V
  BY DEF Kept
<1>3. x.listed = reg[s] /\ x.history = h /\ x.online = ContentOf(live[s])
  BY <1>2, QuietShows DEF View, Plain
<1>4. /\ V \in SUBSET Version /\ S \in SUBSET Nat /\ IsFiniteSet(S)
      /\ v.stamp \in S
  BY DEF IsHistory, StampsOf, Version
<1>5. h \in Seq(Contents) /\ h # << >> /\ h[Len(h)] = v.dir.c
      /\ Place(v.stamp, S) = Len(h)
  <2>1. Place(v.stamp, S) = Cardinality(S)
    BY LastPlaces
  <2>2. Cardinality(S) \in Nat /\ Place(v.stamp, S) \in 1..Cardinality(S)
    BY <1>4, PlacesInOrder
  <2>3. /\ h \in Seq(Contents) /\ Len(h) = Cardinality(S)
        /\ h[Place(v.stamp, S)] = v.dir.c
    BY OrderedAt
  <2> HIDE DEF h, S
  <2> QED BY <2>1, <2>2, <2>3
<1> HIDE DEF x, h, S
<1>6. /\ v \in Kept(W) /\ IsHistory(W)
      /\ Ordered(Kept(W) \ {v}) = Without(d, o)
  <2>1. CASE live[s] = NoDir /\ W = V
    <3>1. x.online = NoIcon /\ d = h /\ o = Len(h)
      BY <1>3, <2>1 DEF Lifecycle!Archived, ContentOf
    <3>2. Ordered(V \ {v}) = Without(h, Len(h))
      BY <1>5, OrderedWithout DEF h, S
    <3> QED BY <1>2, <2>1, <3>1, <3>2
  <2>2. ASSUME NEW z \in Version, live[s] # NoDir, z.dir = live[s],
               W = V \union {z}, v \in Kept(W),
               \A u \in V : u.stamp < z.stamp
        PROVE  /\ v \in Kept(W) /\ IsHistory(W)
               /\ Ordered(Kept(W) \ {v}) = Without(d, o)
    <3>1. /\ IsHistory(W) /\ IsHistory(Kept(W)) /\ z \in Kept(W)
          /\ Ordered(Kept(W)) = Lifecycle!LastN(Append(h, z.dir.c), Keep)
      <4>1. IsHistory(V) /\ Superfluous(V) = {} /\ W = V \union {z}
            /\ \A u \in V : u.stamp < z.stamp
        BY <2>2
      <4> QED BY ONLY <4>1, ArchivedHistory DEF h
    <3>2. x.online = z.dir.c /\ x.online # NoIcon
      BY <1>1, <1>3, <2>2, ContentsOf
    <3>3. d = Ordered(Kept(W)) /\ o = Len(d) - 1
      BY <1>3, <3>1, <3>2 DEF Lifecycle!Archived
    <3>4. Len(d) = Cardinality(StampsOf(Kept(W)))
      BY <3>1, <3>3, OrderedAt
    <3>5. Place(v.stamp, StampsOf(Kept(W))) = Cardinality(StampsOf(Kept(W))) - 1
      <4>1. \A u \in Kept(W) : u = z \/ u.stamp <= v.stamp
        BY <2>2 DEF Kept
      <4> QED BY <2>2, <3>1, <4>1, LastPlaces
    <3>6. Ordered(Kept(W) \ {v}) =
            Without(Ordered(Kept(W)), Place(v.stamp, StampsOf(Kept(W))))
      BY <2>2, <3>1, OrderedWithout
    <3> QED BY <2>2, <3>1, <3>3, <3>4, <3>5, <3>6
  <2> QED BY <2>1, <2>2
<1>7. Source(job'[p], W) = v
  <2>1. v \in W /\ \A u \in W : u.stamp = job'[p].src => u = v
    BY <1>6 DEF Kept, IsHistory
  <2> QED BY <2>1 DEF Source
<1>8. job'[p].pc \in Catching
  BY DEF Catching
<1>9. x' = [listed |-> Relist(reg[s]), online |-> v.dir.c, trash |-> NoIcon,
            history |-> Ordered(Kept(W) \ {v})]
  BY <1>1, <1>7, <1>8, RollbackShows DEF x, View
<1>10. Abstract[s] = x /\ Abstract' = [Abstract EXCEPT ![s] = x']
  BY DEF Stepping, x
<1>11. Keep > 1 \/ x.online = NoIcon
  BY <1>3 DEF ContentOf
<1>12. Lifecycle!Rollback(s)
  BY <1>3, <1>5, <1>6, <1>9, <1>10, <1>11
     DEF Lifecycle!Rollback, Lifecycle!Become, Lifecycle!Relisted, Relist,
     Without
<1> QED BY <1>12 DEF Lifecycle!Next

-----------------------------------------------------------------------------
(* Step by step: an atomic operation, or nothing to see.                   *)

(* Before it displaces what is online, an operation finds its history      *)
(* trimmed, and the version it is about to bring back in it.               *)
LEMMA BeforeDisplacing ==
  ASSUME TypeOK, StampInv, Trimmed, Targets, Sources,
         NEW p \in Procs, Alone(p), NEW s \in Sites, s = job[p].site,
         job[p].pc \in {"stat", "rbstat", "stamp", "archive"}
  PROVE  /\ IsHistory(vers[s]) /\ Superfluous(vers[s]) = {}
         /\ Kept(vers[s]) = vers[s]
         /\ job[p].op = "rollbackTo" /\ job[p].pc # "rbstat" =>
              LET h == Ordered(Kept(vers[s]))
              IN  \E i \in DOMAIN h : h[i] = job[p].stage.c
         /\ job[p].op = "rollback" /\ job[p].pc # "stat" =>
              \E v \in vers[s] : v.stamp = job[p].src
                                 /\ \A u \in vers[s] : u.stamp <= v.stamp
<1> DEFINE V == vers[s]
<1>1. IsHistory(V)
  BY Histories
<1>2. Superfluous(V) = {}
  BY NoneAssumption DEF Trimmed, Alone, Idle
<1>3. Kept(V) = V
  BY <1>2 DEF Kept
<1>4. ASSUME job[p].op = "rollbackTo", job[p].pc # "rbstat"
      PROVE  LET h == Ordered(V)
             IN  \E i \in DOMAIN h : h[i] = job[p].stage.c
  <2>1. PICK v \in V : v.dir = job[p].stage
    BY <1>4 DEF Targets, Target
  <2>2. /\ Ordered(V) \in Seq(Contents)
        /\ Len(Ordered(V)) = Cardinality(StampsOf(V))
        /\ Ordered(V)[Place(v.stamp, StampsOf(V))] = v.dir.c
    BY <1>1, OrderedAt
  <2>3. Place(v.stamp, StampsOf(V)) \in 1..Cardinality(StampsOf(V))
    <3>1. StampsOf(V) \in SUBSET Nat /\ v.stamp \in StampsOf(V)
      BY <1>1 DEF IsHistory, StampsOf, Version
    <3> QED BY <1>1, <3>1, PlacesInOrder DEF IsHistory
  <2> HIDE DEF V
  <2> QED BY <2>1, <2>2, <2>3
<1>5. ASSUME job[p].op = "rollback", job[p].pc # "stat"
      PROVE  \E v \in V : v.stamp = job[p].src
                          /\ \A u \in V : u.stamp <= v.stamp
  <2>1. /\ job[p].src \in Stamps(s)
        /\ \A m \in Stamps(s) : m <= job[p].src
    BY <1>5 DEF Sources, SourceKept, Displacing
  <2> QED BY <2>1 DEF Stamps
<1> QED BY <1>1, <1>2, <1>3, <1>4, <1>5

(* With nothing online, a swap takes effect when it finds that out.        *)
LEMMA StatShows ==
  ASSUME TypeOK, StampInv, OnRoute, Trimmed, Targets, Sources,
         NEW p \in Procs, Phase(p), Alone(p),
         NEW s \in Sites, s = job[p].site, Stepping(p, s), Stat(p)
  PROVE  Lifecycle!Next \/ UNCHANGED Abstract
<1>1. job \in [Procs -> Job] /\ job[p].pc \in {"stat", "rbstat"}
  BY DEF TypeOK, JobsOK, Stat, At
<1>2. /\ \/ job[p].op \in {"publish", "rollbackTo"} /\ job[p].pc = "stat"
         \/ job[p].op = "rollback" /\ job[p].pc = "rbstat"
      /\ job[p].op \in {"rollback", "rollbackTo"} => Versioning
  <2>1. job[p].op \in AllOps \union {"none", "reap"}
    BY <1>1 DEF Job
  <2>2. job[p].pc \in Route(job[p].op)
    BY DEF OnRoute
  <2>3. job[p].op \in {"publish", "rollbackTo", "rollback"}
    BY <1>1, <2>1, <2>2 DEF Route, AllOps
  <2>4. job[p].pc = "stat" => job[p].op # "rollback"
    BY <2>2 DEF Route, Displacing
  <2>5. job[p].pc = "rbstat" => job[p].op = "rollback"
    BY <2>2, <2>3 DEF Route, Displacing
  <2> QED BY <1>1, <2>3, <2>4, <2>5 DEF OnRoute
<1>3. UNCHANGED <<reg, live, quar, vers>>
  BY DEF Stat, registry, disk
<1>4. Quiet(job[p])
  BY <1>1, <1>2 DEF Quiet, Catching, Displaced
<1>5. /\ job'[p].op = job[p].op /\ job'[p].stage = job[p].stage
      /\ job'[p].src = job[p].src
      /\ job'[p].pc = "movein" \/ live[s] # NoDir
      /\ job'[p].pc \in {"movein", "stamp", "clear"}
      /\ live[s] # NoDir => job'[p].pc # "movein"
  BY <1>1 DEF Stat, Goto, Job
<1>6. /\ IsHistory(vers[s]) /\ Superfluous(vers[s]) = {}
      /\ Kept(vers[s]) = vers[s]
  BY <1>1, BeforeDisplacing
<1>7. CASE live[s] # NoDir
  <2>1. Quiet(job'[p])
    BY <1>2, <1>5, <1>7 DEF Quiet, Catching, Displaced
  <2> QED BY <1>3, <1>4, <2>1, QuietStep
<1>8. CASE live[s] = NoDir /\ job[p].op \in {"publish", "rollbackTo"}
  <2>1. WholeDir(job[p].stage)
    BY <1>1, <1>8 DEF Phase, Swapping
  <2>2. Lifecycle!Archived(View(job[p], s)) = Ordered(Kept(vers[s]))
    BY <1>4, <1>8, QuietShows
       DEF View, Plain, Lifecycle!Archived, ContentOf
  <2>3. job'[p].pc \in Displaced /\ vers'[s] = vers[s] /\ reg'[s] = reg[s]
    BY <1>3, <1>5, <1>8 DEF Displaced
  <2>4. job[p].op = "rollbackTo" =>
           /\ Versioning
           /\ LET h == Ordered(Kept(vers[s]))
              IN  \E i \in DOMAIN h : h[i] = job[p].stage.c
    BY <1>1, <1>2, BeforeDisplacing
  <2> QED BY <1>4, <1>5, <1>8, <2>1, <2>2, <2>3, <2>4, SwapTakesEffect
<1>9. CASE live[s] = NoDir /\ job[p].op = "rollback"
  <2>1. PICK v \in vers[s] : v.stamp = job[p].src
                             /\ \A u \in vers[s] : u.stamp <= v.stamp
    BY <1>1, <1>2, <1>9, BeforeDisplacing
  <2>2. job'[p].pc \in Displaced /\ vers'[s] = vers[s] /\ reg'[s] = reg[s]
    BY <1>3, <1>5, <1>9 DEF Displaced
  <2> QED BY <1>2, <1>4, <1>5, <1>6, <1>9, <2>1, <2>2, RollbackTakesEffect
<1> QED BY <1>2, <1>7, <1>8, <1>9

(* Which operation stands at a call.                                       *)
LEMMA OpAt ==
  ASSUME TypeOK, OnRoute, NEW p \in Procs
  PROVE  LET o == job[p].op
             l == job[p].pc
         IN  /\ l \in {"stamp", "archive", "prune", "drop", "measure", "reread"}
                  => o \in {"publish", "rollbackTo", "rollback"}
             /\ l = "movein"
                  => o \in {"publish", "rollbackTo", "rollback", "restore"}
             /\ l = "clear" => o \in {"publish", "restore"}
             /\ l = "upsert" => o = "publish"
             /\ l \in {"touch", "resize"} => o \in {"rollbackTo", "rollback"}
             /\ l = "detect" => o \in {"publish", "rollback", "favicons"}
             /\ l = "icon" => o \in {"publish", "rollback", "favicons"}
             /\ l = "compare" => o = "favicons"
             /\ l \in {"qstat", "qclear", "qmove"} => o = "unpublish"
             /\ l = "qcheck" => o = "restore"
             /\ l = "wipe" => o \in {"purge", "reap"}
             /\ l = "delete" => o = "reap"
<1> DEFINE o == job[p].op
           l == job[p].pc
<1>1. o \in AllOps \union {"none", "reap"} /\ l \in Route(o)
  BY DEF TypeOK, JobsOK, Job, OnRoute
<1>2. CASE o \in {"publish", "rollbackTo", "rollback"}
  BY <1>1, <1>2 DEF Route, Displacing
<1>3. CASE o \in {"unpublish", "restore", "purge", "favicons", "reap", "none"}
  BY <1>1, <1>3 DEF Route, Displacing
<1>4. \/ o \in {"publish", "rollbackTo", "rollback"}
      \/ o \in {"unpublish", "restore", "purge", "favicons", "reap", "none"}
  BY <1>1 DEF AllOps
<1> QED BY <1>2, <1>3, <1>4

(* Drawing a stamp is not seen.                                            *)
LEMMA StampShows ==
  ASSUME TypeOK, OnRoute, NEW p \in Procs,
         NEW s \in Sites, Stepping(p, s), TakeStamp(p)
  PROVE  UNCHANGED Abstract
<1>1. job \in [Procs -> Job] /\ job[p].pc = "stamp"
  BY DEF TypeOK, JobsOK, TakeStamp, At
<1>2. job[p].op \in {"publish", "rollbackTo", "rollback"}
  BY <1>1, OpAt
<1>3. job'[p].op = job[p].op /\ job'[p].pc = "archive"
  BY <1>1 DEF TakeStamp, Job
<1>4. Quiet(job[p]) /\ Quiet(job'[p])
  BY <1>1, <1>2, <1>3 DEF Quiet, Catching, Displaced
<1>5. UNCHANGED <<reg, live, quar, vers>>
  BY DEF TakeStamp, registry
<1> QED BY <1>4, <1>5, QuietStep

(* Archiving is where a swap that keeps versions takes effect.             *)
LEMMA ArchiveShows ==
  ASSUME "rollback" \in Ops => Keep >= 2,
         TypeOK, StampInv, OnRoute, Trimmed, Targets, Latest, Sources,
         NEW p \in Procs, Phase(p), Alone(p),
         NEW s \in Sites, s = job[p].site, Stepping(p, s), Archive(p)
  PROVE  Lifecycle!Next \/ UNCHANGED Abstract
<1> DEFINE V == vers[s]
           W == vers'[s]
           x == [stamp |-> job[p].name, dir |-> live[s]]
<1>1. /\ job \in [Procs -> Job] /\ job[p].pc = "archive"
      /\ vers \in [Sites -> SUBSET Version] /\ live[s] \in AnyDir
  BY DEF TypeOK, JobsOK, DiskOK, Archive, At
<1>2. job[p].op \in {"publish", "rollbackTo", "rollback"} /\ Versioning
  BY <1>1, OpAt DEF OnRoute, Displacing
<1>3. Quiet(job[p]) /\ reg'[s] = reg[s] /\ quar'[s] = quar[s]
  BY <1>1, <1>2 DEF Quiet, Catching, Displaced, Archive, registry
<1>4. IsHistory(V) /\ Superfluous(V) = {} /\ Kept(V) = V
  BY <1>1, BeforeDisplacing
<1>5. CASE live[s] = NoDir
  <2>1. job'[p] = Idle /\ live' = live /\ vers' = vers
    BY <1>1, <1>5 DEF Archive, Done
  <2> QED BY <1>3, <2>1, IdleQuiet, QuietStep
<1>6. CASE live[s] # NoDir
  <2>1. /\ W = V \union {x} /\ job'[p].pc = "prune" /\ job'[p].op = job[p].op
        /\ job'[p].stage = job[p].stage /\ job'[p].src = job[p].src
        /\ job'[p].site = s
    BY <1>1, <1>6 DEF Archive, Job
  <2>2. x \in Version /\ \A u \in V : u.stamp < x.stamp
    BY <1>1, <1>6 DEF Job, AnyDir, Version, Latest, At, Stamps
  <2>3. job'[p].pc \in Displaced
    BY <2>1 DEF Displaced
  <2>4. CASE job[p].op \in {"publish", "rollbackTo"}
    <3>1. WholeDir(job[p].stage)
      BY <1>1, <2>4 DEF Phase, Swapping
    <3>2. job[p].op = "rollbackTo" =>
           /\ Versioning
           /\ LET h == Ordered(Kept(vers[s]))
              IN  \E i \in DOMAIN h : h[i] = job[p].stage.c
      BY <1>1, <1>2, BeforeDisplacing
    <3>3. View(job[p], s).online = x.dir.c /\ x.dir.c # NoIcon
          /\ View(job[p], s).history = Ordered(V)
      <4>1. ContentOf(live[s]) = live[s].c /\ live[s].c # NoIcon
        BY <1>1, <1>6, ContentsOf
      <4> QED BY <1>3, <1>4, <4>1, QuietShows DEF View, Plain
    <3> HIDE DEF x
    <3>4. Ordered(Kept(W)) =
            Lifecycle!LastN(Append(Ordered(V), x.dir.c), Keep)
      BY <1>4, <2>1, <2>2, ArchivedHistory
    <3>5. Ordered(Kept(W)) = Lifecycle!Archived(View(job[p], s))
      BY <1>2, <3>3, <3>4 DEF Lifecycle!Archived
    <3> QED BY <1>3, <2>1, <2>3, <2>4, <3>1, <3>2, <3>5, SwapTakesEffect
  <2>5. CASE job[p].op = "rollback"
    <3>1. PICK v \in V : v.stamp = job[p].src /\ \A u \in V : u.stamp <= v.stamp
      BY <1>1, <2>5, BeforeDisplacing
    <3>2. Keep >= 2 /\ Keep > 1
      BY <2>5, KeepAssumption DEF OnRoute
    <3> HIDE DEF x
    <3>3. v.stamp \notin Superfluous(W)
      <4>1. IsHistory(W) /\ v \in W
        <5>1. IsHistory(V \union {x})
          BY <1>4, <2>2, OrderedNewest
        <5> QED BY <2>1, <5>1
      <4>2. \A u \in V : u.stamp \in Nat
        BY <1>1 DEF Version
      <4>3. Newer(v, W) = {x}
        BY <2>1, <2>2, <3>1, <4>2 DEF Newer
      <4>4. Cardinality({x}) = 1
        BY FS_Singleton
      <4> HIDE DEF W
      <4>5. ~(Cardinality(Newer(v, W)) >= Keep)
        BY <3>2, <4>3, <4>4, KeepAssumption
      <4> QED BY <4>1, <4>5, NewerByPlace
    <3>4. v \in Kept(W)
      BY <2>1, <3>3 DEF Kept
    <3> QED BY <1>2, <1>3, <1>4, <1>6, <2>1, <2>2, <2>3, <2>5, <3>1, <3>2, <3>4,
               RollbackTakesEffect DEF x
  <2> QED BY <1>2, <2>4, <2>5
<1> QED BY <1>5, <1>6

(* Between the displacement and the move nothing is seen of the pruning.   *)
LEMMA PruningShows ==
  ASSUME TypeOK, NEW p \in Procs, NEW s \in Sites, Stepping(p, s),
         job[p].op \in {"publish", "rollbackTo", "rollback"},
         job[p].pc \in Displaced, job'[p].pc \in Displaced,
         job'[p].op = job[p].op, job'[p].stage = job[p].stage,
         reg'[s] = reg[s],
         Ordered(Kept(vers'[s])) = Ordered(Kept(vers[s])),
         job[p].op = "rollback" =>
           LET u == Source(job[p], vers[s])
               v == Source(job'[p], vers'[s])
           IN  /\ v.dir.c = u.dir.c
               /\ Ordered(Kept(vers'[s]) \ {v}) = Ordered(Kept(vers[s]) \ {u})
  PROVE  UNCHANGED Abstract
<1>1. /\ reg[s] \in {"none", "live", "deleted"}
      /\ job[p].pc \in Catching /\ job'[p].pc \in Catching
  BY DEF TypeOK, RegistryOK, Catching
<1>2. CASE job[p].op \in {"publish", "rollbackTo"}
  <2>1. View(job[p], s) =
           [listed |-> IF job[p].op = "publish" THEN "live" ELSE Relist(reg[s]),
            online |-> ContentOf(job[p].stage), trash |-> NoIcon,
            history |-> Ordered(Kept(vers[s]))]
    BY <1>1, <1>2, SwapShows DEF View
  <2>2. View(job[p], s)' =
           [listed |-> IF job[p].op = "publish" THEN "live" ELSE Relist(reg[s]),
            online |-> ContentOf(job[p].stage), trash |-> NoIcon,
            history |-> Ordered(Kept(vers'[s]))]
    BY <1>1, <1>2, SwapShows DEF View
  <2> QED BY <2>1, <2>2, NothingShows
<1>3. CASE job[p].op = "rollback"
  <2> DEFINE u == Source(job[p], vers[s])
             v == Source(job'[p], vers'[s])
  <2>1. View(job[p], s) =
           [listed |-> Relist(reg[s]), online |-> u.dir.c, trash |-> NoIcon,
            history |-> Ordered(Kept(vers[s]) \ {u})]
    BY <1>1, <1>3, RollbackShows DEF View
  <2>2. View(job[p], s)' =
           [listed |-> Relist(reg[s]), online |-> v.dir.c, trash |-> NoIcon,
            history |-> Ordered(Kept(vers'[s]) \ {v})]
    BY <1>1, <1>3, RollbackShows DEF View
  <2>3. View(job[p], s)' = View(job[p], s)
    BY <1>3, <2>1, <2>2
  <2> QED BY <2>3, NothingShows
<1> QED BY <1>2, <1>3

(* Listing what is superfluous is not seen.                                *)
LEMMA PruneShows ==
  ASSUME TypeOK, OnRoute, NEW p \in Procs, NEW s \in Sites, Stepping(p, s),
         Prune(p)
  PROVE  UNCHANGED Abstract
<1>1. job \in [Procs -> Job] /\ job[p].pc = "prune"
  BY DEF TypeOK, JobsOK, Prune, At
<1>2. job[p].op \in {"publish", "rollbackTo", "rollback"}
  BY <1>1, OpAt
<1>3. /\ job'[p].op = job[p].op /\ job'[p].pc = "drop"
      /\ job'[p].stage = job[p].stage /\ job'[p].src = job[p].src
      /\ UNCHANGED <<reg, vers>>
  BY <1>1 DEF Prune, Job, registry, disk
<1>4. Source(job'[p], vers'[s]) = Source(job[p], vers[s])
  BY <1>3 DEF Source
<1> QED BY <1>1, <1>2, <1>3, <1>4, PruningShows DEF Displaced

(* Removing what is superfluous is not seen: it was out of reach before.   *)
LEMMA DropShows ==
  ASSUME TypeOK, StampInv, OnRoute, Trimmed, Sources, NEW p \in Procs,
         NEW s \in Sites, s = job[p].site, Stepping(p, s), Drop(p)
  PROVE  UNCHANGED Abstract
<1> DEFINE V == vers[s]
           W == vers'[s]
<1>1. /\ job \in [Procs -> Job] /\ job[p].pc = "drop"
      /\ vers \in [Sites -> SUBSET Version] /\ UNCHANGED reg
  BY DEF TypeOK, JobsOK, DiskOK, Drop, At, registry
<1>2. job[p].op \in {"publish", "rollbackTo", "rollback"}
  BY <1>1, OpAt
<1>3. IsHistory(V) /\ job[p].doomed = Superfluous(V)
  BY <1>1, Histories DEF Trimmed, Doomed, At
<1>4. CASE Goto(p, "movein") /\ UNCHANGED vers
  <2>1. /\ job'[p].op = job[p].op /\ job'[p].pc = "movein"
        /\ job'[p].stage = job[p].stage /\ job'[p].src = job[p].src
    BY <1>1, <1>4 DEF Goto, Job
  <2>2. Source(job'[p], vers'[s]) = Source(job[p], vers[s])
    BY <1>4, <2>1 DEF Source
  <2> QED BY <1>1, <1>2, <1>4, <2>1, <2>2, PruningShows DEF Displaced
<1>5. ASSUME NEW m \in Oldest(job[p].doomed),
             vers' = [vers EXCEPT ![s] = {v \in @ : v.stamp # m}],
             job' = [job EXCEPT ![p].doomed = @ \ {m}]
      PROVE  UNCHANGED Abstract
  <2>1. /\ job'[p].op = job[p].op /\ job'[p].pc = "drop"
        /\ job'[p].stage = job[p].stage /\ job'[p].src = job[p].src
        /\ W = {v \in V : v.stamp # m} /\ m \in Superfluous(V)
    BY <1>1, <1>3, <1>5 DEF Job, Oldest
  <2>2. Kept(W) = Kept(V)
    <3> HIDE DEF V, W
    <3> QED BY <1>3, <2>1, DropLeavesKept
  <2>3. job[p].op = "rollback" => Source(job'[p], W) = Source(job[p], V)
    <3> SUFFICES ASSUME job[p].op = "rollback"
                 PROVE  Source(job'[p], W) = Source(job[p], V)
      OBVIOUS
    <3>1. job[p].src \in Stamps(s) /\ job[p].src # m
      BY <1>1, <1>5 DEF Sources, SourceKept, Displacing, Oldest
    <3>2. PICK v \in V : v.stamp = job[p].src
      BY <3>1 DEF Stamps
    <3>3. v \in W /\ W \subseteq V
      BY <2>1, <3>1, <3>2
    <3>4. \A u \in V : u.stamp = job[p].src => u = v
      BY <1>3, <3>2 DEF IsHistory
    <3> QED BY <2>1, <3>2, <3>3, <3>4 DEF Source
  <2>4. job[p].op = "rollback" =>
          Ordered(Kept(W) \ {Source(job'[p], W)})
            = Ordered(Kept(V) \ {Source(job[p], V)})
    BY <2>2, <2>3
  <2> QED BY <1>1, <1>2, <2>1, <2>2, <2>3, <2>4, PruningShows DEF Displaced
<1> QED BY <1>4, <1>5 DEF Drop

(* Without versioning a swap takes effect when it clears the directory.    *)
LEMMA ClearShows ==
  ASSUME TypeOK, StampInv, OnRoute, Trimmed, NEW p \in Procs, Phase(p),
         NEW s \in Sites, s = job[p].site, Stepping(p, s), Clear(p)
  PROVE  Lifecycle!Next \/ UNCHANGED Abstract
<1>1. /\ job \in [Procs -> Job] /\ live \in [Sites -> AnyDir]
      /\ job[p].pc = "clear"
  BY DEF TypeOK, JobsOK, DiskOK, Clear, At
<1>2. /\ job'[p].op = job[p].op /\ job'[p].stage = job[p].stage
      /\ job'[p].pc = "movein"
      /\ live'[s] = NoDir /\ UNCHANGED <<reg, quar, vers>>
  BY <1>1 DEF Clear, Goto, Job, registry
<1>3. CASE job[p].op = "publish"
  <2>1. ~Versioning /\ WholeDir(job[p].stage) /\ Quiet(job[p])
    BY <1>1, <1>3 DEF OnRoute, Phase, Swapping, Quiet, Catching, Displaced
  <2>2. Ordered(Kept(vers'[s])) = Lifecycle!Archived(View(job[p], s))
    BY <1>2, <2>1, QuietShows DEF View, Plain, Lifecycle!Archived
  <2>3. job'[p].pc \in Displaced
    BY <1>2 DEF Displaced
  <2> QED BY <1>2, <1>3, <2>1, <2>2, <2>3, SwapTakesEffect
<1>4. CASE job[p].op = "restore"
  <2>1. reg[s] = "live" /\ live[s] = NoDir
    BY <1>4 DEF Phase
  <2>2. View(job[p], s)' = View(job[p], s)
    BY <1>1, <1>2, <1>4, <2>1, TrashShows DEF View, PCs
  <2> QED BY <2>2, NothingShows
<1> QED BY <1>1, <1>3, <1>4, OpAt

(* The moves bring online what has been seen since the displacement.       *)
LEMMA SwapInShows ==
  ASSUME TypeOK, OnRoute, NEW p \in Procs, Phase(p),
         NEW s \in Sites, s = job[p].site, Stepping(p, s), SwapIn(p)
  PROVE  UNCHANGED Abstract
<1>1. /\ job \in [Procs -> Job] /\ live \in [Sites -> AnyDir]
      /\ job[p].pc = "movein" /\ job[p].op \in {"publish", "rollbackTo"}
      /\ reg[s] \in {"none", "live", "deleted"}
  BY DEF TypeOK, RegistryOK, JobsOK, DiskOK, SwapIn, At
<1>2. live[s] = NoDir
  BY <1>1 DEF Phase
<1>3. /\ live'[s] = job[p].stage /\ UNCHANGED <<reg, vers>>
      /\ job'[p].op = job[p].op /\ job'[p].pc \in {"measure", "touch"}
  BY <1>1, <1>2 DEF SwapIn, Job, registry
<1>4. /\ job[p].pc \in Catching /\ job'[p].pc \in Catching
      /\ job[p].pc \in Displaced /\ job'[p].pc \notin Displaced
  BY <1>1, <1>3 DEF Catching, Displaced
<1>5. View(job[p], s) =
        [listed |-> IF job[p].op = "publish" THEN "live" ELSE Relist(reg[s]),
         online |-> ContentOf(job[p].stage), trash |-> NoIcon,
         history |-> Ordered(Kept(vers[s]))]
  BY <1>1, <1>4, SwapShows DEF View
<1>6. View(job[p], s)' =
        [listed |-> IF job[p].op = "publish" THEN "live" ELSE Relist(reg[s]),
         online |-> ContentOf(job[p].stage), trash |-> NoIcon,
         history |-> Ordered(Kept(vers[s]))]
  BY <1>1, <1>3, <1>4, SwapShows DEF View
<1> QED BY <1>5, <1>6, NothingShows

(* Moving the version in only catches up with the archiving.               *)
LEMMA RollbackInShows ==
  ASSUME TypeOK, StampInv, OnRoute, Trimmed, Sources, NEW p \in Procs,
         Phase(p), Alone(p),
         NEW s \in Sites, s = job[p].site, Stepping(p, s), RollbackIn(p)
  PROVE  UNCHANGED Abstract
<1> DEFINE V == vers[s]
           W == vers'[s]
<1>1. /\ job \in [Procs -> Job] /\ live \in [Sites -> AnyDir]
      /\ vers \in [Sites -> SUBSET Version]
      /\ job[p].pc = "movein" /\ job[p].op = "rollback"
      /\ reg[s] \in {"none", "live", "deleted"}
  BY DEF TypeOK, RegistryOK, JobsOK, DiskOK, RollbackIn, At
<1>2. live[s] = NoDir
  BY <1>1 DEF Phase
<1>3. IsHistory(V) /\ Superfluous(V) = {} /\ Kept(V) = V
  <2>1. Superfluous(V) = {}
    BY <1>1, NoneAssumption DEF Trimmed, Alone, Idle
  <2> QED BY <2>1, Histories DEF Kept
<1>4. job[p].src \in Stamps(s)
  BY <1>1 DEF Sources, SourceKept, Displacing
<1>5. PICK v \in V : v.stamp = job[p].src /\ live'[s] = v.dir
                     /\ W = V \ {v} /\ Goto(p, "touch")
  BY <1>1, <1>2, <1>4 DEF RollbackIn, Stamps
<1>6. /\ job'[p].op = "rollback" /\ job'[p].pc = "touch" /\ UNCHANGED reg
  BY <1>1, <1>5 DEF Goto, Job, RollbackIn, registry
<1>7. Source(job[p], V) = v
  BY <1>3, <1>5 DEF Source, IsHistory
<1>8. Kept(W) = V \ {v} /\ ContentOf(v.dir) = v.dir.c
  <2>1. Kept(W) = W
    BY <1>3, <1>5, NoneSuperfluous
  <2>2. v.dir \in Dir
    BY <1>1 DEF Version
  <2> QED BY <1>5, <2>1, <2>2, NoDirAssumption DEF ContentOf
<1>9. /\ job[p].pc \in Catching /\ job'[p].pc \in Catching
      /\ job[p].pc \in Displaced /\ job'[p].pc \notin Displaced
  BY <1>1, <1>6 DEF Catching, Displaced
<1>10. View(job[p], s) =
         [listed |-> Relist(reg[s]), online |-> v.dir.c, trash |-> NoIcon,
          history |-> Ordered(V \ {v})]
  BY <1>1, <1>3, <1>7, <1>9, RollbackShows DEF View
<1>11. View(job[p], s)' =
         [listed |-> Relist(reg[s]), online |-> v.dir.c, trash |-> NoIcon,
          history |-> Ordered(V \ {v})]
  <2>1. View(job[p], s)' =
          [listed |-> Relist(reg'[s]), online |-> ContentOf(live'[s]),
           trash |-> NoIcon, history |-> Ordered(Kept(W))]
    <3>1. reg'[s] \in {"none", "live", "deleted"}
      BY <1>1, <1>6
    <3> HIDE DEF W
    <3>2. Seen(job'[p], reg'[s], ContentOf(live'[s]), ContentOf(quar'[s]), W) =
            [listed |-> Relist(reg'[s]), online |-> ContentOf(live'[s]),
             trash |-> NoIcon, history |-> Ordered(Kept(W))]
      BY <1>6, <1>9, <3>1, RolledBackShows
    <3> QED BY <3>2 DEF View, W
  <2> QED BY <1>5, <1>6, <1>8, <2>1
<1> QED BY <1>10, <1>11, NothingShows

(* Moving files back only catches up with the row.                         *)
LEMMA RestoreInShows ==
  ASSUME TypeOK, NEW p \in Procs, Phase(p),
         NEW s \in Sites, s = job[p].site, Stepping(p, s), RestoreIn(p)
  PROVE  UNCHANGED Abstract
<1>1. /\ job \in [Procs -> Job] /\ live \in [Sites -> AnyDir]
      /\ quar \in [Sites -> AnyDir]
      /\ job[p].pc = "movein" /\ job[p].op = "restore"
  BY DEF TypeOK, JobsOK, DiskOK, RestoreIn, At
<1>2. reg[s] = "live" /\ live[s] = NoDir /\ quar[s] # NoDir
  BY <1>1 DEF Phase, Exact
<1>3. /\ live'[s] = quar[s] /\ UNCHANGED <<reg, vers>>
      /\ job'[p] = Idle
  BY <1>1, <1>2 DEF RestoreIn, Done, registry
<1>4. View(job[p], s) =
        [listed |-> "live", online |-> ContentOf(quar[s]), trash |-> NoIcon,
         history |-> Ordered(Kept(vers[s]))]
  BY <1>1, <1>2, TrashShows DEF View, PCs
<1>5. View(job[p], s)' =
        [listed |-> "live", online |-> ContentOf(quar[s]), trash |-> NoIcon,
         history |-> Ordered(Kept(vers[s]))]
  BY <1>2, <1>3, IdleQuiet, QuietShows DEF View, Plain
<1> QED BY <1>4, <1>5, NothingShows

-----------------------------------------------------------------------------
(* The registry catches up: the row tells what has been seen already.      *)

(* Among the jobs that have brought their content online, the row alone    *)
(* decides what is seen.                                                   *)
LEMMA CaughtUp ==
  ASSUME NEW j, NEW r \in {"none", "live", "deleted"}, NEW l, NEW q, NEW V,
         j.op \in {"publish", "rollbackTo", "rollback"}, j.pc \notin Displaced
  PROVE  Seen(j, r, l, q, V) =
           Plain(IF j.pc \notin Catching THEN r
                 ELSE IF j.op = "publish" THEN "live" ELSE Relist(r), l, q, V)
<1>1. CASE j.pc \notin Catching
  BY <1>1, QuietShows DEF Quiet
<1>2. CASE j.pc \in Catching /\ j.op \in {"publish", "rollbackTo"}
  BY <1>2, SwapShows DEF Plain, Relist
<1>3. CASE j.pc \in Catching /\ j.op = "rollback"
  <2>1. Seen(j, r, l, q, V) = [listed |-> Relist(r), online |-> l,
                               trash |-> NoIcon, history |-> Ordered(Kept(V))]
    BY <1>3, RolledBackShows
  <2> QED BY <1>3, <2>1 DEF Plain, Relist
<1> QED BY <1>1, <1>2, <1>3

(* Sizes, icons and the rows of files already exchanged are not seen.      *)
LEMMA RegistryShows ==
  ASSUME TypeOK, OnRoute, NEW p \in Procs, Phase(p),
         NEW s \in Sites, s = job[p].site, Stepping(p, s),
         \/ MeasureLive(p) \/ Upsert(p) \/ Touch(p) \/ Reread(p) \/ Resize(p)
         \/ Detect(p) \/ Compare(p) \/ SetIcon(p)
  PROVE  UNCHANGED Abstract
<1>1. /\ job \in [Procs -> Job] /\ reg \in [Sites -> {"none", "live", "deleted"}]
      /\ UNCHANGED <<live, quar, vers>>
  BY DEF TypeOK, RegistryOK, JobsOK, MeasureLive, Upsert, Touch, Reread,
     Resize, Detect, Compare, SetIcon, disk
<1>2. ASSUME job[p].op \in {"publish", "rollbackTo", "rollback"},
             job[p].pc \notin Displaced,
             \/ job'[p].op = job[p].op /\ job'[p].pc \notin Displaced
             \/ job'[p] = Idle,
             reg'[s] \in {"none", "live", "deleted"},
             LET before == IF job[p].pc \notin Catching THEN reg[s]
                           ELSE IF job[p].op = "publish" THEN "live"
                           ELSE Relist(reg[s])
                 after  == IF job'[p].pc \notin Catching THEN reg'[s]
                           ELSE IF job[p].op = "publish" THEN "live"
                           ELSE Relist(reg'[s])
             IN  before = after
      PROVE  UNCHANGED Abstract
  <2> DEFINE l == ContentOf(live[s])
             q == ContentOf(quar[s])
             before == IF job[p].pc \notin Catching THEN reg[s]
                       ELSE IF job[p].op = "publish" THEN "live"
                       ELSE Relist(reg[s])
             after  == IF job'[p].pc \notin Catching THEN reg'[s]
                       ELSE IF job[p].op = "publish" THEN "live"
                       ELSE Relist(reg'[s])
  <2>1. View(job[p], s) = Plain(before, l, q, vers[s])
    BY <1>1, <1>2, CaughtUp DEF View
  <2>2. View(job[p], s)' = Plain(after, l, q, vers[s])
    <3>1. View(job[p], s)' = Seen(job'[p], reg'[s], l, q, vers[s])
      BY <1>1 DEF View
    <3>2. CASE job'[p].op = job[p].op /\ job'[p].pc \notin Displaced
      BY <1>2, <3>1, <3>2, CaughtUp
    <3>3. CASE job'[p] = Idle
      <4>1. Idle.pc \notin Catching
        BY DEF Idle, Catching, Displaced
      <4> QED BY <3>1, <3>3, <4>1, IdleQuiet, QuietShows
    <3> QED BY <1>2, <3>2, <3>3
  <2> QED BY <1>2, <2>1, <2>2, NothingShows
<1> USE DEF Catching, Displaced, Relist, At
<1>3. CASE MeasureLive(p)
  <2>1. /\ job[p].pc = "measure" /\ reg'[s] = reg[s]
        /\ job'[p].op = job[p].op
        /\ job'[p].pc = IF job[p].op = "publish" THEN "upsert" ELSE "resize"
    BY <1>1, <1>3 DEF MeasureLive, TakeSize, Job, registry
  <2>2. /\ job[p].op \in {"publish", "rollbackTo", "rollback"}
        /\ job[p].op # "publish" => reg[s] = "live"
    BY <2>1, OpAt DEF Phase
  <2> QED BY <1>1, <1>2, <2>1, <2>2
<1>4. CASE Upsert(p)
  <2>1. /\ job[p].pc = "upsert" /\ reg'[s] = "live"
        /\ job'[p].op = job[p].op /\ job'[p].pc = "reread"
    BY <1>1, <1>4 DEF Upsert, UpsertSite, Job
  <2>2. job[p].op = "publish"
    BY <2>1, OpAt
  <2> QED BY <1>1, <1>2, <2>1, <2>2
<1>5. CASE Touch(p)
  <2>1. /\ job[p].pc = "touch" /\ reg'[s] = Relist(reg[s])
        /\ job'[p].op = job[p].op /\ job'[p].pc = "reread"
    BY <1>1, <1>5 DEF Touch, UpsertSiteTouch, Goto, Job
  <2>2. job[p].op \in {"rollbackTo", "rollback"}
    BY <2>1, OpAt
  <2> QED BY <1>1, <1>2, <2>1, <2>2
<1>6. CASE Reread(p)
  <2>1. /\ job[p].pc = "reread" /\ reg'[s] = reg[s]
        /\ \/ job'[p] = Idle
           \/ /\ job'[p].op = job[p].op /\ reg[s] = "live"
              /\ job'[p].pc \in {"detect", "measure"}
    BY <1>1, <1>6 DEF Reread, Goto, Done, Job, registry
  <2>2. job[p].op \in {"publish", "rollbackTo", "rollback"}
    BY <2>1, OpAt
  <2> QED BY <1>1, <1>2, <2>1, <2>2 DEF Idle
<1>7. CASE Resize(p)
  <2>1. /\ job[p].pc = "resize" /\ reg'[s] = reg[s]
        /\ \/ job'[p] = Idle
           \/ job'[p].op = job[p].op /\ job'[p].pc = "detect"
    BY <1>1, <1>7 DEF Resize, SetSiteSize, Done, Job
  <2>2. job[p].op \in {"rollbackTo", "rollback"}
    BY <2>1, OpAt
  <2> QED BY <1>1, <1>2, <2>1, <2>2 DEF Idle
<1>8. CASE Detect(p) \/ Compare(p) \/ SetIcon(p)
  <2>1. /\ job[p].pc \in {"detect", "compare", "icon"} /\ reg'[s] = reg[s]
        /\ \/ job'[p] = Idle
           \/ job'[p].op = job[p].op /\ job'[p].pc \in {"compare", "icon"}
    <3>1. CASE Detect(p)
      <4>1. PICK i : TakeIcon(p, i, {})
        BY <3>1 DEF Detect
      <4>2. /\ job'[p].op = job[p].op /\ job'[p].pc \in {"compare", "icon"}
        BY <1>1, <4>1 DEF TakeIcon, Job
      <4> QED BY <3>1, <4>2 DEF Detect, registry
    <3>2. CASE Compare(p)
      BY <1>1, <3>2 DEF Compare, Goto, Done, Job, registry
    <3>3. CASE SetIcon(p)
      BY <1>1, <3>3 DEF SetIcon, SetSiteFavicon, Done
    <3> QED BY <1>8, <3>1, <3>2, <3>3
  <2>2. job[p].op \in {"publish", "rollback", "favicons"}
    BY <2>1, OpAt
  <2>3. Quiet(job[p]) /\ Quiet(job'[p])
    BY <2>1, <2>2, IdleQuiet DEF Quiet
  <2> QED BY <1>1, <2>1, <2>3, QuietStep
<1> QED BY <1>3, <1>4, <1>5, <1>6, <1>7, <1>8

-----------------------------------------------------------------------------
(* The trash: the row comes first, and the directories follow unseen.      *)

(* Moving files to the quarantine only catches up with the row.            *)
LEMMA QuarantineShows ==
  ASSUME TypeOK, OnRoute, NEW p \in Procs, Phase(p),
         NEW s \in Sites, s = job[p].site, Stepping(p, s),
         \/ QStat(p) \/ QClear(p) \/ QMove(p) \/ QCheck(p)
  PROVE  UNCHANGED Abstract
<1> DEFINE l == ContentOf(live[s])
           q == ContentOf(quar[s])
           H == Ordered(Kept(vers[s]))
<1>1. /\ job \in [Procs -> Job] /\ job[p].pc \in PCs
      /\ live \in [Sites -> AnyDir] /\ quar \in [Sites -> AnyDir]
      /\ UNCHANGED <<reg, vers>>
  BY DEF TypeOK, JobsOK, DiskOK, Job, QStat, QClear, QMove, QCheck, registry,
     disk
<1>2. ASSUME job[p].pc \in {"qstat", "qclear", "qmove"}
      PROVE  /\ job[p].op = "unpublish" /\ reg[s] = "deleted"
             /\ live[s] # NoDir
             /\ View(job[p], s) = [listed |-> "deleted", online |-> NoIcon,
                                   trash |-> l, history |-> H]
  <2>1. job[p].op = "unpublish"
    BY <1>2, OpAt
  <2>2. reg[s] = "deleted" /\ live[s] # NoDir
    BY <2>1 DEF Phase, Exact
  <2> QED BY <1>1, <2>1, <2>2, TrashShows DEF View
<1>3. ASSUME job'[p].op = "unpublish", job'[p].pc \in PCs, reg[s] = "deleted",
             live'[s] = live[s]
      PROVE  View(job[p], s)' = [listed |-> "deleted", online |-> NoIcon,
                                 trash |-> l, history |-> H]
  BY <1>1, <1>3, TrashShows DEF View
<1>4. CASE QStat(p)
  <2>1. job[p].pc = "qstat" /\ live' = live
    BY <1>4 DEF QStat, At, disk
  <2>2. job'[p].op = "unpublish" /\ job'[p].pc = "qclear"
    BY <1>1, <1>2, <1>4, <2>1 DEF QStat, Goto, Job
  <2> QED BY <1>2, <1>3, <2>1, <2>2, NothingShows DEF PCs
<1>5. CASE QClear(p)
  <2>1. job[p].pc = "qclear" /\ live' = live
    BY <1>5 DEF QClear, At
  <2>2. job'[p].op = "unpublish" /\ job'[p].pc = "qmove"
    BY <1>1, <1>2, <1>5, <2>1 DEF QClear, Goto, Job
  <2> QED BY <1>2, <1>3, <2>1, <2>2, NothingShows DEF PCs
<1>6. CASE QMove(p)
  <2>1. job[p].pc = "qmove" /\ quar[s] = NoDir
    BY <1>6 DEF QMove, At, Phase
  <2>2. quar'[s] = live[s] /\ live'[s] = NoDir /\ job'[p] = Idle
    BY <1>1, <1>2, <1>6, <2>1 DEF QMove, Done
  <2>3. ContentOf(NoDir) = NoIcon
    BY DEF ContentOf
  <2>4. View(job[p], s)' = [listed |-> "deleted", online |-> NoIcon,
                            trash |-> l, history |-> H]
    BY <1>1, <1>2, <2>1, <2>2, <2>3, IdleQuiet, QuietShows DEF View, Plain
  <2> QED BY <1>2, <2>1, <2>4, NothingShows
<1>7. CASE QCheck(p)
  <2>1. job[p].pc = "qcheck" /\ UNCHANGED <<live, quar>>
    BY <1>7 DEF QCheck, At, disk
  <2>2. job[p].op = "restore" /\ reg[s] = "live" /\ quar[s] # NoDir
    BY <2>1, OpAt DEF Phase, Exact
  <2>3. job'[p].op = "restore" /\ job'[p].pc = "clear"
    BY <1>1, <1>7, <2>2 DEF QCheck, Goto, Job
  <2>4. View(job[p], s) = [listed |-> "live", online |-> q, trash |-> NoIcon,
                           history |-> H]
    BY <1>1, <2>2, TrashShows DEF View
  <2>5. View(job[p], s)' = [listed |-> "live", online |-> q, trash |-> NoIcon,
                            history |-> H]
    BY <1>1, <2>1, <2>2, <2>3, TrashShows DEF View, PCs
  <2> QED BY <2>4, <2>5, NothingShows
<1> QED BY <1>4, <1>5, <1>6, <1>7

(* Purge has taken the row before the files: it has had its effect.        *)
LEMMA WipeShows ==
  ASSUME TypeOK, OnRoute, NEW p \in Workers, Phase(p),
         NEW s \in Sites, s = job[p].site, Stepping(p, s), Wipe(p)
  PROVE  UNCHANGED Abstract
<1>1. job \in [Procs -> Job] /\ p \in Procs /\ job[p].pc = "wipe"
  BY DEF TypeOK, JobsOK, Procs, Wipe, At
<1>2. job[p].op = "purge"
  <2>1. p # Janitor
    BY JanitorAssumption
  <2>2. job[p].op # "reap"
    BY <1>1, <2>1 DEF OnRoute, AllOps
  <2> QED BY <1>1, <2>2, OpAt
<1>3. reg[s] = "none"
  BY <1>1, <1>2 DEF Phase
<1>4. job'[p] = Idle /\ UNCHANGED <<reg, live, vers>>
  BY <1>1, <1>2 DEF Wipe, Done, registry
<1>5. Quiet(job[p]) /\ Quiet(job'[p])
  BY <1>2, <1>4, IdleQuiet DEF Quiet
<1> QED BY <1>1, <1>3, <1>4, <1>5, QuietStep

(* The purge loop takes the files first: it takes effect when it wipes     *)
(* them, and the row follows.                                              *)
LEMMA ReapShows ==
  ASSUME TypeOK, OnRoute, JanitorList, NEW s \in Sites, s = job[Janitor].site,
         Stepping(Janitor, s), Wipe(Janitor) \/ DeleteSite
  PROVE  Lifecycle!Next \/ UNCHANGED Abstract
<1> DEFINE l == ContentOf(live[s])
           H == Ordered(Kept(vers[s]))
           x == View(job[Janitor], s)
           y == [listed |-> "none", online |-> l, trash |-> NoIcon,
                 history |-> H]
<1>1. /\ job \in [Procs -> Job] /\ Janitor \in Procs
      /\ reg \in [Sites -> {"none", "live", "deleted"}]
      /\ job[Janitor].pc \in {"wipe", "delete"} /\ UNCHANGED <<live, vers>>
  BY DEF TypeOK, RegistryOK, JobsOK, Procs, Wipe, DeleteSite, At, disk
<1>2. job[Janitor].op = "reap"
  <2>1. job[Janitor].op \in {"none", "reap"}
    BY <1>1 DEF OnRoute
  <2> QED BY <1>1, <2>1, OpAt
<1>3. reg[s] = "deleted"
  BY <1>1 DEF JanitorList, Busy, At
<1>4. CASE Wipe(Janitor)
  <2>1. /\ job[Janitor].pc = "wipe" /\ reg' = reg
        /\ job'[Janitor].op = "reap" /\ job'[Janitor].pc = "delete"
    BY <1>1, <1>2, <1>4 DEF Wipe, At, Goto, Job, registry
  <2>2. x.online = l /\ x.history = H /\ x.listed = "deleted"
        /\ x = [listed |-> x.listed, online |-> x.online,
                trash |-> x.trash, history |-> x.history]
    BY <1>2, <1>3, <2>1, QuietShows DEF View, Plain, Quiet
  <2>3. x' = y
    BY <1>1, <1>3, <2>1, TrashShows DEF View, PCs
  <2>4. Abstract[s] = x /\ Abstract' = [Abstract EXCEPT ![s] = x']
    BY DEF Stepping
  <2> HIDE DEF x
  <2>5. Lifecycle!Purge(s)
    BY <2>2, <2>3, <2>4 DEF Lifecycle!Purge, Lifecycle!Become
  <2> QED BY <2>5 DEF Lifecycle!Next
<1>5. CASE DeleteSite
  <2>1. job[Janitor].pc = "delete" /\ reg'[s] = "none"
    BY <1>1, <1>5 DEF DeleteSite, At, HardDeleteSite
  <2>2. x = y
    BY <1>1, <1>2, <2>1, TrashShows DEF View, PCs
  <2>3. Quiet(job'[Janitor])
    <3>1. job'[Janitor] = Idle \/ (job'[Janitor].pc = "wipe"
                                   /\ job'[Janitor].op = "reap")
      BY <1>1, <1>5, NextListed DEF DeleteSite, TypeOK
    <3> QED BY <3>1, IdleQuiet DEF Quiet
  <2>4. x' = y
    BY <1>1, <2>1, <2>3, QuietShows DEF View, Plain
  <2> QED BY <1>1, <2>2, <2>4, NothingShows
<1> QED BY <1>4, <1>5

(* A directory that is being removed keeps its content to the end.         *)
LEMMA TearingShows ==
  ASSUME TypeOK, StampInv, OnRoute, Sources, TypeOK', StampInv',
         NEW p \in Procs, NEW s \in Sites, s = job[p].site, Stepping(p, s),
         Tear(p)
  PROVE  UNCHANGED Abstract
<1> DEFINE V == vers[s]
           W == vers'[s]
<1>1. /\ reg' = reg /\ job' = job
      /\ ContentOf(live'[s]) = ContentOf(live[s])
      /\ ContentOf(quar'[s]) = ContentOf(quar[s])
      /\ SameVersions(V, W) /\ (At(p, "drop") \/ vers' = vers)
  BY TearShows
<1>2. CASE vers' = vers
  BY <1>1, <1>2, NothingShows DEF View
<1>3. CASE At(p, "drop")
  <2>1. job[p].pc = "drop" /\ job[p].op \in {"publish", "rollbackTo", "rollback"}
    BY <1>3, OpAt DEF At
  <2>2. IsHistory(V) /\ IsHistory(W)
    BY Histories, HistoriesAfter
  <2>3. /\ Superfluous(V) = Superfluous(W) /\ SameVersions(Kept(V), Kept(W))
        /\ IsHistory(Kept(V)) /\ IsHistory(Kept(W))
    BY <1>1, <2>2, SameHistory, PartOfHistory DEF Kept
  <2>4. Ordered(Kept(V)) = Ordered(Kept(W))
    BY <2>3, SameHistory
  <2>5. ASSUME job[p].op = "rollback"
        PROVE  LET u == Source(job[p], V)
                   v == Source(job'[p], W)
               IN  /\ v.dir.c = u.dir.c
                   /\ Ordered(Kept(W) \ {v}) = Ordered(Kept(V) \ {u})
    <3>1. job[p].src \in StampsOf(V)
      BY <2>1, <2>5 DEF Sources, SourceKept, Displacing, Stamps, StampsOf
    <3>2. PICK u \in V : u.stamp = job[p].src
      BY <3>1 DEF StampsOf
    <3>3. PICK v \in W : v.stamp = job[p].src
      BY <1>1, <3>1 DEF SameVersions, StampsOf
    <3>4. Source(job[p], V) = u /\ Source(job'[p], W) = v
      BY <1>1, <2>2, <3>2, <3>3 DEF Source, IsHistory
    <3>5. v.dir.c = u.dir.c
      BY <1>1, <3>2, <3>3 DEF SameVersions
    <3>6. SameVersions(Kept(V) \ {u}, Kept(W) \ {v})
      <4>1. /\ \A n : n \in StampsOf(Kept(V) \ {u})
                        <=> n \in StampsOf(Kept(V)) /\ n # u.stamp
            /\ \A n : n \in StampsOf(Kept(W) \ {v})
                        <=> n \in StampsOf(Kept(W)) /\ n # v.stamp
        BY <2>2, <3>2, <3>3 DEF IsHistory, StampsOf, Kept
      <4>2. StampsOf(Kept(V) \ {u}) = StampsOf(Kept(W) \ {v})
        BY <2>3, <3>2, <3>3, <4>1 DEF SameVersions
      <4> QED BY <2>3, <4>2 DEF SameVersions
    <3>7. IsHistory(Kept(V) \ {u}) /\ IsHistory(Kept(W) \ {v})
      BY <2>3, PartOfHistory
    <3>8. Ordered(Kept(V) \ {u}) = Ordered(Kept(W) \ {v})
      BY <3>6, <3>7, SameHistory
    <3> QED BY <3>4, <3>5, <3>8
  <2>6. job[p].pc \in Displaced
    BY <2>1 DEF Displaced
  <2> QED BY <1>1, <2>1, <2>4, <2>5, <2>6, PruningShows
<1> QED BY <1>1, <1>2, <1>3

-----------------------------------------------------------------------------
(* The requests: those that begin with their row take effect at once, and  *)
(* the others have not been seen yet.                                      *)
LEMMA BeginShows ==
  ASSUME TypeOK, NEW w \in Workers, job[w] = Idle,
         NEW s \in Sites, Stepping(w, s),
         \/ \E c \in Contents : BeginPublish(w, s, c)
         \/ \E v \in vers[s] : BeginRollbackTo(w, s, v)
         \/ \E v \in vers[s] : BeginRollback(w, s, v)
         \/ BeginUnpublish(w, s) \/ BeginRestore(w, s)
         \/ BeginPurge(w, s) \/ BeginFavicons(w, s)
  PROVE  Lifecycle!Next \/ UNCHANGED Abstract
<1> DEFINE l == ContentOf(live[s])
           q == ContentOf(quar[s])
           H == Ordered(Kept(vers[s]))
           x == View(job[w], s)
<1>1. /\ job \in [Procs -> Job] /\ w \in Procs
      /\ reg \in [Sites -> {"none", "live", "deleted"}]
  BY DEF TypeOK, RegistryOK, JobsOK, Procs
<1>2. UNCHANGED <<live, quar, vers>>
  BY DEF BeginPublish, BeginRollbackTo, BeginRollback, BeginUnpublish,
     BeginRestore, BeginPurge, BeginFavicons, disk
<1>3. /\ x.listed = reg[s] /\ x.online = l /\ x.history = H
      /\ x.trash = IF reg[s] = "deleted" THEN q ELSE NoIcon
      /\ x = [listed |-> x.listed, online |-> x.online,
              trash |-> x.trash, history |-> x.history]
  BY IdleQuiet, QuietShows DEF View, Plain
<1>4. Abstract[s] = x /\ Abstract' = [Abstract EXCEPT ![s] = x']
  BY DEF Stepping
<1> HIDE DEF x, l, q, H
<1>5. CASE \/ \E c \in Contents : BeginPublish(w, s, c)
           \/ \E v \in vers[s] : BeginRollbackTo(w, s, v)
           \/ \E v \in vers[s] : BeginRollback(w, s, v)
           \/ BeginFavicons(w, s)
  <2>1. /\ job'[w].op \notin {"unpublish", "restore", "reap"}
        /\ job'[w].pc \in {"stat", "rbstat", "detect"} /\ reg' = reg
    <3>1. CASE \E c \in Contents : BeginPublish(w, s, c)
      <4>1. job'[w].op = "publish" /\ job'[w].pc = "stat"
        BY <1>1, <3>1 DEF BeginPublish, Idle
      <4>2. reg' = reg
        BY <3>1 DEF BeginPublish, registry
      <4> QED BY <4>1, <4>2
    <3>2. CASE \E v \in vers[s] : BeginRollbackTo(w, s, v)
      <4>1. job'[w].op = "rollbackTo" /\ job'[w].pc = "stat"
        BY <1>1, <3>2 DEF BeginRollbackTo, Idle
      <4>2. reg' = reg
        BY <3>2 DEF BeginRollbackTo, registry
      <4> QED BY <4>1, <4>2
    <3>3. CASE \E v \in vers[s] : BeginRollback(w, s, v)
      <4>1. job'[w].op = "rollback" /\ job'[w].pc = "rbstat"
        BY <1>1, <3>3 DEF BeginRollback, Idle
      <4>2. reg' = reg
        BY <3>3 DEF BeginRollback, registry
      <4> QED BY <4>1, <4>2
    <3>4. CASE BeginFavicons(w, s)
      <4>1. job'[w].op = "favicons" /\ job'[w].pc = "detect"
        BY <1>1, <3>4 DEF BeginFavicons, Idle
      <4>2. reg' = reg
        BY <3>4 DEF BeginFavicons, registry
      <4> QED BY <4>1, <4>2
    <3> QED BY <1>5, <3>1, <3>2, <3>3, <3>4
  <2>2. Quiet(job'[w]) /\ Quiet(job[w])
    BY <2>1, IdleQuiet DEF Quiet, Catching, Displaced
  <2> QED BY <1>1, <1>2, <2>1, <2>2, QuietStep
<1>6. CASE BeginUnpublish(w, s)
  <2>1. /\ reg[s] = "live" /\ reg'[s] = "deleted"
        /\ job'[w].op = "unpublish" /\ job'[w].pc = "qstat"
    BY <1>1, <1>6 DEF BeginUnpublish, SoftDeleteSite, Idle
  <2>2. x' = [listed |-> "deleted", online |-> NoIcon, trash |-> l,
              history |-> H]
    BY <1>2, <2>1, TrashShows DEF View, PCs, x, l, q, H
  <2>3. Lifecycle!Unpublish(s)
    BY <1>3, <1>4, <2>1, <2>2 DEF Lifecycle!Unpublish, Lifecycle!Become
  <2> QED BY <2>3 DEF Lifecycle!Next
<1>7. CASE BeginRestore(w, s)
  <2>1. /\ reg[s] = "deleted" /\ reg'[s] = "live"
        /\ job'[w].op = "restore" /\ job'[w].pc = "qcheck"
    BY <1>1, <1>7 DEF BeginRestore, RestoreSite, Idle
  <2>2. x' = [listed |-> "live", online |-> q, trash |-> NoIcon,
              history |-> H]
    BY <1>2, <2>1, TrashShows DEF View, PCs, x, l, q, H
  <2>3. Lifecycle!Restore(s)
    BY <1>3, <1>4, <2>1, <2>2 DEF Lifecycle!Restore, Lifecycle!Become
  <2> QED BY <2>3 DEF Lifecycle!Next
<1>8. CASE BeginPurge(w, s)
  <2>1. /\ reg[s] = "deleted" /\ reg'[s] = "none"
        /\ job'[w].op = "purge"
    BY <1>1, <1>8 DEF BeginPurge, PurgeDeletedSite, HardDeleteSite, Idle
  <2>2. x' = [listed |-> "none", online |-> l, trash |-> NoIcon,
              history |-> H]
    BY <1>2, <2>1, QuietShows DEF View, Plain, Quiet, x, l, q, H
  <2>3. Lifecycle!Purge(s)
    BY <1>3, <1>4, <2>1, <2>2 DEF Lifecycle!Purge, Lifecycle!Become
  <2> QED BY <2>3 DEF Lifecycle!Next
<1> QED BY <1>5, <1>6, <1>7, <1>8

(* A step of a request that works alone.                                   *)
LEMMA WorkShows ==
  ASSUME SoloDeployment, LifeInv, NEW w \in Workers, WorkerStep(w), Alone(w),
         NEW s \in Sites, s = job[w].site, Stepping(w, s)
  PROVE  Lifecycle!Next \/ UNCHANGED Abstract
<1>1. /\ w \in Procs /\ Phase(w)
      /\ TypeOK /\ StampInv /\ OnRoute /\ Trimmed /\ Targets /\ Latest /\ Sources
  BY DEF LifeInv, SerialInv, Phases, Procs
<1>2. CASE Stat(w)
  BY <1>1, <1>2, StatShows
<1>3. CASE TakeStamp(w)
  BY <1>1, <1>3, StampShows
<1>4. CASE Archive(w)
  BY <1>1, <1>4, ArchiveShows DEF SoloDeployment
<1>5. CASE Prune(w)
  BY <1>1, <1>5, PruneShows
<1>6. CASE Drop(w)
  BY <1>1, <1>6, DropShows
<1>7. CASE Clear(w)
  BY <1>1, <1>7, ClearShows
<1>8. CASE SwapIn(w)
  BY <1>1, <1>8, SwapInShows
<1>9. CASE RollbackIn(w)
  BY <1>1, <1>9, RollbackInShows
<1>10. CASE RestoreIn(w)
  BY <1>1, <1>10, RestoreInShows
<1>11. CASE \/ MeasureLive(w) \/ Upsert(w) \/ Touch(w) \/ Reread(w)
            \/ Resize(w) \/ Detect(w) \/ Compare(w) \/ SetIcon(w)
  BY <1>1, <1>11, RegistryShows
<1>12. CASE QStat(w) \/ QClear(w) \/ QMove(w) \/ QCheck(w)
  BY <1>1, <1>12, QuarantineShows
<1>13. CASE Wipe(w)
  BY <1>1, <1>13, WipeShows
<1> QED BY <1>2, <1>3, <1>4, <1>5, <1>6, <1>7, <1>8, <1>9, <1>10, <1>11,
           <1>12, <1>13 DEF WorkerStep

-----------------------------------------------------------------------------
(* Nothing is seen of a step that leaves row, directories, versions and    *)
(* jobs alone.                                                             *)
LEMMA StillShows ==
  ASSUME NEW p \in Procs, Alone(p), NEW s \in Sites,
         job[p].site = s \/ Quiet(job[p]),
         UNCHANGED <<reg, live, quar, vers, job>>
  PROVE  UNCHANGED Abstract
<1>1. Alone(p)'
  BY DEF Alone
<1>2. Stepping(p, s)
  BY <1>1, OneSite DEF Stepping
<1>3. View(job[p], s)' = View(job[p], s)
  BY DEF View
<1> QED BY <1>2, <1>3, NothingShows

(* With a process at work, a step is one of the abstract ones or none.     *)
LEMMA BusyStepShows ==
  ASSUME SoloDeployment, LifeInv, LifeInv', [Next]_vars,
         NEW p \in Procs, Busy(p)
  PROVE  Lifecycle!Next \/ UNCHANGED Abstract
<1>1. /\ TypeOK /\ StampInv /\ OneAtATime /\ OnRoute /\ Rested /\ Sources
      /\ JanitorList /\ TypeOK' /\ StampInv'
  BY DEF LifeInv, SerialInv
<1>2. Alone(p)
  BY <1>1, OthersIdle DEF Alone, Rested
<1>3. PICK s \in Sites : s = job[p].site
  BY <1>1 DEF Busy, TypeOK, JobsOK
<1>4. ASSUME \/ p \in Workers /\ WorkerStep(p)
             \/ p = Janitor /\ (Wipe(Janitor) \/ DeleteSite)
             \/ Tear(p)
      PROVE  Stepping(p, s)
  <2>1. \A t \in Sites : t # s => /\ reg'[t] = reg[t] /\ live'[t] = live[t]
                                  /\ quar'[t] = quar[t] /\ vers'[t] = vers[t]
    BY <1>1, <1>3, <1>4, OwnSiteOnly, OwnHistoryOnly
  <2>2. /\ \A q \in Procs : q # p => job'[q] = job[q]
        /\ job'[p].site = s \/ Quiet(job'[p])
    <3>1. job \in [Procs -> Job]
      BY <1>1 DEF TypeOK, JobsOK
    <3>2. CASE p \in Workers /\ WorkerStep(p)
      BY <1>1, <1>3, <3>2, ControlFlow, IdleQuiet DEF Continues
    <3>3. CASE p = Janitor /\ Wipe(Janitor)
      BY <1>3, <3>1, <3>3, IdleQuiet DEF Wipe, Goto, Done, Job
    <3>4. CASE p = Janitor /\ DeleteSite
      <4>1. /\ \/ job'[p] = Idle
               \/ job'[p].pc = "wipe" /\ job'[p].op = "reap"
            /\ \A q \in Procs : q # p => job'[q] = job[q]
        BY <1>1, <3>4, NextListed DEF DeleteSite, TypeOK
      <4> QED BY <4>1, IdleQuiet DEF Quiet
    <3>5. CASE Tear(p)
      BY <1>3, <3>5 DEF Tear
    <3> QED BY <1>4, <3>2, <3>3, <3>4, <3>5
  <2>3. Alone(p)'
    BY <1>2, <2>2 DEF Alone
  <2> QED BY <1>2, <1>3, <2>1, <2>2, <2>3, OneSite DEF Stepping
<1>5. CASE p \in Workers /\ WorkerStep(p)
  BY <1>2, <1>3, <1>4, <1>5, WorkShows
<1>6. CASE p = Janitor /\ (Wipe(Janitor) \/ DeleteSite)
  BY <1>1, <1>3, <1>4, <1>6, ReapShows
<1>7. CASE Tear(p)
  BY <1>1, <1>3, <1>4, <1>7, TearingShows
<1>8. CASE (\E t \in Sites : Expire(t)) \/ UNCHANGED vars
  <2>1. UNCHANGED <<reg, live, quar, vers, job>>
    BY <1>8 DEF Expire, disk, vars
  <2> QED BY <1>2, <1>3, <2>1, StillShows
<1>9. Serial = TRUE /\ Faults = FALSE
  BY DEF SoloDeployment
<1> QED BY <1>1, <1>5, <1>6, <1>7, <1>8, <1>9, SoloStep

(* The same when no process is at work.                                    *)
LEMMA RestingStepShows ==
  ASSUME SoloDeployment, LifeInv, [Next]_vars, AllIdle
  PROVE  Lifecycle!Next \/ UNCHANGED Abstract
<1>1. /\ TypeOK /\ Rested /\ Janitor \in Procs /\ Workers \subseteq Procs
      /\ \A s \in Sites : Below[s] = {s} /\ Consistent(s)
  BY DEF LifeInv, SerialInv, SoloDeployment, Elsewhere, Busy, AllIdle, Procs
<1>2. \A p \in Procs : job[p] = Idle /\ Alone(p)
  BY <1>1 DEF Rested, AllIdle, Alone
<1>3. ASSUME NEW w \in Workers, Begin(w)
      PROVE  Lifecycle!Next \/ UNCHANGED Abstract
  <2>1. PICK s \in Sites :
          \/ \E c \in Contents : BeginPublish(w, s, c)
          \/ \E v \in vers[s] : BeginRollbackTo(w, s, v)
          \/ \E v \in vers[s] : BeginRollback(w, s, v)
          \/ BeginUnpublish(w, s) \/ BeginRestore(w, s)
          \/ BeginPurge(w, s) \/ BeginFavicons(w, s)
    BY <1>3 DEF Begin
  <2>2. Alone(w)'
    BY <1>1, <1>2, <1>3, BeginJob DEF Alone
  <2>3. UNCHANGED <<live, quar, vers>>
    BY <1>1, <1>3, BeginJob DEF disk
  <2>4. job'[w].site = s /\ \A t \in Sites : t # s => reg'[t] = reg[t]
    <3>1. job \in [Procs -> Job] /\ w \in Procs
          /\ reg \in [Sites -> {"none", "live", "deleted"}]
      BY <1>1 DEF TypeOK, JobsOK, RegistryOK
    <3>2. CASE \E c \in Contents : BeginPublish(w, s, c)
      BY <3>1, <3>2 DEF BeginPublish, Idle, registry
    <3>3. CASE \E v \in vers[s] : BeginRollbackTo(w, s, v)
      BY <3>1, <3>3 DEF BeginRollbackTo, Idle, registry
    <3>4. CASE \E v \in vers[s] : BeginRollback(w, s, v)
      BY <3>1, <3>4 DEF BeginRollback, Idle, registry
    <3>5. CASE BeginUnpublish(w, s)
      BY <3>1, <3>5 DEF BeginUnpublish, SoftDeleteSite, Idle
    <3>6. CASE BeginRestore(w, s)
      BY <3>1, <3>6 DEF BeginRestore, RestoreSite, Idle
    <3>7. CASE BeginPurge(w, s)
      BY <3>1, <3>7 DEF BeginPurge, PurgeDeletedSite, HardDeleteSite, Idle
    <3>8. CASE BeginFavicons(w, s)
      BY <3>1, <3>8 DEF BeginFavicons, Idle, registry
    <3> QED BY <2>1, <3>2, <3>3, <3>4, <3>5, <3>6, <3>7, <3>8
  <2>5. Stepping(w, s)
    BY <1>1, <1>2, <2>2, <2>3, <2>4, IdleQuiet, OneSite DEF Stepping
  <2> QED BY <1>1, <1>2, <2>1, <2>5, BeginShows
<1>4. CASE Sites = {}
  <2>1. Abstract = Abstract'
    BY <1>4 DEF Abstract
  <2> QED BY <2>1
<1>5. ASSUME NEW s \in Sites, UNCHANGED <<reg, live, quar, vers>>,
             Alone(Janitor)', Quiet(job'[Janitor])
      PROVE  UNCHANGED Abstract
  <2>1. Quiet(job[Janitor]) /\ Alone(Janitor)
    BY <1>1, <1>2, IdleQuiet
  <2>2. Stepping(Janitor, s)
    BY <1>1, <1>5, <2>1, OneSite DEF Stepping
  <2> QED BY <1>1, <1>5, <2>1, <2>2, QuietStep
<1>6. CASE BeginReap
  <2>1. Alone(Janitor)' /\ Quiet(job'[Janitor])
    <3>1. /\ \/ job'[Janitor] = Idle
             \/ job'[Janitor].pc = "wipe" /\ job'[Janitor].op = "reap"
          /\ \A q \in Procs : q # Janitor => job'[q] = job[q]
      BY <1>1, <1>6, NextListed DEF BeginReap, TypeOK
    <3> QED BY <1>2, <3>1, IdleQuiet DEF Quiet, Alone
  <2> QED BY <1>4, <1>5, <1>6, <2>1 DEF BeginReap, registry, disk
<1>7. CASE Restart
  <2>1. Alone(Janitor)' /\ Quiet(job'[Janitor])
    BY <1>1, <1>7, IdleQuiet DEF Restart, Alone
  <2>2. UNCHANGED <<reg, live, quar, vers>>
    BY <1>1, <1>7, RestartChangesNothing DEF Restart, disk
  <2> QED BY <1>4, <1>5, <2>1, <2>2
<1>8. CASE (\E s \in Sites : Expire(s)) \/ UNCHANGED vars
  <2>1. UNCHANGED <<reg, live, quar, vers, job>>
    BY <1>8 DEF Expire, disk, vars
  <2>2. Alone(Janitor)' /\ Quiet(job'[Janitor])
    BY <1>1, <1>2, <2>1, IdleQuiet DEF Alone
  <2> QED BY <1>4, <1>5, <2>1, <2>2
<1>9. Faults = FALSE
  BY DEF SoloDeployment
<1> QED BY <1>3, <1>6, <1>7, <1>8, <1>9, RestingStep

(* PublisherSerial: run one at a time with no failing call, the many-step  *)
(* operations of internal/ingest are indistinguishable from the atomic     *)
(* ones. What visitors see, what Restore would bring back and what a       *)
(* rollback can reach are at every moment those of SiteLifecycle, however  *)
(* many sites there are and whatever the purge loop, restarts and pruning  *)
(* do in between. A rollback to the newest version needs Keep >= 2, or it  *)
(* could prune its own choice; no site is nested under another, or the     *)
(* sizes of BackfillSizes would not be those of Consistent.                *)
THEOREM OperationsAreAtomic ==
  ASSUME SoloDeployment
  PROVE  Spec => Implements
<1>1. ASSUME Init
      PROVE  Abstract = [s \in Sites |-> Lifecycle!Fresh]
  <2>1. Janitor \in Procs /\ Alone(Janitor) /\ job[Janitor].site \notin Sites
    BY <1>1, NoneAssumption DEF Init, Procs, Alone, Idle
  <2>2. ASSUME NEW s \in Sites
        PROVE  Abstract[s] = Lifecycle!Fresh
    <3>1. Abstract[s] = View(Idle, s)
      BY <2>1, ReadingHolds DEF Reading
    <3>2. View(Idle, s) = Plain("none", NoIcon, NoIcon, {})
      BY <1>1, IdleQuiet, QuietShows DEF View, Init, ContentOf
    <3>3. Ordered(Kept({})) = << >>
      <4>1. Kept({}) = {} /\ IsHistory({}) /\ StampsOf({}) = {}
        BY FS_EmptySet DEF Kept, IsHistory, StampsOf
      <4>2. /\ Ordered({}) \in Seq(Contents)
            /\ Len(Ordered({})) = Cardinality({})
        BY <4>1, OrderedAt
      <4>3. Cardinality({}) = 0
        BY FS_EmptySet
      <4>4. ASSUME NEW q \in Seq(Contents), Len(q) = 0
            PROVE  q = << >>
        BY <4>4, EmptySeq
      <4>5. Ordered({}) = << >>
        BY <4>2, <4>3, <4>4
      <4> QED BY <4>1, <4>5
    <3> QED BY <3>1, <3>2, <3>3 DEF Plain, Lifecycle!Fresh
  <2>3. Abstract = [s \in Sites |-> Abstract[s]]
    BY DEF Abstract
  <2> QED BY <2>2, <2>3
<1>2. Init => Lifecycle!Init
  BY <1>1 DEF Lifecycle!Init
<1>3. LifeInv /\ LifeInv' /\ [Next]_vars => [Lifecycle!Next]_Abstract
  <2> SUFFICES ASSUME LifeInv, LifeInv', [Next]_vars
               PROVE  Lifecycle!Next \/ UNCHANGED Abstract
    OBVIOUS
  <2>1. CASE AllIdle
    BY <2>1, RestingStepShows
  <2>2. CASE ~AllIdle
    <3>1. PICK p \in Procs : Busy(p)
      BY <2>2 DEF AllIdle, Busy
    <3> QED BY <3>1, BusyStepShows
  <2> QED BY <2>1, <2>2
<1>4. /\ Init => LifeInv
      /\ LifeInv /\ [Next]_vars => LifeInv'
  BY LifeInvariant
<1> QED BY <1>2, <1>3, <1>4, PTL DEF Spec, Implements, Lifecycle!Spec
=============================================================================
