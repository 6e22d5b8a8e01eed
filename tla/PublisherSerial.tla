--------------------------- MODULE PublisherSerial ---------------------------
(***************************************************************************)
(* Publisher implements SiteLifecycle when operations run one at a time    *)
(* and no call fails. The abstract state of a site is read off the rows    *)
(* and directories, and off the one running operation: an operation takes  *)
(* effect at the step that displaces what was online (Archive, Clear, or   *)
(* the Stat that found nothing), or at its registry call when that comes   *)
(* first (Unpublish, Restore, Purge), or when the purge loop wipes the     *)
(* quarantine; the steps after it catch up.                                *)
(***************************************************************************)
EXTENDS Publisher, Sequences

(* The running operation, if it is on site s.                              *)
On(s, ops, pcs) ==
  \E p \in Procs : job[p].site = s /\ job[p].op \in ops /\ job[p].pc \in pcs

Runner(s) == CHOOSE p \in Procs : job[p].site = s

Displaced == {"prune", "drop", "movein"}
Catching  == Displaced \union {"measure", "upsert", "touch"}

ListedAs(s) ==
  IF On(s, {"publish"}, Catching) THEN "live"
  ELSE IF On(s, {"rollback", "rollbackTo"}, Catching) /\ reg[s] = "deleted"
  THEN "live"
  ELSE IF On(s, {"reap"}, {"delete"}) THEN "none"
  ELSE reg[s]

ContentOf(d) == IF d = NoDir THEN NoIcon ELSE d.c

Chosen(s) == CHOOSE v \in vers[s] : v.stamp = job[Runner(s)].src

Online(s) ==
  IF On(s, {"publish", "rollbackTo"}, Displaced)
  THEN ContentOf(job[Runner(s)].stage)
  ELSE IF On(s, {"rollback"}, Displaced) THEN Chosen(s).dir.c
  ELSE IF On(s, {"unpublish"}, PCs) THEN NoIcon
  ELSE IF On(s, {"restore"}, PCs) THEN ContentOf(quar[s])
  ELSE ContentOf(live[s])

Trash(s) ==
  IF ListedAs(s) # "deleted" THEN NoIcon
  ELSE IF On(s, {"unpublish"}, PCs) THEN ContentOf(live[s])
  ELSE ContentOf(quar[s])

(* The retained versions, oldest first.                                    *)
Ordered(V) ==
  LET Rank(v) == Cardinality({u \in V : u.stamp <= v.stamp})
  IN  [i \in 1 .. Cardinality(V) |-> (CHOOSE v \in V : Rank(v) = i).dir.c]

Retained(s) == {v \in vers[s] : v.stamp \notin Superfluous(vers[s])}

History(s) ==
  IF On(s, {"rollback"}, Displaced)
  THEN Ordered(Retained(s) \ {Chosen(s)}) ELSE Ordered(Retained(s))

Abstract == [s \in Sites |-> [listed |-> ListedAs(s), online |-> Online(s),
                              trash |-> Trash(s), history |-> History(s)]]

Lifecycle == INSTANCE SiteLifecycle WITH site <- Abstract, Nothing <- NoIcon

(* Run one at a time, the many-step operations are indistinguishable from  *)
(* the atomic ones: what visitors see, what Restore would bring back and   *)
(* what a rollback can reach are at every moment those of SiteLifecycle.   *)
Implements == Lifecycle!Spec
=============================================================================
