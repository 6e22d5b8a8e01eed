---------------------------- MODULE SiteLifecycle ----------------------------
(***************************************************************************)
(* What the publisher promises about a site, with no directories, no rows  *)
(* and no intermediate steps: every operation of internal/ingest is one    *)
(* atomic change of the site's state. Publisher implements it as long as   *)
(* operations do not overlap and no call fails (module PublisherSerial).   *)
(***************************************************************************)
EXTENDS Naturals, Sequences

CONSTANTS Sites, Contents, Nothing,
          Versioning, Keep   \* how many archived versions a site retains

VARIABLE site

(* What a site is to its visitors and to its owner.                        *)
State == [listed  : {"none", "live", "deleted"},  \* how the registry lists it
          online  : Contents \union {Nothing},    \* what visitors get
          trash   : Contents \union {Nothing},    \* what Restore would bring
          history : Seq(Contents)]                \* archived, oldest first

Fresh == [listed |-> "none", online |-> Nothing, trash |-> Nothing,
          history |-> << >>]

LastN(h, n) == IF Len(h) <= n THEN h ELSE SubSeq(h, Len(h) - n + 1, Len(h))

(* The history once the content that is online has been displaced.         *)
Archived(x) ==
  IF Versioning /\ x.online # Nothing
  THEN LastN(Append(x.history, x.online), Keep) ELSE x.history

(* Content that a rollback brings online lists a known site again.         *)
Relisted(x) == IF x.listed = "none" THEN "none" ELSE "live"

Become(s, x) == site' = [site EXCEPT ![s] = x]

Publish(s, c) ==
  Become(s, [listed |-> "live", online |-> c, trash |-> Nothing,
             history |-> Archived(site[s])])

Unpublish(s) ==
  /\ site[s].listed = "live"
  /\ Become(s, [site[s] EXCEPT !.listed = "deleted", !.online = Nothing,
                               !.trash = site[s].online])

Restore(s) ==
  /\ site[s].listed = "deleted"
  /\ Become(s, [site[s] EXCEPT !.listed = "live", !.trash = Nothing,
                               !.online = site[s].trash])

(* By request, or because the retention period is over.                    *)
Purge(s) ==
  /\ site[s].listed = "deleted"
  /\ Become(s, [site[s] EXCEPT !.listed = "none", !.trash = Nothing])

(* A copy of any retained version goes online; all versions stay.          *)
RollbackTo(s, i) ==
  /\ Versioning
  /\ Become(s, [listed |-> Relisted(site[s]), online |-> site[s].history[i],
                trash |-> Nothing, history |-> Archived(site[s])])

(* The newest version itself goes online: it leaves the history. What was  *)
(* online joins it first, which must leave room for the newest version.    *)
Rollback(s) ==
  LET h == site[s].history
      displaced == Archived(site[s])
      place == IF site[s].online = Nothing THEN Len(displaced)
                                           ELSE Len(displaced) - 1
  IN  /\ Versioning /\ h # << >>
      /\ Keep > 1 \/ site[s].online = Nothing
      /\ Become(s, [listed |-> Relisted(site[s]), online |-> h[Len(h)],
                    trash |-> Nothing,
                    history |-> SubSeq(displaced, 1, place - 1) \o
                                SubSeq(displaced, place + 1, Len(displaced))])

(* With one version kept there is no room: archiving what was online prunes*)
(* the version the rollback has chosen. It fails and leaves nothing online.*)
FailedRollback(s) ==
  /\ Versioning /\ site[s].history # << >>
  /\ Keep = 1 /\ site[s].online # Nothing
  /\ Become(s, [site[s] EXCEPT !.online = Nothing,
                               !.history = Archived(site[s])])

Init == site = [s \in Sites |-> Fresh]

Next ==
  \E s \in Sites :
    \/ \E c \in Contents : Publish(s, c)
    \/ \E i \in DOMAIN site[s].history : RollbackTo(s, i)
    \/ Rollback(s) \/ FailedRollback(s)
    \/ Unpublish(s) \/ Restore(s) \/ Purge(s)

Spec == Init /\ [][Next]_site
=============================================================================
