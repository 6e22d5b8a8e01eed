-------------------------------- MODULE Portal --------------------------------
(***************************************************************************)
(* What visitors and the portal make of the sites that requests have       *)
(* published: the host names they are served under, and the tree they are  *)
(* listed in.                                                              *)
(***************************************************************************)
EXTENDS Access, GroupTree

Listed == {d \in SitePath : site[d].listed = "live"}

(* "Strip the configured base domain from a host": every listed site is    *)
(* what its host name serves, under the canonical domain and each alias,   *)
(* unless the name lies under a longer domain of the instance as well.     *)
SitesReachable ==
  \A d \in Listed, b \in Domains :
    LET host == Host(d, b)
    IN  (\A c \in Under(host) : Len(c) <= Len(b)) => Served(host) = d

(* Whatever sites a query finds and whatever order the map is gone         *)
(* through in, the tree shows each of them once: as the landing site of    *)
(* its own group if there is one, and else as a card in its group.         *)
TreeShowsEachSiteOnce ==
  \A found \in SUBSET Listed : \A order \in Orders(found) :
    LET tree == BuildTree(found, order)
    IN  \A d \in found :
          /\ Appearances(tree, d) = 1
          /\ d \in DOMAIN tree => tree[d].site = d
=============================================================================
