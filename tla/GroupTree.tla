------------------------------ MODULE GroupTree ------------------------------
(***************************************************************************)
(* The tree of groups the portal shows for a list of sites (BuildTree of   *)
(* internal/api/tree.go). The list is what a query found, so any set of    *)
(* sites; the second pass goes over a Go map, so in any order.             *)
(***************************************************************************)
EXTENDS SitePaths

Parent(p) == SubSeq(p, 1, Len(p) - 1)

(* The nodes: the groups of the sites and their ancestors, and the root.   *)
Nodes(sites) == {<< >>} \union UNION {Prefixes(Parent(d)) : d \in sites}

(* Every site in its group; no node has a site of its own yet.             *)
Placed(sites) ==
  [p \in Nodes(sites) |-> [sites |-> {d \in sites : Parent(d) = p},
                           site  |-> NoSite]]

(* Mutant: the landing site remains a card of its parent.                  *)
LandTwice(tree, p) ==
  IF p \in tree[Parent(p)].sites
  THEN [tree EXCEPT ![p].site = p] ELSE tree

(* A site with the path of a group becomes that group's landing site.      *)
Land(tree, p) ==
  IF p \in tree[Parent(p)].sites
  THEN [tree EXCEPT ![p].site = p, ![Parent(p)].sites = @ \ {p}] ELSE tree

BuildTree(sites, order) == FoldLeft(Land, Placed(sites), order)

(* The pass over the index leaves out the root.                            *)
Orders(sites) == SetToSeqs(Nodes(sites) \ {<< >>})

-----------------------------------------------------------------------------
(* Where a tree shows a site: as a card of a node, or as its landing site. *)
Cards(tree, d)    == {p \in DOMAIN tree : d \in tree[p].sites}
Landings(tree, d) == {p \in DOMAIN tree : tree[p].site = d}
Appearances(tree, d) ==
  Cardinality(Cards(tree, d)) + Cardinality(Landings(tree, d))
=============================================================================
