---------------------------- MODULE MigrateProofs ----------------------------
(***************************************************************************)
(* Proved of Migrate and Volume, for any registry and any volume: no run   *)
(* loses or misplaces a file, one that completes has moved everything, and *)
(* the server then offers the files of a site that were there before.      *)
(***************************************************************************)
EXTENDS Volume, ReadFileProofs

Path == Seq(Names)

-----------------------------------------------------------------------------
(* Paths, name by name.                                                    *)

LEMMA Prefix ==
  ASSUME NEW p \in Path, NEW q \in Path
  PROVE  IsPrefix(p, q) <=>
         Len(p) <= Len(q) /\ \A i \in 1..Len(p) : p[i] = q[i]
<1>1. Len(p) \in Nat /\ Len(q) \in Nat
  BY DEF Path
<1>2. SubSeq(p, 1, Len(p)) = p
  BY SubSeqFull DEF Path
<1>3. ASSUME Len(p) <= Len(q)
      PROVE  /\ SubSeq(q, 1, Len(p)) \in Path
             /\ Len(SubSeq(q, 1, Len(p))) = Len(p)
             /\ \A i \in 1..Len(p) : SubSeq(q, 1, Len(p))[i] = q[i]
  BY <1>1, <1>3 DEF Path
<1>4. ASSUME IsPrefix(p, q), NEW i \in 1..Len(p) PROVE p[i] = q[i]
  BY <1>2, <1>3, <1>4 DEF IsPrefix
<1>5. ASSUME Len(p) <= Len(q), \A i \in 1..Len(p) : p[i] = q[i]
      PROVE  IsPrefix(p, q)
  <2>1. SubSeq(q, 1, Len(p)) = p
    BY <1>3, <1>5, SeqEqual DEF Path
  <2> QED BY <1>2, <1>5, <2>1 DEF IsPrefix
<1> QED BY <1>4, <1>5 DEF IsPrefix

LEMMA StrictPrefix ==
  ASSUME NEW p \in Path, NEW q \in Path
  PROVE  IsStrictPrefix(p, q) <=>
         Len(p) < Len(q) /\ \A i \in 1..Len(p) : p[i] = q[i]
<1>1. Len(p) \in Nat /\ Len(q) \in Nat
  BY DEF Path
<1>2. ASSUME Len(p) = Len(q), \A i \in 1..Len(p) : p[i] = q[i]
      PROVE  p = q
  BY <1>2, SeqEqual DEF Path
<1> QED BY <1>1, <1>2, Prefix DEF IsStrictPrefix

LEMMA Appended ==
  ASSUME NEW p \in Path, NEW n \in Names
  PROVE  /\ Append(p, n) \in Path /\ Len(Append(p, n)) = Len(p) + 1
         /\ \A i \in 1..Len(p) : Append(p, n)[i] = p[i]
         /\ Append(p, n)[Len(p) + 1] = n
BY AppendProperties DEF Path

LEMMA InLeaf ==
  ASSUME NEW p \in Path, NEW n \in Names
  PROVE  /\ p \o <<Leaf, n>> \in Path /\ Len(p \o <<Leaf, n>>) = Len(p) + 2
         /\ \A i \in 1..Len(p) : (p \o <<Leaf, n>>)[i] = p[i]
         /\ (p \o <<Leaf, n>>)[Len(p) + 1] = Leaf
         /\ (p \o <<Leaf, n>>)[Len(p) + 2] = n
<1>1. <<Leaf, n>> \in Path /\ Len(<<Leaf, n>>) = 2 /\ Len(p) \in Nat
  BY MigrateAssumption DEF Path
<1> DEFINE r == p \o <<Leaf, n>>
<1>2. /\ r \in Path /\ Len(r) = Len(p) + 2
      /\ \A i \in 1..Len(p) + 2 :
           r[i] = IF i <= Len(p) THEN p[i] ELSE <<Leaf, n>>[i - Len(p)]
  BY <1>1, ConcatProperties DEF Path
<1> HIDE DEF r
<1>3. \A i \in 1..Len(p) : r[i] = p[i]
  BY <1>1, <1>2
<1>4. r[Len(p) + 1] = <<Leaf, n>>[1] /\ r[Len(p) + 2] = <<Leaf, n>>[2]
  BY <1>1, <1>2
<1>5. <<Leaf, n>>[1] = Leaf /\ <<Leaf, n>>[2] = n
  OBVIOUS
<1>6. r \in Path /\ Len(r) = Len(p) + 2
  BY <1>2
<1> QED BY <1>3, <1>4, <1>5, <1>6 DEF r

LEMMA Inserted ==
  ASSUME NEW p \in Path, NEW k \in Nat, k <= Len(p)
  PROVE  LET r == InsertAt(p, k + 1, Leaf)
         IN  /\ r \in Path /\ Len(r) = Len(p) + 1
             /\ \A i \in 1..k : r[i] = p[i]
             /\ r[k + 1] = Leaf
             /\ \A i \in k + 1..Len(p) : r[i + 1] = p[i]
<1> DEFINE a == SubSeq(p, 1, k)
           b == SubSeq(p, k + 1, Len(p))
           c == a \o <<Leaf>>
<1>1. Len(p) \in Nat /\ <<Leaf>> \in Path /\ Len(<<Leaf>>) = 1
  BY MigrateAssumption DEF Path
<1>2. a \in Path /\ Len(a) = k /\ \A i \in 1..k : a[i] = p[i]
  BY <1>1 DEF Path
<1>3. /\ b \in Path /\ Len(b) = Len(p) - k
      /\ \A i \in 1..Len(p) - k : b[i] = p[k + i]
  BY <1>1 DEF Path
<1>4. InsertAt(p, k + 1, Leaf) = c \o b
  <2>1. (k + 1) - 1 = k
    OBVIOUS
  <2> QED BY <2>1 DEF InsertAt
<1> HIDE DEF a, b
<1>5. /\ c \in Path /\ Len(c) = k + 1
      /\ \A i \in 1..k + 1 : c[i] = IF i <= k THEN a[i] ELSE <<Leaf>>[i - k]
  BY <1>1, <1>2, ConcatProperties DEF Path
<1> HIDE DEF c
<1>6. /\ c \o b \in Path /\ Len(c \o b) = Len(p) + 1
      /\ \A i \in 1..Len(p) + 1 : (c \o b)[i] =
           IF i <= k + 1 THEN c[i] ELSE b[i - (k + 1)]
  <2>1. c \in Seq(Names) /\ b \in Seq(Names)
    BY <1>3, <1>5 DEF Path
  <2>2. /\ c \o b \in Seq(Names) /\ Len(c \o b) = Len(c) + Len(b)
        /\ \A i \in 1..Len(c) + Len(b) : (c \o b)[i] =
             IF i <= Len(c) THEN c[i] ELSE b[i - Len(c)]
    BY ONLY <2>1, ConcatProperties
  <2>3. Len(c) = k + 1 /\ Len(c) + Len(b) = Len(p) + 1
    BY <1>1, <1>3, <1>5
  <2> QED BY <2>2, <2>3 DEF Path
<1>7. ASSUME NEW i \in k + 1..Len(p) PROVE (c \o b)[i + 1] = p[i]
  <2>1. (c \o b)[i + 1] = b[i - k] /\ i - k \in 1..Len(p) - k
    BY <1>1, <1>6
  <2> QED BY <1>1, <1>3, <2>1
<1>8. ASSUME NEW i \in 1..k PROVE (c \o b)[i] = p[i]
  BY <1>1, <1>2, <1>5, <1>6
<1>9. (c \o b)[k + 1] = Leaf
  <2>1. (c \o b)[k + 1] = c[k + 1] /\ c[k + 1] = <<Leaf>>[1]
    BY <1>1, <1>5, <1>6
  <2> QED BY <2>1
<1>10. c \o b \in Path /\ Len(c \o b) = Len(p) + 1
  BY <1>6
<1> QED BY <1>4, <1>7, <1>8, <1>9, <1>10

-----------------------------------------------------------------------------
(* The sites above a file are prefixes of each other.                      *)

LEMMA Site ==
  ASSUME NEW s \in Registered
  PROVE  /\ s \in Path /\ Len(s) \in 1..MaxDepth
         /\ \A i \in 1..Len(s) : s[i] # Leaf
BY MigrateAssumption DEF Path

LEMMA NoLeafChild ==
  ASSUME NEW s \in Registered PROVE Leaf \notin ChildSegments(s)
<1> SUFFICES ASSUME NEW q \in Registered, IsStrictPrefix(s, q)
             PROVE  q[Len(s) + 1] # Leaf
  BY DEF ChildSegments
<1> QED BY Site, StrictPrefix DEF MaxDepth

LEMMA FilePath ==
  ASSUME NEW f \in File PROVE f.path \in Path /\ Len(f.path) \in Nat
BY DEF File, Path

(* The owner of a file with nothing nested on the way to it.               *)
LEMMA OwnerIs ==
  ASSUME NEW f \in File, NEW s \in Registered, IsStrictPrefix(s, f.path),
         f.path[Len(s) + 1] \notin ChildSegments(s)
  PROVE  Owner(f) = s
<1>1. ASSUME NEW q \in Owners(f) PROVE Len(q) <= Len(s)
  <2>1. q \in Registered /\ IsStrictPrefix(q, f.path)
    BY DEF Owners
  <2>2. SUFFICES ASSUME Len(s) < Len(q) PROVE FALSE
    BY <2>1, Site DEF MaxDepth
  <2>3. IsStrictPrefix(s, q) /\ q[Len(s) + 1] = f.path[Len(s) + 1]
    BY <2>1, <2>2, Site, FilePath, StrictPrefix DEF MaxDepth
  <2> QED BY <2>1, <2>3 DEF ChildSegments
<1>2. s \in Owners(f)
  BY DEF Owners
<1>3. ASSUME NEW q \in Owners(f), \A r \in Owners(f) : Len(r) <= Len(q)
      PROVE  q = s
  <2>1. q \in Registered /\ IsStrictPrefix(q, f.path)
    BY DEF Owners
  <2>2. Len(q) = Len(s)
    BY <1>1, <1>2, <1>3, <2>1, Site DEF MaxDepth
  <2>3. \A i \in 1..Len(s) : q[i] = s[i]
    BY <2>1, <2>2, Site, FilePath, StrictPrefix
  <2> QED BY <2>1, <2>2, <2>3, Site, SeqEqual DEF Path
<1> QED BY <1>1, <1>2, <1>3 DEF Owner

(* A file under some site has an owner.                                    *)
LEMMA HasOwner ==
  ASSUME NEW f \in File, Owners(f) # {}
  PROVE  Owner(f) \in Registered /\ IsStrictPrefix(Owner(f), f.path)
<1> DEFINE n(q) == Len(q)
<1>1. \A q \in Owners(f) : n(q) \in 1..3
  BY Site DEF Owners, MaxDepth
<1>2. \E s \in Owners(f) : \A q \in Owners(f) : n(q) <= n(s)
  <2> HIDE DEF n
  <2>1. CASE \E s \in Owners(f) : n(s) = 3
    BY <1>1, <2>1
  <2>2. CASE /\ ~\E s \in Owners(f) : n(s) = 3
             /\ \E s \in Owners(f) : n(s) = 2
    BY <1>1, <2>2
  <2>3. CASE /\ ~\E s \in Owners(f) : n(s) = 3
             /\ ~\E s \in Owners(f) : n(s) = 2
    BY <1>1, <2>3
  <2> QED BY <2>1, <2>2, <2>3
<1>3. Owner(f) \in Owners(f)
  BY <1>2 DEF Owner
<1> QED BY <1>3 DEF Owners

LEMMA OwnerOfLoose ==
  ASSUME NEW f \in File, ~InPlace(f)
  PROVE  /\ Owner(f) \in Registered /\ IsStrictPrefix(Owner(f), f.path)
         /\ f.path[Len(Owner(f)) + 1] \notin
              ChildSegments(Owner(f)) \union {Leaf}
BY HasOwner DEF InPlace

(* A relocated file is in its place, under the same site.                  *)
LEMMA Relocation ==
  ASSUME NEW f \in File, NEW s \in Registered, IsStrictPrefix(s, f.path)
  PROVE  LET g == Relocated(f, s)
         IN  /\ g \in File /\ g.tree = f.tree /\ g.data = f.data
             /\ g.path = InsertAt(f.path, Len(s) + 1, Leaf)
             /\ IsStrictPrefix(s, g.path) /\ g.path[Len(s) + 1] = Leaf
             /\ Owner(g) = s /\ InPlace(g)
<1> DEFINE g == Relocated(f, s)
           r == InsertAt(f.path, Len(s) + 1, Leaf)
<1>1. /\ Len(s) \in Nat /\ Len(s) < Len(f.path) /\ Len(f.path) \in Nat
      /\ \A i \in 1..Len(s) : s[i] = f.path[i]
  BY Site, FilePath, StrictPrefix DEF MaxDepth
<1>2. /\ r \in Path /\ Len(r) = Len(f.path) + 1
      /\ \A i \in 1..Len(s) : r[i] = f.path[i]
      /\ r[Len(s) + 1] = Leaf
  BY <1>1, FilePath, Inserted
<1>3. g \in File /\ g.tree = f.tree /\ g.data = f.data /\ g.path = r
  <2> HIDE DEF r
  <2>1. r \in Seq(Names)
    BY <1>2 DEF Path
  <2>2. g = [f EXCEPT !.path = r]
    BY DEF Relocated, r
  <2> QED BY <2>1, <2>2 DEF File
<1> HIDE DEF g, r
<1>4. IsStrictPrefix(s, g.path)
  BY <1>1, <1>2, <1>3, Site, StrictPrefix
<1>5. g.path[Len(s) + 1] = Leaf
  BY <1>2, <1>3
<1>6. Owner(g) = s
  BY <1>3, <1>4, <1>5, NoLeafChild, OwnerIs
<1>7. InPlace(g)
  BY <1>5, <1>6 DEF InPlace
<1> QED BY <1>3, <1>4, <1>5, <1>6, <1>7 DEF g, r

LEMMA PlacedIsInPlace ==
  ASSUME NEW f \in File
  PROVE  /\ Placed(f) \in File /\ InPlace(Placed(f))
         /\ Placed(f).tree = f.tree
         /\ ~InPlace(f) => /\ Owner(Placed(f)) = Owner(f)
                           /\ Placed(f) = Relocated(f, Owner(f))
<1>1. CASE InPlace(f)
  BY <1>1 DEF Placed
<1>2. CASE ~InPlace(f)
  BY <1>2, OwnerOfLoose, Relocation DEF Placed
<1> QED BY <1>1, <1>2

(* Files that go to the same place were in the same place.                 *)
LEMMA PlacedOnce ==
  ASSUME NEW f \in File, NEW g \in File, ~InPlace(f), ~InPlace(g),
         Placed(f).tree = Placed(g).tree, Placed(f).path = Placed(g).path
  PROVE  f.tree = g.tree /\ f.path = g.path
<1> DEFINE s == Owner(f)
<1>1. s = Owner(g) /\ f.tree = g.tree
  <2>1. Owner(Placed(f)) = Owner(Placed(g))
    BY DEF Owner, Owners
  <2> QED BY <2>1, PlacedIsInPlace
<1>2. /\ s \in Registered /\ IsStrictPrefix(s, f.path)
      /\ IsStrictPrefix(s, g.path)
  BY <1>1, OwnerOfLoose
<1>3. InsertAt(f.path, Len(s) + 1, Leaf) = InsertAt(g.path, Len(s) + 1, Leaf)
  BY <1>1, <1>2, PlacedIsInPlace, Relocation
<1> HIDE DEF s
<1>4. /\ Len(s) \in Nat /\ Len(s) < Len(f.path) /\ Len(s) < Len(g.path)
      /\ f.path \in Path /\ g.path \in Path
      /\ Len(f.path) \in Nat /\ Len(g.path) \in Nat
  BY <1>2, Site, FilePath, StrictPrefix DEF MaxDepth
<1> DEFINE r == InsertAt(f.path, Len(s) + 1, Leaf)
<1>5. /\ Len(r) = Len(f.path) + 1 /\ Len(r) = Len(g.path) + 1
      /\ \A i \in 1..Len(s) : r[i] = f.path[i] /\ r[i] = g.path[i]
      /\ \A i \in Len(s) + 1..Len(f.path) : r[i + 1] = f.path[i]
      /\ \A i \in Len(s) + 1..Len(g.path) : r[i + 1] = g.path[i]
  <2> DEFINE q == InsertAt(g.path, Len(s) + 1, Leaf)
  <2>1. /\ Len(r) = Len(f.path) + 1
        /\ \A i \in 1..Len(s) : r[i] = f.path[i]
        /\ \A i \in Len(s) + 1..Len(f.path) : r[i + 1] = f.path[i]
    <3>1. f.path \in Path /\ Len(s) \in Nat /\ Len(s) <= Len(f.path)
      BY <1>4
    <3> QED BY <3>1, Inserted
  <2>2. /\ Len(q) = Len(g.path) + 1
        /\ \A i \in 1..Len(s) : q[i] = g.path[i]
        /\ \A i \in Len(s) + 1..Len(g.path) : q[i + 1] = g.path[i]
    <3>1. g.path \in Path /\ Len(s) \in Nat /\ Len(s) <= Len(g.path)
      BY <1>4
    <3> QED BY <3>1, Inserted
  <2>3. r = q
    BY <1>3
  <2> HIDE DEF r, q
  <2> QED BY <2>1, <2>2, <2>3
<1> HIDE DEF r
<1>6. Len(f.path) = Len(g.path)
  BY <1>4, <1>5
<1>7. ASSUME NEW i \in 1..Len(f.path) PROVE f.path[i] = g.path[i]
  <2>1. CASE i <= Len(s)
    BY <1>4, <1>5, <2>1
  <2>2. CASE ~(i <= Len(s))
    BY <1>4, <1>5, <1>6, <2>2
  <2> QED BY <2>1, <2>2
<1> QED BY <1>1, <1>4, <1>6, <1>7, SeqEqual DEF Path

-----------------------------------------------------------------------------
(* The invariant: types; the names still to move; what has been visited.   *)

TypeInv ==
  /\ before \in Volumes /\ vol \subseteq File
  /\ run \in {"idle", "choose", "read", "move", "finished"}
  /\ todo \subseteq Registered
  /\ tree \in 1..3
  /\ run \in {"read", "move"} => site \in Registered

LooseInv == run = "move" => loose = Loose(Trees[tree], site)

(* Whether this run is done with a site in a tree.                         *)
Visited(s, t) ==
  /\ run \in {"choose", "read", "move", "finished"} /\ s \notin todo
  /\ run \in {"read", "move"} /\ s = site => t < tree

VisitedInv ==
  /\ \A s \in Registered, t \in 1..3 :
        Visited(s, t) => Loose(Trees[t], s) = {}
  /\ run = "finished" => todo = {}

IInv == TypeInv /\ LooseInv /\ VisitedInv /\ NothingLost

LEMMA TreeNames == /\ Len(Trees) = 3
                   /\ \A i \in 1..3, j \in 1..3 : Trees[i] = Trees[j] => i = j
                   /\ \A f \in File : \E i \in 1..3 : f.tree = Trees[i]
<1>1. Len(Trees) = 3 /\ DOMAIN Trees = 1..3
  BY DEF Trees
<1>2. Trees[1] = "sites" /\ Trees[2] = "versions" /\ Trees[3] = "deleted"
  BY DEF Trees
<1>3. \A i \in 1..3, j \in 1..3 : Trees[i] = Trees[j] => i = j
  BY <1>2
<1>4. \A f \in File : \E i \in 1..3 : f.tree = Trees[i]
  BY <1>1 DEF File
<1> QED BY <1>1, <1>3, <1>4

(* Every name a path goes on with is one.                                  *)
LEMMA NextName ==
  ASSUME NEW f \in File, NEW s \in Registered, IsStrictPrefix(s, f.path)
  PROVE  f.path[Len(s) + 1] \in Names
<1>1. Len(s) + 1 \in 1..Len(f.path)
  BY Site, FilePath, StrictPrefix DEF MaxDepth
<1> QED BY <1>1, FilePath, ElementOfSeq DEF Path

(* What Within an entry of a site's directory means.                       *)
LEMMA WithinEntry ==
  ASSUME NEW f \in File, NEW s \in Registered, NEW n \in Names
  PROVE  IsPrefix(Append(s, n), f.path) <=>
         IsStrictPrefix(s, f.path) /\ f.path[Len(s) + 1] = n
<1>1. /\ s \in Path /\ Len(s) \in Nat /\ f.path \in Path
      /\ Len(f.path) \in Nat
  BY Site, FilePath DEF MaxDepth
<1>2. /\ Append(s, n) \in Path /\ Len(Append(s, n)) = Len(s) + 1
      /\ \A i \in 1..Len(s) : Append(s, n)[i] = s[i]
      /\ Append(s, n)[Len(s) + 1] = n
  BY <1>1, Appended
<1> DEFINE e == Append(s, n)
<1>3. IsPrefix(e, f.path) <=>
      Len(e) <= Len(f.path) /\ \A i \in 1..Len(e) : e[i] = f.path[i]
  BY <1>1, <1>2, Prefix
<1>4. IsStrictPrefix(s, f.path) <=>
      Len(s) < Len(f.path) /\ \A i \in 1..Len(s) : s[i] = f.path[i]
  BY <1>1, StrictPrefix
<1> HIDE DEF e
<1> QED BY <1>1, <1>2, <1>3, <1>4 DEF e

(* The entries of a directory whose names are not spoken for.              *)
LEMMA LooseName ==
  ASSUME NEW s, NEW t, NEW n
  PROVE  n \in Loose(t, s) <=>
         /\ \E f \in vol : /\ f.tree = t /\ IsStrictPrefix(s, f.path)
                           /\ f.path[Len(s) + 1] = n
         /\ n \notin ChildSegments(s) \union {Leaf}
BY DEF Loose, Entries

-----------------------------------------------------------------------------
(* A rename. Where n is loose in the directory of site s in tree t:        *)

(* the files it takes along are loose files of that site;                  *)
LEMMA Taken ==
  ASSUME NEW s \in Registered, NEW t, NEW n, vol \subseteq File,
         n \in Loose(t, s), NEW f \in Within(t, Append(s, n))
  PROVE  /\ f \in vol /\ f \in File /\ f.tree = t
         /\ IsStrictPrefix(s, f.path) /\ f.path[Len(s) + 1] = n
         /\ Owner(f) = s /\ ~InPlace(f) /\ Placed(f) = Relocated(f, s)
<1>1. n \notin ChildSegments(s) \union {Leaf} /\ n \in Names
  BY LooseName, NextName
<1>2. f \in vol /\ f \in File /\ f.tree = t /\ IsPrefix(Append(s, n), f.path)
  BY DEF Within
<1>3. IsStrictPrefix(s, f.path) /\ f.path[Len(s) + 1] = n
  BY <1>1, <1>2, WithinEntry
<1>4. Owner(f) = s
  BY <1>1, <1>2, <1>3, OwnerIs
<1>5. s \in Owners(f)
  BY <1>3 DEF Owners
<1>6. ~InPlace(f)
  BY <1>1, <1>3, <1>4, <1>5 DEF InPlace
<1> QED BY <1>2, <1>3, <1>4, <1>6 DEF Placed

(* there are such files;                                                   *)
LEMMA SomeTaken ==
  ASSUME NEW s \in Registered, NEW t, NEW n, vol \subseteq File,
         n \in Loose(t, s)
  PROVE  Within(t, Append(s, n)) # {}
<1>1. PICK f \in vol : /\ f.tree = t /\ IsStrictPrefix(s, f.path)
                       /\ f.path[Len(s) + 1] = n
  BY LooseName
<1>2. f \in File /\ n \in Names
  BY <1>1, NextName
<1> QED BY <1>1, <1>2, WithinEntry DEF Within

(* those in its way are in their place, in the leaf of the same site.      *)
LEMMA InTheWay ==
  ASSUME NEW s \in Registered, NEW t, NEW n \in Names, vol \subseteq File,
         NEW f \in Within(t, s \o <<Leaf, n>>)
  PROVE  /\ f \in vol /\ f \in File /\ f.tree = t
         /\ IsStrictPrefix(s, f.path) /\ f.path[Len(s) + 1] = Leaf
         /\ Owner(f) = s /\ InPlace(f)
<1> DEFINE e == s \o <<Leaf, n>>
<1>1. f \in vol /\ f \in File /\ f.tree = t /\ IsPrefix(e, f.path)
  BY DEF Within
<1>2. /\ s \in Path /\ Len(s) \in Nat /\ f.path \in Path
      /\ Len(f.path) \in Nat
  BY <1>1, Site, FilePath DEF MaxDepth
<1>3. /\ e \in Path /\ Len(e) = Len(s) + 2 /\ e[Len(s) + 1] = Leaf
      /\ \A i \in 1..Len(s) : e[i] = s[i]
  BY <1>2, InLeaf
<1> HIDE DEF e
<1>4. Len(e) <= Len(f.path) /\ \A i \in 1..Len(e) : e[i] = f.path[i]
  BY <1>1, <1>2, <1>3, Prefix
<1>5. IsStrictPrefix(s, f.path) /\ f.path[Len(s) + 1] = Leaf
  <2>1. /\ Len(s) < Len(f.path) /\ \A i \in 1..Len(s) : s[i] = f.path[i]
        /\ f.path[Len(s) + 1] = Leaf
    BY ONLY <1>2, <1>3, <1>4
  <2> QED BY <1>2, <2>1, StrictPrefix
<1>6. Owner(f) = s
  BY <1>1, <1>5, NoLeafChild, OwnerIs
<1> QED BY <1>1, <1>5, <1>6 DEF InPlace

(* The name that stands in the leaf for the one to move.                   *)
LEMMA EntryInLeaf ==
  ASSUME NEW f \in File, NEW s \in Registered, NEW n,
         IsStrictPrefix(s, f.path), f.path[Len(s) + 1] = n
  PROVE  /\ n \in Names
         /\ SubSeq(Relocated(f, s).path, 1, Len(s) + 2) = s \o <<Leaf, n>>
<1> DEFINE r == InsertAt(f.path, Len(s) + 1, Leaf)
           e == s \o <<Leaf, n>>
           u == SubSeq(r, 1, Len(s) + 2)
<1>1. /\ s \in Path /\ Len(s) \in Nat /\ f.path \in Path /\ n \in Names
      /\ Len(f.path) \in Nat /\ Len(s) < Len(f.path)
      /\ \A i \in 1..Len(s) : s[i] = f.path[i]
  BY Site, FilePath, StrictPrefix, NextName DEF MaxDepth
<1>2. /\ e \in Path /\ Len(e) = Len(s) + 2 /\ e[Len(s) + 1] = Leaf
      /\ e[Len(s) + 2] = n /\ \A i \in 1..Len(s) : e[i] = s[i]
  BY <1>1, InLeaf
<1>3. Len(s) <= Len(f.path)
  BY <1>1
<1>4. /\ r \in Path /\ Len(r) = Len(f.path) + 1 /\ r[Len(s) + 1] = Leaf
      /\ \A i \in 1..Len(s) : r[i] = f.path[i]
      /\ \A i \in Len(s) + 1..Len(f.path) : r[i + 1] = f.path[i]
  BY <1>1, <1>3, Inserted
<1> HIDE DEF r, e
<1>5. r[Len(s) + 2] = n
  BY <1>1, <1>4
<1>6. /\ u \in Path /\ Len(u) = Len(s) + 2
      /\ \A i \in 1..Len(s) + 2 : u[i] = r[i]
  BY <1>1, <1>4 DEF Path
<1> HIDE DEF u
<1>7. ASSUME NEW i \in 1..Len(s) + 2 PROVE u[i] = e[i]
  BY <1>1, <1>2, <1>4, <1>5, <1>6
<1>8. u = e
  BY <1>2, <1>6, <1>7, SeqEqual DEF Path
<1>9. Relocated(f, s).path = r
  BY Relocation DEF r
<1> QED BY <1>1, <1>8, <1>9 DEF u, e

(* A file whose entry in the leaf is a plain file is that entry.           *)
LEMMA PlainEntry ==
  ASSUME NEW f \in File, NEW g \in File, NEW s \in Registered, NEW n,
         IsStrictPrefix(s, f.path), f.path[Len(s) + 1] = n,
         IsStrictPrefix(s, g.path),
         f.path = Append(s, n), Relocated(g, s).path = s \o <<Leaf, n>>
  PROVE  f.path = g.path
<1> DEFINE r == InsertAt(g.path, Len(s) + 1, Leaf)
           e == s \o <<Leaf, n>>
<1>1. /\ s \in Path /\ Len(s) \in Nat /\ n \in Names
      /\ f.path \in Path /\ g.path \in Path
      /\ Len(f.path) \in Nat /\ Len(g.path) \in Nat
      /\ Len(s) < Len(g.path) /\ Len(s) <= Len(g.path)
      /\ \A i \in 1..Len(s) : s[i] = f.path[i]
      /\ \A i \in 1..Len(s) : s[i] = g.path[i]
  <2>1. s \in Path /\ Len(s) \in Nat /\ n \in Names
    <3>1. s \in Path /\ Len(s) \in Nat
      BY Site DEF MaxDepth
    <3>2. n \in Names
      BY NextName
    <3> QED BY <3>1, <3>2
  <2>2. /\ f.path \in Path /\ g.path \in Path
        /\ Len(f.path) \in Nat /\ Len(g.path) \in Nat
    BY FilePath
  <2>3. \A i \in 1..Len(s) : s[i] = f.path[i]
    BY <2>1, <2>2, StrictPrefix
  <2>4. Len(s) < Len(g.path) /\ \A i \in 1..Len(s) : s[i] = g.path[i]
    BY <2>1, <2>2, StrictPrefix
  <2> QED BY <2>1, <2>2, <2>3, <2>4
<1>2. Len(f.path) = Len(s) + 1
  BY <1>1, Appended
<1>3. Len(e) = Len(s) + 2 /\ e[Len(s) + 2] = n
  BY <1>1, InLeaf
<1>4. /\ Len(r) = Len(g.path) + 1
      /\ \A i \in Len(s) + 1..Len(g.path) : r[i + 1] = g.path[i]
  BY <1>1, Inserted
<1>5. r = e
  BY Relocation
<1> HIDE DEF r, e
<1>6. Len(g.path) = Len(s) + 1
  BY <1>1, <1>3, <1>4, <1>5
<1>7. g.path[Len(s) + 1] = n
  BY <1>1, <1>3, <1>4, <1>5, <1>6
<1>8. \A i \in 1..Len(f.path) : f.path[i] = g.path[i]
  BY <1>1, <1>2, <1>7
<1> QED BY <1>1, <1>2, <1>6, <1>8, SeqEqual DEF Path

(* Nothing is in the way of an unambiguous volume's entries.               *)
LEMMA NothingInTheWay ==
  ASSUME TypeInv, NothingLost, Unambiguous(before),
         NEW s \in Registered, NEW t, NEW n \in Loose(t, s),
         \/ Within(t, s \o <<Leaf, n>>) = {}
         \/ /\ \A f \in Within(t, Append(s, n)) : f.path = Append(s, n)
            /\ \A f \in Within(t, s \o <<Leaf, n>>) :
                  f.path = s \o <<Leaf, n>>
  PROVE  /\ Within(t, s \o <<Leaf, n>>) = {}
         /\ \A f \in Within(t, Append(s, n)) : f \in before
<1>1. vol \subseteq File /\ before \subseteq File
  BY MigrateAssumption DEF TypeInv
<1>2. ASSUME NEW f \in Within(t, Append(s, n)) PROVE f \in before
  <2>1. f \in vol /\ ~InPlace(f)
    BY <1>1, Taken
  <2>2. PICK h \in before : f \in {h, Placed(h)}
    BY <2>1 DEF NothingLost
  <2> QED BY <1>1, <2>1, <2>2, PlacedIsInPlace
<1>3. SUFFICES ASSUME NEW x \in Within(t, s \o <<Leaf, n>>) PROVE FALSE
  BY <1>2
<1>4. PICK f \in Within(t, Append(s, n)) : TRUE
  BY <1>1, SomeTaken
<1>5. /\ f \in before /\ f \in vol /\ f \in File /\ f.tree = t
      /\ IsStrictPrefix(s, f.path) /\ f.path[Len(s) + 1] = n
      /\ Owner(f) = s /\ ~InPlace(f) /\ Placed(f) = Relocated(f, s)
  BY <1>1, <1>2, <1>4, Taken
<1>6. /\ n \in Names
      /\ SubSeq(Placed(f).path, 1, Len(Owner(f)) + 2) = s \o <<Leaf, n>>
  BY <1>5, EntryInLeaf
<1>7. x \in vol /\ x \in File /\ x.tree = t /\ Owner(x) = s
  BY <1>1, <1>6, InTheWay
<1>8. x.path = s \o <<Leaf, n>> /\ f.path = Append(s, n)
  BY <1>3, <1>4
<1>9. IsPrefix(s \o <<Leaf, n>>, x.path)
  BY DEF Within
<1>10. x \notin before
  <2>1. IsPrefix(SubSeq(Placed(f).path, 1, Len(Owner(f)) + 2), x.path)
    BY <1>6, <1>9
  <2>2. SUFFICES ASSUME x \in before PROVE FALSE
    OBVIOUS
  <2>3. f.tree = x.tree
    BY <1>5, <1>7
  <2>4. InPlace(f)
    BY <1>5, <2>1, <2>2, <2>3, Zenon DEF Unambiguous
  <2> QED BY <1>5, <2>4
<1>11. PICK h \in before : x = Placed(h) /\ ~InPlace(h)
  BY <1>7, <1>10 DEF NothingLost, Placed
<1>12. /\ h \in File /\ Owner(h) = s /\ h.tree = t
       /\ Placed(h) = Relocated(h, s)
  BY <1>1, <1>7, <1>11, PlacedIsInPlace
<1>13. IsStrictPrefix(s, h.path)
  BY <1>11, <1>12, OwnerOfLoose
<1>14. f.path = h.path
  BY <1>5, <1>8, <1>11, <1>12, <1>13, PlainEntry
<1>15. f = h
  BY <1>5, <1>12, <1>14 DEF Unambiguous
<1> QED BY <1>5, <1>7, <1>11, <1>15 DEF NothingLost

(* A rename leaves no name loose that was not, and that of its entry no    *)
(* more.                                                                   *)
LEMMA LooseAfter ==
  ASSUME TypeInv, TypeInv', NEW n \in Loose(Trees[tree], site),
         site \in Registered, Move(n),
         NEW s \in Registered, NEW t \in 1..3
  PROVE  /\ Loose(Trees[t], s)' \subseteq Loose(Trees[t], s)
         /\ n \notin Loose(Trees[tree], site)'
<1> DEFINE moved == Within(Trees[tree], Append(site, n))
<1>1. /\ vol \subseteq File /\ vol' \subseteq File
      /\ site' = site /\ tree' = tree
      /\ \A g \in vol' : \/ g \in vol /\ g \notin moved
                         \/ \E f \in moved : g = Relocated(f, site)
  BY DEF TypeInv, Move
<1>2. ASSUME NEW f \in moved, NEW g, g = Relocated(f, site)
      PROVE  /\ g \in File /\ Owner(g) = site
             /\ IsStrictPrefix(site, g.path) /\ g.path[Len(site) + 1] = Leaf
  BY <1>1, <1>2, Taken, Relocation
<1>3. ASSUME NEW m \in Loose(Trees[t], s)' PROVE m \in Loose(Trees[t], s)
  <2>1. /\ m \notin ChildSegments(s) \union {Leaf}
        /\ \E g \in vol' : /\ g.tree = Trees[t] /\ IsStrictPrefix(s, g.path)
                          /\ g.path[Len(s) + 1] = m
    BY DEF Loose, Entries, ChildSegments, Registered
  <2>2. PICK g \in vol' : /\ g.tree = Trees[t] /\ IsStrictPrefix(s, g.path)
                          /\ g.path[Len(s) + 1] = m
    BY <2>1
  <2>3. CASE g \in vol
    BY <2>1, <2>2, <2>3, LooseName
  <2>4. CASE \E f \in moved : g = Relocated(f, site)
    <3>1. g \in File /\ Owner(g) = site /\ g.path[Len(site) + 1] = Leaf
      BY <1>2, <2>4
    <3>2. Owner(g) = s
      BY <2>1, <2>2, <3>1, OwnerIs
    <3> QED BY <2>1, <2>2, <3>1, <3>2
  <2> QED BY <1>1, <2>2, <2>3, <2>4
<1>4. ASSUME n \in Loose(Trees[tree], site)' PROVE FALSE
  <2>1. n \in Names /\ n # Leaf
    BY <1>1, LooseName, NextName
  <2>2. \E g \in vol' : /\ g.tree = Trees[tree] /\ IsStrictPrefix(site, g.path)
                       /\ g.path[Len(site) + 1] = n
    BY <1>1, <1>4 DEF Loose, Entries
  <2>3. PICK g \in vol' : /\ g.tree = Trees[tree]
                          /\ IsStrictPrefix(site, g.path)
                          /\ g.path[Len(site) + 1] = n
    BY <2>2
  <2>4. CASE g \in vol /\ g \notin moved
    BY <1>1, <2>1, <2>3, <2>4, WithinEntry DEF Within
  <2>5. CASE \E f \in moved : g = Relocated(f, site)
    BY <1>2, <2>1, <2>3, <2>5
  <2> QED BY <1>1, <2>4, <2>5
<1> QED BY <1>3, <1>4

(* A rename keeps NothingLost.                                             *)
LEMMA MoveLosesNothing ==
  ASSUME IInv, NEW n \in loose, Move(n)
  PROVE  /\ NothingLost'
         /\ Unambiguous(before) => \A f \in vol : InPlace(f) => f \in vol'
<1> DEFINE t == Trees[tree]
           moved == Within(t, Append(site, n))
           there == Within(t, site \o <<Leaf, n>>)
<1>1. /\ site \in Registered /\ n \in Loose(t, site)
      /\ vol \subseteq File /\ before \subseteq File /\ before' = before
  BY MigrateAssumption DEF IInv, TypeInv, LooseInv, Move
<1>2. SUFFICES ASSUME Unambiguous(before)
               PROVE  NothingLost' /\ \A f \in vol : InPlace(f) => f \in vol'
  BY <1>1 DEF NothingLost, Unambiguous, Placed, InPlace, Owner, Owners,
              Registered, ChildSegments, Relocated
<1>3. there = {} /\ \A f \in moved : f \in before
  BY <1>1, <1>2, NothingInTheWay DEF IInv, Move
<1>4. \A f \in moved : /\ f \in vol /\ f \in File /\ ~InPlace(f)
                      /\ Placed(f) = Relocated(f, site)
  BY <1>1, Taken
<1>5. vol' = (vol \ moved) \union {Placed(f) : f \in moved}
  BY <1>3, <1>4 DEF Move
<1> HIDE DEF moved, there
<1>6. \A f \in vol : InPlace(f) => f \in vol'
  BY <1>4, <1>5
<1>7. ASSUME NEW f \in before PROVE f \in vol' \/ Placed(f) \in vol'
  <2>1. CASE f \in vol
    BY <1>5, <2>1
  <2>2. CASE Placed(f) \in vol
    BY <1>1, <1>6, <2>2, PlacedIsInPlace
  <2> QED BY <1>2, <2>1, <2>2 DEF IInv, NothingLost
<1>8. ASSUME NEW f \in before, f \in vol', Placed(f) \in vol', ~InPlace(f)
      PROVE  FALSE
  <2>1. \A g \in moved : InPlace(Placed(g))
    BY <1>4, PlacedIsInPlace
  <2>2. f \in vol /\ f \notin moved
    BY <1>5, <1>8, <2>1
  <2>3. Placed(f) \notin vol
    BY <1>2, <1>8, <2>2 DEF IInv, NothingLost
  <2>4. PICK g \in moved : Placed(f) = Placed(g)
    BY <1>5, <1>8, <2>3
  <2>5. f.tree = g.tree /\ f.path = g.path
    BY <1>1, <1>4, <1>8, <2>4, PlacedOnce
  <2>6. f = g
    BY <1>2, <1>3, <2>5 DEF Unambiguous
  <2> QED BY <2>2, <2>6
<1>9. ASSUME NEW g \in vol' PROVE \E f \in before : g \in {f, Placed(f)}
  BY <1>2, <1>3, <1>5 DEF IInv, NothingLost
<1>10. /\ \A f \in before : f \in vol' \/ Placed(f) \in vol'
       /\ \A f \in before : {f, Placed(f)} \subseteq vol' => InPlace(f)
       /\ \A g \in vol' : \E f \in before : g \in {f, Placed(f)}
  BY <1>7, <1>8, <1>9
<1> QED BY <1>1, <1>6, <1>10
        DEF NothingLost, Placed, InPlace, Owner, Owners, Registered,
            ChildSegments, Relocated

-----------------------------------------------------------------------------
LEMMA Initial == MigrateInit => IInv
<1> SUFFICES ASSUME MigrateInit PROVE IInv
  OBVIOUS
<1>1. vol \in Volumes /\ before = vol /\ vol \subseteq File
  BY MigrateAssumption DEF MigrateInit
<1>2. TypeInv /\ LooseInv
  BY <1>1 DEF MigrateInit, TypeInv, LooseInv
<1>3. VisitedInv
  BY DEF MigrateInit, VisitedInv, Visited
<1>4. ASSUME NEW f \in before, {f, Placed(f)} \subseteq vol,
             Unambiguous(before)
      PROVE  InPlace(f)
  <2>1. SUFFICES ASSUME ~InPlace(f) PROVE FALSE
    OBVIOUS
  <2>2. f \in File /\ Placed(f) \in before /\ Placed(f).tree = f.tree
    BY <1>1, <1>4, PlacedIsInPlace
  <2>3. Placed(f).path \in Path /\ Len(Placed(f).path) \in Nat
    BY <2>2, PlacedIsInPlace, FilePath
  <2> DEFINE p == Placed(f).path
             k == Len(Owner(f)) + 2
  <2>4. k \in 1..Len(p)
    <3>1. /\ Owner(f) \in Registered /\ IsStrictPrefix(Owner(f), f.path)
          /\ Placed(f) = Relocated(f, Owner(f))
      BY <2>1, <2>2, OwnerOfLoose, PlacedIsInPlace
    <3>2. /\ Len(Owner(f)) \in Nat /\ Len(f.path) \in Nat
          /\ f.path \in Path /\ Len(Owner(f)) < Len(f.path)
      BY <2>2, <3>1, Site, FilePath, StrictPrefix DEF MaxDepth
    <3>3. p = InsertAt(f.path, Len(Owner(f)) + 1, Leaf)
      BY <2>2, <3>1, Relocation
    <3>4. Len(Owner(f)) <= Len(f.path)
      BY <3>2
    <3>5. Len(p) = Len(f.path) + 1
      BY <3>2, <3>3, <3>4, Inserted
    <3> QED BY <3>2, <3>5
  <2> HIDE DEF p, k
  <2>5. /\ SubSeq(p, 1, k) \in Path /\ Len(SubSeq(p, 1, k)) = k
        /\ \A i \in 1..k : SubSeq(p, 1, k)[i] = p[i]
    BY <2>3, <2>4 DEF p, Path
  <2>6. IsPrefix(SubSeq(p, 1, k), p)
    <3>1. p \in Path /\ Len(p) \in Nat
      BY <2>3 DEF p
    <3>2. k <= Len(p)
      BY <2>4, <3>1
    <3> QED BY <2>5, <3>1, <3>2, Prefix
  <2>7. /\ f.tree = Placed(f).tree
        /\ IsPrefix(SubSeq(Placed(f).path, 1, Len(Owner(f)) + 2),
                    Placed(f).path)
    BY <2>2, <2>6 DEF p, k
  <2>8. InPlace(f)
    BY <1>4, <2>2, <2>7, Zenon DEF Unambiguous
  <2> QED BY <2>1, <2>8
<1>5. NothingLost
  BY <1>1, <1>4 DEF NothingLost
<1> QED BY <1>2, <1>3, <1>5 DEF IInv

(* Steps that leave the volume alone.                                      *)
LEMMA SameFiles ==
  ASSUME IInv, UNCHANGED <<vol, before>>
  PROVE  /\ NothingLost'
         /\ \A s, t : Loose(t, s)' = Loose(t, s)
<1>1. NothingLost' <=> NothingLost
  BY DEF NothingLost, Unambiguous, Placed, InPlace, Owner, Owners,
         Registered, ChildSegments, Relocated
<1>2. \A s, t : Loose(t, s)' = Loose(t, s)
  BY DEF Loose, Entries, ChildSegments, Registered
<1> QED BY <1>1, <1>2 DEF IInv

LEMMA Inductive == IInv /\ [MigrateNext]_volumeVars => IInv'
<1> SUFFICES ASSUME IInv, [MigrateNext]_volumeVars PROVE IInv'
  OBVIOUS
<1> USE TreeNames
<1>1. CASE StartMigration
  <2>1. NothingLost' /\ \A s, t : Loose(t, s)' = Loose(t, s)
    BY <1>1, SameFiles DEF StartMigration
  <2> QED BY <1>1, <2>1
          DEF StartMigration, IInv, TypeInv, LooseInv, VisitedInv, Visited
<1>2. CASE \E s \in Registered : TakeSite(s)
  <2>1. PICK s \in Registered : TakeSite(s)
    BY <1>2
  <2>2. NothingLost' /\ \A r, t : Loose(t, r)' = Loose(t, r)
    BY <2>1, SameFiles DEF TakeSite
  <2>3. TypeInv' /\ LooseInv'
    BY <2>1 DEF TakeSite, IInv, TypeInv, LooseInv
  <2>4. VisitedInv'
    BY <2>1, <2>2 DEF TakeSite, IInv, TypeInv, VisitedInv, Visited
  <2> QED BY <2>2, <2>3, <2>4 DEF IInv
<1>3. CASE ReadDir
  <2>1. NothingLost' /\ \A s, t : Loose(t, s)' = Loose(t, s)
    BY <1>3, SameFiles DEF ReadDir
  <2>2. TypeInv' /\ LooseInv'
    BY <1>3, <2>1 DEF ReadDir, IInv, TypeInv, LooseInv
  <2>3. VisitedInv'
    BY <1>3, <2>1 DEF ReadDir, IInv, TypeInv, VisitedInv, Visited
  <2> QED BY <2>1, <2>2, <2>3 DEF IInv
<1>4. CASE \E n \in loose : Move(n)
  <2>1. PICK n \in loose : Move(n)
    BY <1>4
  <2>2. NothingLost'
    BY <2>1, MoveLosesNothing
  <2>3. /\ site \in Registered /\ run = "move" /\ tree \in 1..3
        /\ loose = Loose(Trees[tree], site) /\ vol \subseteq File
    BY <2>1 DEF Move, IInv, TypeInv, LooseInv
  <2>4. TypeInv'
    <3>1. vol' \subseteq File
      BY <2>1, <2>3, Taken, Relocation DEF Move
    <3> QED BY <2>1, <3>1 DEF Move, IInv, TypeInv
  <2>5. /\ \A s \in Registered, t \in 1..3 :
             Loose(Trees[t], s)' \subseteq Loose(Trees[t], s)
        /\ n \notin Loose(Trees[tree], site)'
    BY <2>1, <2>3, <2>4, LooseAfter DEF IInv
  <2>6. ASSUME NEW m \in Loose(Trees[tree], site), m # n
        PROVE  m \in Loose(Trees[tree], site)'
    <3>1. PICK g \in vol : /\ g.tree = Trees[tree]
                           /\ IsStrictPrefix(site, g.path)
                           /\ g.path[Len(site) + 1] = m
      BY <2>6, LooseName
    <3>2. n \in Names /\ m # Leaf /\ m \notin ChildSegments(site)
      BY <2>1, <2>3, <2>6, LooseName, NextName
    <3>3. g \notin Within(Trees[tree], Append(site, n))
      BY <2>1, <2>3, <2>6, <3>1, Taken
    <3>4. g \notin Within(Trees[tree], site \o <<Leaf, n>>)
      BY <2>3, <3>1, <3>2, InTheWay
    <3>5. g \in vol' /\ site' = site /\ tree' = tree
      BY <2>1, <3>3, <3>4 DEF Move
    <3> QED BY <3>1, <3>2, <3>5 DEF Loose, Entries, ChildSegments, Registered
  <2>7. LooseInv'
    BY <2>1, <2>3, <2>5, <2>6 DEF Move, LooseInv
  <2>8. VisitedInv'
    BY <2>1, <2>3, <2>5 DEF Move, IInv, VisitedInv, Visited
  <2> QED BY <2>2, <2>4, <2>7, <2>8 DEF IInv
<1>5. CASE NextTree
  <2>1. NothingLost' /\ \A s, t : Loose(t, s)' = Loose(t, s)
    BY <1>5, SameFiles DEF NextTree
  <2>2. TypeInv' /\ LooseInv'
    BY <1>5 DEF NextTree, IInv, TypeInv, LooseInv
  <2>3. Loose(Trees[tree], site) = {}
    BY <1>5 DEF NextTree, IInv, LooseInv
  <2>4. VisitedInv'
    BY <1>5, <2>1, <2>3 DEF NextTree, IInv, TypeInv, VisitedInv, Visited
  <2> QED BY <2>1, <2>2, <2>4 DEF IInv
<1>6. CASE FinishMigration
  <2>1. NothingLost' /\ \A s, t : Loose(t, s)' = Loose(t, s)
    BY <1>6, SameFiles DEF FinishMigration
  <2> QED BY <1>6, <2>1
          DEF FinishMigration, IInv, TypeInv, LooseInv, VisitedInv, Visited
<1>7. CASE MigrationFails
  <2>1. NothingLost'
    BY <1>7, SameFiles DEF MigrationFails
  <2> QED BY <1>7, <2>1
          DEF MigrationFails, IInv, TypeInv, LooseInv, VisitedInv, Visited
<1>8. CASE UNCHANGED volumeVars
  <2>1. NothingLost' /\ \A s, t : Loose(t, s)' = Loose(t, s)
    BY <1>8, SameFiles DEF volumeVars
  <2> QED BY <1>8, <2>1
          DEF volumeVars, IInv, TypeInv, LooseInv, VisitedInv, Visited
<1> QED BY <1>1, <1>2, <1>3, <1>4, <1>5, <1>6, <1>7, <1>8 DEF MigrateNext, MigrateStep

LEMMA Invariant == MigrateSpec => []IInv
BY Initial, Inductive, PTL DEF MigrateSpec

(* Whatever volume is migrated, and however often the command dies, every  *)
(* file is in its old place or where it belongs.                           *)
THEOREM MigrationLosesNothing == MigrateSpec => []NothingLost
<1>1. IInv => NothingLost
  BY DEF IInv
<1> QED BY <1>1, Invariant, PTL

(* When all sites have been visited, everything is in its place.           *)
LEMMA FinishedInFull == IInv => MigratedInFull
<1>1. ASSUME IInv, run = "finished", Unambiguous(before)
      PROVE  vol = {Placed(f) : f \in before}
  <2>1. vol \subseteq File /\ before \subseteq File
    BY <1>1, MigrateAssumption DEF IInv, TypeInv
  <2>2. ASSUME NEW f \in vol PROVE InPlace(f)
    <3>1. SUFFICES ASSUME ~InPlace(f) PROVE FALSE
      OBVIOUS
    <3> DEFINE s == Owner(f)
    <3>2. /\ s \in Registered /\ IsStrictPrefix(s, f.path)
          /\ f.path[Len(s) + 1] \notin ChildSegments(s) \union {Leaf}
      BY <2>1, <3>1, OwnerOfLoose
    <3>3. PICK t \in 1..3 : f.tree = Trees[t]
      BY <2>1, TreeNames
    <3>4. f.path[Len(s) + 1] \in Loose(Trees[t], s)
      BY <3>2, <3>3, LooseName
    <3>5. Visited(s, t)
      BY <1>1 DEF IInv, VisitedInv, Visited
    <3> QED BY <1>1, <3>2, <3>4, <3>5 DEF IInv, VisitedInv
  <2>3. ASSUME NEW f \in vol PROVE \E h \in before : f = Placed(h)
    <3>1. PICK h \in before : f \in {h, Placed(h)}
      BY <1>1 DEF IInv, NothingLost
    <3> QED BY <2>2, <3>1 DEF Placed
  <2>4. ASSUME NEW f \in before PROVE Placed(f) \in vol
    <3>1. f \in vol \/ Placed(f) \in vol
      BY <1>1 DEF IInv, NothingLost
    <3> QED BY <2>2, <3>1 DEF Placed
  <2> QED BY <2>3, <2>4
<1> QED BY <1>1 DEF MigratedInFull

(* A run that ends without an error has moved every site's files, in every *)
(* tree.                                                                   *)
THEOREM FullRunCompletes == MigrateSpec => []MigratedInFull
BY FinishedInFull, Invariant, PTL

(* What is in the leaf of its site is left untouched by every later step.  *)
THEOREM MigratedFilesStay == MigrateSpec => PlacedFilesStay
<1>1. ASSUME IInv, [MigrateNext]_volumeVars
      PROVE  [\A f \in vol \ vol' : Unambiguous(before) => ~InPlace(f)]_volumeVars
  <2>1. CASE \E n \in loose : Move(n)
    BY <1>1, <2>1, MoveLosesNothing
  <2>2. CASE vol' = vol
    BY <2>2
  <2> QED BY <1>1, <2>1, <2>2
          DEF MigrateNext, MigrateStep, StartMigration, TakeSite, ReadDir, NextTree, FinishMigration, MigrationFails,
              volumeVars
<1> QED BY <1>1, Invariant, PTL DEF MigrateSpec, PlacedFilesStay

-----------------------------------------------------------------------------
(* Volume: what the server finds in the leaf of the site.                  *)

LEMMA HomeSite ==
  /\ Home \in Registered /\ Home \in Path /\ Len(Home) \in Nat
  /\ ContentDir(Home) \in Path /\ Len(ContentDir(Home)) = Len(Home) + 1
  /\ \A i \in 1..Len(Home) : ContentDir(Home)[i] = Home[i]
  /\ ContentDir(Home)[Len(Home) + 1] = Leaf
<1>1. Home \in Registered
  BY VolumeAssumption DEF Registered
<1>2. Home \in Path /\ Len(Home) \in Nat
  BY <1>1, Site DEF MaxDepth
<1> QED BY <1>1, <1>2, Appended, MigrateAssumption DEF ContentDir

(* A file below the leaf is the site's own, and in its place.              *)
LEMMA BelowLeaf ==
  ASSUME NEW f \in File, IsStrictPrefix(ContentDir(Home), f.path)
  PROVE  /\ IsStrictPrefix(Home, f.path) /\ f.path[Len(Home) + 1] = Leaf
         /\ Owner(f) = Home /\ InPlace(f)
         /\ Leaf \notin ChildSegments(Home)
<1>1. /\ f.path \in Path /\ Len(f.path) \in Nat
      /\ Len(Home) + 1 < Len(f.path)
      /\ \A i \in 1..Len(Home) + 1 : ContentDir(Home)[i] = f.path[i]
  BY FilePath, HomeSite, StrictPrefix
<1>2. f.path[Len(Home) + 1] = Leaf
  BY <1>1, HomeSite
<1>3. \A i \in 1..Len(Home) : Home[i] = f.path[i]
  BY <1>1, HomeSite
<1>4. IsStrictPrefix(Home, f.path)
  BY <1>1, <1>3, HomeSite, StrictPrefix
<1>5. Leaf \notin ChildSegments(Home)
  BY HomeSite, NoLeafChild
<1>6. Owner(f) = Home
  BY <1>2, <1>4, <1>5, HomeSite, OwnerIs
<1> QED BY <1>2, <1>4, <1>5, <1>6 DEF InPlace

(* A file of the site is where the server looks, under its own path.       *)
LEMMA OwnIsServed ==
  ASSUME NEW f \in File, f \in OwnFiles(before)
  PROVE  LET g == Placed(f)
         IN  /\ IsStrictPrefix(ContentDir(Home), g.path)
             /\ OwnPath(f) = SubSeq(g.path, Len(ContentDir(Home)) + 1, Len(g.path))
             /\ g.tree = "sites" /\ g.data = f.data
<1> DEFINE p == f.path
           k == Len(Home)
           c == ContentDir(Home)
<1>1. /\ p \in Path /\ Len(p) \in Nat /\ k \in Nat /\ k < Len(p)
      /\ \A i \in 1..k : Home[i] = p[i]
      /\ f.tree = "sites" /\ Owner(f) = Home /\ Owners(f) # {}
      /\ IsStrictPrefix(Home, p) /\ p # c
      /\ p[k + 1] \notin ChildSegments(Home)
  BY FilePath, HomeSite, StrictPrefix DEF OwnFiles, Owners
<1>2. c \in Path /\ Len(c) = k + 1 /\ c[k + 1] = Leaf
      /\ \A i \in 1..k : c[i] = Home[i]
  BY HomeSite
<1>3. CASE p[k + 1] = Leaf
  <2>1. Placed(f) = f
    BY <1>1, <1>3 DEF Placed, InPlace
  <2>2. \A i \in 1..k + 1 : c[i] = p[i]
    BY <1>1, <1>2, <1>3
  <2>3. IsPrefix(c, p)
    BY <1>1, <1>2, <2>2, Prefix
  <2>4. IsStrictPrefix(c, p)
    BY <1>1, <2>3 DEF IsStrictPrefix
  <2>5. OwnPath(f) = SubSeq(p, k + 2, Len(p))
    BY <1>3 DEF OwnPath
  <2> QED BY <1>1, <1>2, <2>1, <2>4, <2>5
<1>4. CASE p[k + 1] # Leaf
  <2> DEFINE r == InsertAt(p, k + 1, Leaf)
  <2>1. Placed(f) = Relocated(f, Home) /\ ~InPlace(f)
    BY <1>1, <1>4 DEF Placed, InPlace
  <2>2. /\ Placed(f).path = r /\ Placed(f).tree = f.tree
        /\ Placed(f).data = f.data
    BY <1>1, <2>1, HomeSite, Relocation
  <2>3. /\ r \in Path /\ Len(r) = Len(p) + 1
        /\ \A i \in 1..k : r[i] = p[i]
        /\ r[k + 1] = Leaf
        /\ \A i \in k + 1..Len(p) : r[i + 1] = p[i]
    BY <1>1, Inserted
  <2> HIDE DEF r
  <2>4. \A i \in 1..k + 1 : c[i] = r[i]
    BY <1>1, <1>2, <2>3
  <2>5. IsStrictPrefix(c, r)
    BY <1>1, <1>2, <2>3, <2>4, StrictPrefix
  <2>6. OwnPath(f) = SubSeq(p, k + 1, Len(p))
    BY <1>4 DEF OwnPath
  <2>7. SubSeq(p, k + 1, Len(p)) = SubSeq(r, k + 2, Len(r))
    <3> DEFINE a == SubSeq(p, k + 1, Len(p))
               b == SubSeq(r, k + 2, Len(r))
    <3>1. /\ a \in Path /\ Len(a) = Len(p) - k
          /\ \A i \in 1..Len(p) - k : a[i] = p[k + i]
      BY <1>1 DEF Path
    <3>2. /\ b \in Path /\ Len(b) = Len(p) - k
          /\ \A i \in 1..Len(p) - k : b[i] = r[k + 1 + i]
      BY <1>1, <2>3 DEF Path
    <3>3. ASSUME NEW i \in 1..Len(p) - k PROVE r[k + 1 + i] = p[k + i]
      <4>1. k + i \in k + 1..Len(p) /\ (k + i) + 1 = k + 1 + i
        BY <1>1
      <4> QED BY <2>3, <4>1
    <3> HIDE DEF a, b
    <3>4. \A i \in 1..Len(a) : a[i] = b[i]
      BY <3>1, <3>2, <3>3
    <3> QED BY <3>1, <3>2, <3>4, SeqEqual DEF Path, a, b
  <2> QED BY <1>1, <1>2, <2>2, <2>5, <2>6, <2>7
<1> QED BY <1>3, <1>4

(* Whatever is there is a file of the site.                                *)
LEMMA ServedIsOwn ==
  ASSUME before \subseteq File, NEW f \in before, Placed(f).tree = "sites",
         IsStrictPrefix(ContentDir(Home), Placed(f).path)
  PROVE  f \in OwnFiles(before)
<1>1. f \in File /\ Placed(f) \in File /\ Placed(f).tree = f.tree
  BY PlacedIsInPlace
<1>2. CASE InPlace(f)
  <2>1. Placed(f) = f /\ IsStrictPrefix(ContentDir(Home), f.path)
    BY <1>2 DEF Placed
  <2>2. f.path # ContentDir(Home)
    BY <2>1 DEF IsStrictPrefix
  <2> QED BY <1>1, <2>1, <2>2, BelowLeaf, HomeSite DEF OwnFiles, Owners
<1>3. CASE ~InPlace(f)
  <2>1. Owner(f) = Home
    BY <1>1, <1>3, BelowLeaf, PlacedIsInPlace
  <2>2. /\ IsStrictPrefix(Home, f.path)
        /\ f.path[Len(Home) + 1] \notin ChildSegments(Home) \union {Leaf}
    BY <1>1, <1>3, <2>1, OwnerOfLoose
  <2>3. f.path # ContentDir(Home)
    BY <2>2, HomeSite
  <2> QED BY <1>1, <2>1, <2>2, <2>3, HomeSite DEF OwnFiles, Owners
<1> QED BY <1>2, <1>3

(* No two files have the same place.                                       *)
LEMMA OwnPlace ==
  ASSUME Unambiguous(before), before \subseteq File,
         NEW f \in before, NEW g \in before,
         Placed(f).tree = Placed(g).tree, Placed(f).path = Placed(g).path
  PROVE  f = g
<1>1. /\ f \in File /\ g \in File /\ f.tree = g.tree
      /\ \A a, b \in before : a.tree = b.tree /\ a.path = b.path => a = b
  BY PlacedIsInPlace DEF Unambiguous
<1>2. ASSUME NEW a \in before, NEW b \in before, ~InPlace(a), InPlace(b),
             a.tree = b.tree, Placed(a).path = Placed(b).path
      PROVE  FALSE
  <2> DEFINE q == Placed(a).path
             n == Len(Owner(a)) + 2
  <2>1. q = b.path
    BY <1>2 DEF Placed
  <2>2. /\ Owner(a) \in Registered /\ IsStrictPrefix(Owner(a), a.path)
        /\ a \in File /\ Placed(a) = Relocated(a, Owner(a))
    BY <1>2, OwnerOfLoose, PlacedIsInPlace
  <2>3. /\ a.path \in Path /\ Len(a.path) \in Nat
        /\ Len(Owner(a)) \in Nat /\ Len(Owner(a)) < Len(a.path)
    BY <2>2, FilePath, Site, StrictPrefix DEF MaxDepth
  <2>4. q \in Path /\ Len(q) = Len(a.path) + 1
    <3>1. q = InsertAt(a.path, Len(Owner(a)) + 1, Leaf)
      BY <2>2, Relocation
    <3>2. Len(Owner(a)) <= Len(a.path)
      BY <2>3
    <3> QED BY <2>3, <3>1, <3>2, Inserted
  <2> HIDE DEF q
  <2>5. n \in 1..Len(q)
    BY <2>3, <2>4
  <2> HIDE DEF n
  <2>6. /\ SubSeq(q, 1, n) \in Path /\ Len(SubSeq(q, 1, n)) = n
        /\ \A i \in 1..n : SubSeq(q, 1, n)[i] = q[i]
    BY <2>3, <2>4, <2>5 DEF Path
  <2>7. IsPrefix(SubSeq(q, 1, n), q)
    <3>1. n <= Len(q)
      BY <2>3, <2>4, <2>5
    <3> QED BY <2>4, <2>6, <3>1, Prefix
  <2> QED BY <1>2, <2>1, <2>7 DEF Unambiguous, q, n
<1>3. CASE InPlace(f) /\ InPlace(g)
  BY <1>1, <1>3 DEF Placed
<1>4. CASE ~InPlace(f) /\ ~InPlace(g)
  BY <1>1, <1>4, PlacedOnce
<1> QED BY <1>1, <1>2, <1>3, <1>4

(* Two paths below a directory are the same if what follows it is.         *)
LEMMA SameRest ==
  ASSUME NEW c \in Path, NEW p \in Path, NEW q \in Path,
         IsStrictPrefix(c, p), IsStrictPrefix(c, q),
         SubSeq(p, Len(c) + 1, Len(p)) = SubSeq(q, Len(c) + 1, Len(q))
  PROVE  p = q
<1> DEFINE k == Len(c)
           a == SubSeq(p, k + 1, Len(p))
           b == SubSeq(q, k + 1, Len(q))
<1>1. /\ k \in Nat /\ Len(p) \in Nat /\ Len(q) \in Nat
      /\ k < Len(p) /\ k < Len(q)
      /\ \A i \in 1..k : c[i] = p[i] /\ c[i] = q[i]
  <2>1. k \in Nat /\ Len(p) \in Nat /\ Len(q) \in Nat
    BY DEF Path
  <2> QED BY <2>1, StrictPrefix
<1>2. Len(a) = Len(p) - k /\ \A i \in 1..Len(p) - k : a[i] = p[k + i]
  BY <1>1 DEF Path
<1>3. Len(b) = Len(q) - k /\ \A i \in 1..Len(q) - k : b[i] = q[k + i]
  BY <1>1 DEF Path
<1>4. a = b
  OBVIOUS
<1> HIDE DEF a, b
<1>5. Len(p) = Len(q)
  BY <1>1, <1>2, <1>3, <1>4
<1>6. ASSUME NEW i \in 1..Len(p) PROVE p[i] = q[i]
  <2>1. CASE i <= k
    BY <1>1, <2>1
  <2>2. CASE i > k
    <3>1. i - k \in 1..Len(p) - k /\ k + (i - k) = i
      BY <1>1, <2>2
    <3> QED BY <1>2, <1>3, <1>4, <1>5, <3>1
  <2> QED BY <1>1, <2>1, <2>2
<1> QED BY <1>5, <1>6, SeqEqual DEF Path

ServedInv ==
  /\ phase # "offline" => run = "finished"
  /\ phase = "upgraded" => live = Below("sites", ContentDir(Home))

LEMMA VolumeInvariant == VolumeSpec => [](IInv /\ ServedInv)
<1>1. VolumeInit => IInv /\ ServedInv
  BY Initial DEF VolumeInit, ServedInv
<1>2. ASSUME IInv, ServedInv, [VolumeNext]_allVars
      PROVE  IInv' /\ ServedInv'
  <2>1. [MigrateNext]_volumeVars
    BY <1>2 DEF VolumeNext, Maintain, StartServer, Serve, allVars
  <2>2. IInv'
    BY <1>2, <2>1, Inductive
  <2>3. CASE Maintain
    <3>1. phase' = "offline"
      BY <2>3 DEF Maintain
    <3> QED BY <2>2, <3>1 DEF ServedInv
  <2>4. CASE UNCHANGED volumeVars /\ (StartServer \/ Serve \/ UNCHANGED allVars)
    <3>1. run' = run /\ vol' = vol
      BY <2>4 DEF volumeVars
    <3>2. Below("sites", ContentDir(Home))' = Below("sites", ContentDir(Home))
      BY <3>1 DEF Below, ContentDir
    <3> QED BY <1>2, <2>2, <2>4, <3>1, <3>2
            DEF StartServer, Serve, allVars, ServedInv
  <2> QED BY <1>2, <2>2, <2>3, <2>4
          DEF VolumeNext, StartServer, Serve, allVars
<1> QED BY <1>1, <1>2, PTL DEF VolumeSpec

(* Volume: after the upgrade a site reads as it did before, whatever the   *)
(* registry and the volume, and however often the command died on the way: *)
(* every file of its own is served under the path it had, with what it     *)
(* held, and no file of a site nested under it.                            *)
THEOREM UpgradeIsInvisible == VolumeSpec => []MigratedSiteReads
<1>1. IInv => MigratedInFull
  BY FinishedInFull
<1>2. ASSUME IInv, ServedInv, phase = "upgraded", Unambiguous(before)
      PROVE  /\ DOMAIN live = {OwnPath(f) : f \in OwnFiles(before)}
             /\ \A f \in OwnFiles(before) : live[OwnPath(f)] = f.data
  <2> DEFINE c == ContentDir(Home)
             files == {g \in vol : g.tree = "sites" /\ IsStrictPrefix(c, g.path)}
             rest(p) == SubSeq(p, Len(c) + 1, Len(p))
             held(p) == (CHOOSE g \in files : rest(g.path) = p).data
  <2>1. vol = {Placed(f) : f \in before} /\ before \subseteq File
    BY <1>1, <1>2, MigrateAssumption DEF ServedInv, MigratedInFull, IInv, TypeInv
  <2>2. live = [p \in {rest(g.path) : g \in files} |-> held(p)]
    BY <1>2 DEF ServedInv, Below
  <2>3. ASSUME NEW f \in OwnFiles(before)
        PROVE  /\ f \in before /\ Placed(f) \in files
               /\ OwnPath(f) = rest(Placed(f).path) /\ Placed(f).data = f.data
    <3>1. f \in before /\ f \in File
      BY <2>1 DEF OwnFiles
    <3> QED BY <2>1, <3>1, OwnIsServed
  <2>4. ASSUME NEW g \in files
        PROVE  \E f \in OwnFiles(before) : g = Placed(f)
    <3>1. PICK f \in before : g = Placed(f)
      BY <2>1
    <3> QED BY <2>1, <3>1, ServedIsOwn
  <2>5. ASSUME NEW f \in OwnFiles(before), NEW g \in files,
               rest(g.path) = OwnPath(f)
        PROVE  g = Placed(f)
    <3>1. PICK h \in OwnFiles(before) : g = Placed(h)
      BY <2>4
    <3>2. /\ f \in File /\ h \in File /\ h \in before /\ f \in before
          /\ Placed(f).path \in Path /\ g.path \in Path /\ c \in Path
      BY <2>1, <2>3, <3>1, PlacedIsInPlace, FilePath, HomeSite
    <3>3. g.path = Placed(f).path
      BY <2>3, <2>5, <3>2, SameRest
    <3> QED BY <1>2, <2>1, <2>3, <3>1, <3>2, <3>3, OwnPlace
  <2> HIDE DEF files, rest
  <2>6. {rest(g.path) : g \in files} = {OwnPath(f) : f \in OwnFiles(before)}
    BY <2>3, <2>4
  <2>7. ASSUME NEW f \in OwnFiles(before)
        PROVE  held(OwnPath(f)) = f.data
    <3>1. PICK g \in files : g = (CHOOSE h \in files : rest(h.path) = OwnPath(f))
                             /\ rest(g.path) = OwnPath(f)
      BY <2>3
    <3> QED BY <2>3, <2>5, <3>1
  <2> HIDE DEF held
  <2>8. DOMAIN live = {OwnPath(f) : f \in OwnFiles(before)}
    BY <2>2, <2>6
  <2>9. ASSUME NEW f \in OwnFiles(before)
        PROVE  live[OwnPath(f)] = f.data
    BY <2>2, <2>3, <2>7
  <2> QED BY <2>8, <2>9
<1>3. IInv /\ ServedInv => MigratedSiteReads
  BY <1>2 DEF MigratedSiteReads
<1> QED BY <1>3, VolumeInvariant, PTL

-----------------------------------------------------------------------------
(* Volume: the server on an upgraded volume.                               *)

(* What a file system holds.                                               *)
FileTree(v) ==
  /\ IsFiniteSet(v)
  /\ \A f, g \in v : f.tree = g.tree /\ IsPrefix(f.path, g.path) => f = g

(* What follows a directory, of a path below it.                           *)
LEMMA RestOf ==
  ASSUME NEW c \in Path, NEW p \in Path, IsStrictPrefix(c, p)
  PROVE  LET r == SubSeq(p, Len(c) + 1, Len(p))
         IN  /\ r \in Path /\ r # << >> /\ Len(r) = Len(p) - Len(c)
             /\ Len(c) \in Nat /\ Len(p) \in Nat /\ Len(c) < Len(p)
             /\ \A i \in 1..Len(p) - Len(c) : r[i] = p[Len(c) + i]
<1> DEFINE k == Len(c)
           n == Len(p)
           r == SubSeq(p, k + 1, n)
<1>1. k \in Nat /\ n \in Nat /\ k < n
  <2>1. k \in Nat /\ n \in Nat
    BY DEF Path
  <2> QED BY <2>1, StrictPrefix
<1>2. r \in Path /\ Len(r) = n - k /\ \A i \in 1..n - k : r[i] = p[k + i]
  BY <1>1 DEF Path
<1>3. r # << >>
  <2> HIDE DEF r
  <2>1. Len(<< >>) = 0
    OBVIOUS
  <2> QED BY <1>1, <1>2, <2>1
<1> QED BY <1>1, <1>2, <1>3

(* If it comes first in what follows it of another one, so do they.        *)
LEMMA PrefixRest ==
  ASSUME NEW c \in Path, NEW p \in Path, NEW q \in Path,
         IsStrictPrefix(c, p), IsStrictPrefix(c, q),
         IsPrefix(SubSeq(p, Len(c) + 1, Len(p)), SubSeq(q, Len(c) + 1, Len(q)))
  PROVE  IsPrefix(p, q)
<1> DEFINE k == Len(c)
           a == SubSeq(p, k + 1, Len(p))
           b == SubSeq(q, k + 1, Len(q))
<1>1. /\ k \in Nat /\ Len(p) \in Nat /\ Len(q) \in Nat
      /\ k < Len(p) /\ k < Len(q)
      /\ \A i \in 1..k : c[i] = p[i] /\ c[i] = q[i]
  <2>1. k \in Nat /\ Len(p) \in Nat /\ Len(q) \in Nat
    BY DEF Path
  <2> QED BY <2>1, StrictPrefix
<1>2. a \in Path /\ Len(a) = Len(p) - k /\ \A i \in 1..Len(p) - k : a[i] = p[k + i]
  BY RestOf
<1>3. b \in Path /\ Len(b) = Len(q) - k /\ \A i \in 1..Len(q) - k : b[i] = q[k + i]
  BY RestOf
<1>4. Len(a) <= Len(b) /\ \A i \in 1..Len(a) : a[i] = b[i]
  <2>1. IsPrefix(a, b)
    OBVIOUS
  <2> HIDE DEF a, b
  <2> QED BY <1>2, <1>3, <2>1, Prefix
<1> HIDE DEF a, b
<1>5. Len(p) <= Len(q)
  BY <1>1, <1>2, <1>3, <1>4
<1>6. ASSUME NEW i \in 1..Len(p) PROVE p[i] = q[i]
  <2>1. CASE i <= k
    BY <1>1, <2>1
  <2>2. CASE i > k
    <3>1. i - k \in 1..Len(p) - k /\ k + (i - k) = i
      BY <1>1, <2>2
    <3>2. a[i - k] = p[i] /\ b[i - k] = q[i]
      <4>1. i - k \in 1..Len(q) - k
        BY <1>1, <1>5, <3>1
      <4> QED BY <1>2, <1>3, <3>1, <4>1
    <3> QED BY <1>2, <1>4, <3>1, <3>2
  <2> QED BY <1>1, <2>1, <2>2
<1> QED BY <1>5, <1>6, Prefix

(* Where a file was goes before where another one was, if it now does.     *)
LEMMA PrefixMoved ==
  ASSUME NEW f \in File, NEW g \in File, NEW s \in Registered,
         IsStrictPrefix(s, f.path), IsStrictPrefix(s, g.path),
         IsPrefix(Relocated(f, s).path, Relocated(g, s).path)
  PROVE  IsPrefix(f.path, g.path)
<1> DEFINE p == f.path
           q == g.path
           k == Len(s)
           a == InsertAt(p, k + 1, Leaf)
           b == InsertAt(q, k + 1, Leaf)
<1>1. /\ p \in Path /\ q \in Path /\ s \in Path
      /\ k \in Nat /\ Len(p) \in Nat /\ Len(q) \in Nat
  BY FilePath, Site DEF MaxDepth
<1>2. k < Len(p) /\ k < Len(q) /\ \A i \in 1..k : s[i] = p[i] /\ s[i] = q[i]
  BY <1>1, StrictPrefix
<1>3. k <= Len(p) /\ k <= Len(q)
  BY <1>1, <1>2
<1>4. /\ a \in Path /\ Len(a) = Len(p) + 1
      /\ \A i \in k + 1..Len(p) : a[i + 1] = p[i]
  BY <1>1, <1>3, Inserted
<1>5. /\ b \in Path /\ Len(b) = Len(q) + 1
      /\ \A i \in k + 1..Len(q) : b[i + 1] = q[i]
  BY <1>1, <1>3, Inserted
<1>6. IsPrefix(a, b)
  BY Relocation
<1> HIDE DEF a, b, p, q
<1>7. Len(a) <= Len(b) /\ \A i \in 1..Len(a) : a[i] = b[i]
  BY <1>4, <1>5, <1>6, Prefix
<1>8. Len(p) <= Len(q)
  BY <1>1, <1>4, <1>5, <1>7
<1>9. ASSUME NEW i \in 1..Len(p) PROVE p[i] = q[i]
  <2>1. CASE i <= k
    BY <1>1, <1>2, <2>1
  <2>2. CASE i > k
    <3>1. i \in k + 1..Len(p) /\ i \in k + 1..Len(q) /\ i + 1 \in 1..Len(a)
      BY <1>1, <1>4, <1>8, <2>2
    <3> QED BY <1>4, <1>5, <1>7, <3>1
  <2> QED BY <1>1, <2>1, <2>2
<1>10. IsPrefix(p, q)
  BY <1>1, <1>8, <1>9, Prefix
<1> QED BY <1>10 DEF p, q

(* What comes before a path in the leaf, or after one.                     *)
LEMMA AroundLeaf ==
  ASSUME NEW f \in File, NEW g \in File, NEW s \in Registered, NEW n \in Names,
         IsPrefix(f.path, g.path)
  PROVE  LET e == s \o <<Leaf, n>>
         IN  /\ IsPrefix(e, f.path) => IsPrefix(e, g.path)
             /\ IsPrefix(e, g.path) => \/ IsPrefix(e, f.path)
                                      \/ IsPrefix(f.path, Append(s, Leaf))
<1> DEFINE p == f.path
           q == g.path
           k == Len(s)
           e == s \o <<Leaf, n>>
           d == Append(s, Leaf)
<1>1. /\ p \in Path /\ q \in Path /\ s \in Path
      /\ k \in Nat /\ Len(p) \in Nat /\ Len(q) \in Nat
  BY FilePath, Site DEF MaxDepth
<1>2. /\ e \in Path /\ Len(e) = k + 2 /\ e[k + 1] = Leaf
      /\ \A i \in 1..k : e[i] = s[i]
  BY <1>1, InLeaf
<1>3. /\ d \in Path /\ Len(d) = k + 1 /\ d[k + 1] = Leaf
      /\ \A i \in 1..k : d[i] = s[i]
  BY <1>1, Appended, MigrateAssumption
<1>4. IsPrefix(p, q)
  OBVIOUS
<1> HIDE DEF e, d, p, q
<1>5. Len(p) <= Len(q) /\ \A i \in 1..Len(p) : p[i] = q[i]
  BY <1>1, <1>4, Prefix
<1>6. ASSUME IsPrefix(e, p) PROVE IsPrefix(e, q)
  <2>1. Len(e) <= Len(p) /\ \A i \in 1..Len(e) : e[i] = p[i]
    BY <1>1, <1>2, <1>6, Prefix
  <2>2. Len(e) <= Len(q) /\ \A i \in 1..Len(e) : e[i] = q[i]
    BY <1>1, <1>2, <1>5, <2>1
  <2> QED BY <1>1, <1>2, <2>2, Prefix
<1>7. ASSUME IsPrefix(e, q) PROVE IsPrefix(e, p) \/ IsPrefix(p, d)
  <2>1. Len(e) <= Len(q) /\ \A i \in 1..Len(e) : e[i] = q[i]
    BY <1>1, <1>2, <1>7, Prefix
  <2>2. CASE Len(p) >= k + 2
    <3>1. Len(e) <= Len(p) /\ \A i \in 1..Len(e) : e[i] = p[i]
      BY <1>1, <1>2, <1>5, <2>1, <2>2
    <3> QED BY <1>1, <1>2, <3>1, Prefix
  <2>3. CASE Len(p) < k + 2
    <3>1. Len(p) <= Len(d)
      BY <1>1, <1>3, <2>3
    <3>2. \A i \in 1..k + 1 : d[i] = e[i]
      BY <1>1, <1>2, <1>3
    <3>3. \A i \in 1..Len(p) : i \in 1..k + 1 /\ i \in 1..Len(e)
      BY <1>1, <1>2, <2>3
    <3>4. \A i \in 1..Len(p) : p[i] = d[i]
      BY <1>5, <2>1, <3>2, <3>3
    <3> QED BY <1>1, <1>3, <3>1, <3>4, Prefix
  <2> QED BY <1>1, <2>2, <2>3
<1> QED BY <1>6, <1>7 DEF e, d, p, q

(* Renames make no file of what is a directory, nor the other way round.   *)
LEMMA MoveKeepsTree ==
  ASSUME IInv, FileTree(vol), NEW n \in loose, Move(n)
  PROVE  FileTree(vol)'
<1> DEFINE t == Trees[tree]
           moved == Within(t, Append(site, n))
           there == Within(t, site \o <<Leaf, n>>)
           new == {Relocated(f, site) : f \in moved}
<1>1. /\ site \in Registered /\ n \in Loose(t, site) /\ vol \subseteq File
      /\ n \in Names
  <2>1. /\ site \in Registered /\ n \in Loose(t, site) /\ vol \subseteq File
    BY DEF IInv, TypeInv, LooseInv, Move
  <2> QED BY <2>1, LooseName, NextName
<1>2. vol' = (vol \ (moved \union there)) \union new
  BY DEF Move
<1>3. ~FileAt(t, Append(site, Leaf))
  BY DEF Move
<1>4. ASSUME NEW f \in moved
      PROVE  /\ f \in vol /\ f \in File /\ f.tree = t
             /\ IsStrictPrefix(site, f.path)
             /\ Relocated(f, site) \in File /\ Relocated(f, site).tree = t
             /\ IsPrefix(site \o <<Leaf, n>>, Relocated(f, site).path)
  <2>1. /\ f \in vol /\ f \in File /\ f.tree = t
        /\ IsStrictPrefix(site, f.path) /\ f.path[Len(site) + 1] = n
    BY <1>1, Taken
  <2> DEFINE r == Relocated(f, site)
             k == Len(site) + 2
  <2>2. /\ r \in File /\ r.tree = t
        /\ r.path = InsertAt(f.path, Len(site) + 1, Leaf)
    BY <1>1, <2>1, Relocation
  <2>3. SubSeq(r.path, 1, k) = site \o <<Leaf, n>>
    BY <1>1, <2>1, EntryInLeaf
  <2>4. /\ r.path \in Path /\ Len(r.path) \in Nat /\ k \in Nat /\ k <= Len(r.path)
    <3>1. /\ f.path \in Path /\ Len(f.path) \in Nat /\ Len(site) \in Nat
          /\ Len(site) < Len(f.path)
      BY <1>1, <2>1, FilePath, Site, StrictPrefix DEF MaxDepth
    <3>2. Len(site) <= Len(f.path)
      BY <3>1
    <3>3. Len(r.path) = Len(f.path) + 1 /\ r.path \in Path
      BY <2>2, <3>1, <3>2, Inserted
    <3> QED BY <3>1, <3>3
  <2> HIDE DEF r, k
  <2>5. IsPrefix(SubSeq(r.path, 1, k), r.path)
    <3>1. /\ SubSeq(r.path, 1, k) \in Path /\ Len(SubSeq(r.path, 1, k)) = k
          /\ \A i \in 1..k : SubSeq(r.path, 1, k)[i] = r.path[i]
      BY <2>4 DEF Path
    <3> QED BY <2>4, <3>1, Prefix
  <2>6. IsPrefix(site \o <<Leaf, n>>, r.path)
    BY <2>3, <2>5
  <2> QED BY <2>1, <2>2, <2>6 DEF r
<1>5. IsFiniteSet(vol')
  <2>1. moved \subseteq vol /\ vol \ (moved \union there) \subseteq vol
    BY <1>4
  <2>2. IsFiniteSet(moved) /\ IsFiniteSet(vol \ (moved \union there))
    BY <2>1, FS_Subset DEF FileTree
  <2> DEFINE h == [f \in moved |-> Relocated(f, site)]
  <2>3. h \in Surjection(moved, new)
    BY DEF Surjection
  <2>4. IsFiniteSet(new)
    <3> HIDE DEF h, new, moved
    <3> QED BY <2>2, <2>3, FS_Surjection
  <2> HIDE DEF moved, there, new
  <2> QED BY <1>2, <2>2, <2>4, FS_Union
<1>6. ASSUME NEW f \in vol', NEW g \in vol', f.tree = g.tree, IsPrefix(f.path, g.path)
      PROVE  f = g
  <2> DEFINE e == site \o <<Leaf, n>>
  <2>1. ASSUME NEW h \in vol', h \notin new
        PROVE  h \in vol /\ h \in File /\ ~(h.tree = t /\ IsPrefix(e, h.path))
    <3>1. h \in vol /\ h \notin there
      BY <1>2, <2>1
    <3> QED BY <1>1, <3>1 DEF Within
  <2>2. CASE f \notin new /\ g \notin new
    <3>1. f \in vol /\ g \in vol
      BY <2>1, <2>2
    <3> QED BY <1>6, <3>1 DEF FileTree
  <2>3. CASE f \in new /\ g \in new
    <3>1. PICK a \in moved, b \in moved :
            f = Relocated(a, site) /\ g = Relocated(b, site)
      BY <2>3
    <3>2. IsPrefix(a.path, b.path)
      BY <1>1, <1>4, <1>6, <3>1, PrefixMoved
    <3>3. a = b
      <4>1. a \in vol /\ b \in vol /\ a.tree = b.tree
        BY <1>4
      <4> QED BY <3>2, <4>1 DEF FileTree
    <3> QED BY <3>1, <3>3
  <2>4. CASE f \in new /\ g \notin new
    <3>1. f \in File /\ f.tree = t /\ IsPrefix(e, f.path)
      BY <1>4, <2>4
    <3>2. g \in File /\ ~(g.tree = t /\ IsPrefix(e, g.path))
      BY <2>1, <2>4
    <3>3. IsPrefix(e, g.path)
      <4> HIDE DEF new
      <4> QED BY <1>1, <1>6, <3>1, <3>2, AroundLeaf
    <3> QED BY <1>6, <3>1, <3>2, <3>3
  <2>5. CASE f \notin new /\ g \in new
    <3>1. g \in File /\ g.tree = t /\ IsPrefix(e, g.path)
      BY <1>4, <2>5
    <3>2. f \in vol /\ f \in File /\ ~(f.tree = t /\ IsPrefix(e, f.path))
      BY <2>1, <2>5
    <3>3. IsPrefix(e, f.path) \/ IsPrefix(f.path, Append(site, Leaf))
      <4> HIDE DEF new
      <4> QED BY <1>1, <1>6, <3>1, <3>2, AroundLeaf
    <3>4. IsPrefix(f.path, Append(site, Leaf))
      BY <1>6, <3>1, <3>2, <3>3
    <3> QED BY <1>3, <1>6, <3>1, <3>2, <3>4 DEF FileAt
  <2> QED BY <2>2, <2>3, <2>4, <2>5
<1> HIDE DEF moved, there, new
<1> QED BY <1>5, <1>6 DEF FileTree

(* What lies below the leaf of the site is a directory to the server.      *)
LEMMA ServedDirectory ==
  ASSUME vol \subseteq File, FileTree(vol)
  PROVE  Directory(Below("sites", ContentDir(Home)))
<1> DEFINE c == ContentDir(Home)
           files == {g \in vol : g.tree = "sites" /\ IsStrictPrefix(c, g.path)}
           rest(p) == SubSeq(p, Len(c) + 1, Len(p))
           held(p) == (CHOOSE g \in files : rest(g.path) = p).data
           D == {rest(g.path) : g \in files}
           L == Below("sites", c)
<1>1. L = [p \in D |-> held(p)]
  BY DEF Below
<1>2. c \in Path
  BY HomeSite
<1>3. ASSUME NEW g \in files
      PROVE  /\ g \in vol /\ g \in File /\ g.tree = "sites" /\ g.path \in Path
             /\ IsStrictPrefix(c, g.path) /\ g.data \in Text
  <2>1. g \in vol /\ g \in File /\ g.tree = "sites" /\ IsStrictPrefix(c, g.path)
    OBVIOUS
  <2>2. g.data \in Text
    BY <2>1 DEF File, Text
  <2> QED BY <2>1, <2>2, FilePath
<1>4. IsFiniteSet(D)
  <2>1. files \subseteq vol
    OBVIOUS
  <2>2. IsFiniteSet(files)
    BY <2>1, FS_Subset DEF FileTree
  <2> DEFINE h == [g \in files |-> rest(g.path)]
  <2>3. h \in Surjection(files, D)
    BY DEF Surjection
  <2> HIDE DEF h, D, files, rest
  <2> QED BY <2>2, <2>3, FS_Surjection
<1>5. ASSUME NEW p \in D PROVE held(p) \in Text
  <2>1. PICK g \in files : g = (CHOOSE h \in files : rest(h.path) = p)
    OBVIOUS
  <2> QED BY <1>3, <2>1
<1>6. ASSUME NEW p \in D PROVE p \in Seq(Plain) /\ p # << >>
  <2>1. PICK g \in files : p = rest(g.path)
    OBVIOUS
  <2>2. p \in Seq(Names) /\ p # << >>
    BY <1>2, <1>3, <2>1, RestOf DEF Path
  <2>3. Names \subseteq Plain
    BY VolumeAssumption DEF Plain
  <2> HIDE DEF D
  <2> QED BY <2>2, <2>3, SequencesOf
<1>7. ASSUME NEW p \in D, NEW q \in D PROVE p \notin Above(q)
  <2>1. SUFFICES ASSUME p \in Above(q) PROVE FALSE
    OBVIOUS
  <2>2. PICK f \in files, g \in files : p = rest(f.path) /\ q = rest(g.path)
    OBVIOUS
  <2>3. p \in Prefixes(q) /\ p # q
    BY <2>1 DEF Above
  <2>4. IsPrefix(p, q)
    BY <1>6, <2>3, PrefixOf
  <2>5. IsPrefix(f.path, g.path)
    BY <1>2, <1>3, <2>2, <2>4, PrefixRest
  <2>6. f = g
    BY <1>3, <2>5 DEF FileTree
  <2> QED BY <2>2, <2>3, <2>6
<1> HIDE DEF D, held
<1>8. DOMAIN L = D /\ \A p \in D : L[p] = held(p)
  BY <1>1
<1>9. L = [p \in DOMAIN L |-> L[p]]
  BY <1>1
<1> HIDE DEF L
<1>10. Files(L)
  BY <1>4, <1>5, <1>8 DEF Files
<1>11. Directory(L)
  BY <1>6, <1>7, <1>8, <1>9, <1>10 DEF Directory
<1> QED BY <1>11 DEF L

(* Nothing but the command touches the volume.                             *)
LEMMA VolumeMigrates == VolumeSpec => MigrateSpec
<1>1. VolumeInit => MigrateInit
  BY DEF VolumeInit
<1>2. [VolumeNext]_allVars => [MigrateNext]_volumeVars
  BY DEF VolumeNext, Maintain, StartServer, Serve, allVars
<1> QED BY <1>1, <1>2, PTL DEF VolumeSpec, MigrateSpec

LEMMA VolumeIsTree == MigrateSpec => []FileTree(vol)
<1>1. MigrateInit => FileTree(vol)
  BY VolumeAssumption DEF MigrateInit, FileTree
<1>2. ASSUME IInv, FileTree(vol), [MigrateNext]_volumeVars PROVE FileTree(vol)'
  <2>1. CASE \E n \in loose : Move(n)
    BY <1>2, <2>1, MoveKeepsTree
  <2>2. CASE vol' = vol
    BY <1>2, <2>2 DEF FileTree
  <2> QED BY <1>2, <2>1, <2>2
          DEF MigrateNext, MigrateStep, StartMigration, TakeSite, ReadDir, NextTree,
              FinishMigration, MigrationFails, volumeVars
<1> QED BY <1>1, <1>2, Invariant, PTL DEF MigrateSpec

LEMMA VolumeServing == VolumeSpec => [](UploadInv /\ SessionOK)
<1>1. VolumeInit => UploadInv /\ SessionOK
  <2>1. ReadInit => UploadInit /\ SessionOK
    BY DEF ReadInit, SessionOK
  <2> QED BY <2>1, UploadInvBegins DEF VolumeInit
<1>2. ASSUME IInv, FileTree(vol), UploadInv, SessionOK, [VolumeNext]_allVars
      PROVE  (UploadInv /\ SessionOK)'
  <2>1. CASE Serve \/ UNCHANGED <<live, up, ses>>
    <3>1. [ContentStep]_<<live, up, ses>>
      BY <2>1 DEF Serve
    <3>2. [UploadStep]_<<live, up>>
      BY <3>1 DEF ContentStep, Reading, Open, NextPage, Close
    <3> QED BY <1>2, <3>1, <3>2, UploadInvKept, SessionKept
  <2>2. CASE StartServer
    <3>1. up' = up /\ ses' = ses /\ live' = Below("sites", ContentDir(Home))
      BY <2>2 DEF StartServer
    <3>2. vol \subseteq File
      BY <1>2 DEF IInv, TypeInv
    <3>3. Directory(live')
      BY <1>2, <3>1, <3>2, ServedDirectory
    <3>4. UploadInv'
      BY <1>2, <3>1, <3>3
      DEF UploadInv, UploadOK, Directory, Files, Readable, CapInv, Size, TakenInv,
          LiveOK, CopyOK, Started, Progress, Done
    <3>5. SessionOK'
      BY <1>2, <3>1 DEF SessionOK, PagesAdvance, ReadSoFar
    <3> QED BY <3>4, <3>5
  <2> QED BY <1>2, <2>1, <2>2 DEF VolumeNext, Maintain, allVars
<1> QED BY <1>1, <1>2, VolumeMigrates, VolumeIsTree, Invariant, PTL DEF VolumeSpec

(* From an upgrade on, through every upload, download and reading of what  *)
(* was migrated and of what replaces it, all that is promised of each of   *)
(* the parts holds of the whole.                                           *)
THEOREM UpgradedVolumesServe ==
  VolumeSpec => /\ [](NothingLost /\ MigratedInFull) /\ PlacedFilesStay
                /\ [](StagedWithinCap /\ UploadTakenAsAWhole /\ DownloadRepublishes)
                /\ [](PagesReadTheFile /\ PagesAdvance)
<1>1. UploadInv => StagedWithinCap /\ UploadTakenAsAWhole /\ DownloadRepublishes
  BY UploadInvPromises
<1>2. SessionOK => PagesReadTheFile /\ PagesAdvance
  BY SessionPromises
<1> QED BY <1>1, <1>2, VolumeServing, VolumeMigrates, MigrationLosesNothing,
           FullRunCompletes, MigratedFilesStay, PTL
=============================================================================
