------------------------------ MODULE SitePaths ------------------------------
(***************************************************************************)
(* How a site is named (internal/router/sitepath.go): as a group and a     *)
(* slug in a request, as a path in the registry and on disk, and as a host *)
(* name to visitors.                                                       *)
(*                                                                         *)
(* A string made of segments, separated by "/" or ".", is the sequence of  *)
(* these segments; a segment is a label, another spelling of a label, the  *)
(* empty segment, or something that is no label at all. "" is Root.        *)
(***************************************************************************)
EXTENDS Naturals, Sequences, FiniteSets, SequencesExt

CONSTANTS
  Labels,     \* the segments that match LabelPattern
  Spellings,  \* a function: spelled otherwise (upper case) |-> label
  Empty,      \* the empty segment
  Domains     \* the domains the instance answers on, as sequences

(* A sequence, whatever it is made of.                                     *)
IsString(s) == s \in Seq({s[i] : i \in DOMAIN s})

ASSUME SegmentAssumption ==
  /\ \A x \in DOMAIN Spellings : Spellings[x] \in Labels
  /\ DOMAIN Spellings \intersect Labels = {}
  /\ Empty \notin Labels \union DOMAIN Spellings
  /\ \A b \in Domains : IsString(b)

MaxDepth == 3
Root     == <<Empty>>
NoSite   == << >>

(* The path of a site: its group segments, then its slug.                  *)
SitePath == UNION {[1..n -> Labels] : n \in 1..MaxDepth}

GroupOf(d) == IF Len(d) = 1 THEN Root ELSE Front(d)
SlugOf(d)  == <<Last(d)>>

(* The path two strings spell, which need not be one of a site.            *)
SiteDir(group, slug) == IF group = Root THEN slug ELSE group \o slug

Validate(d) == Len(d) \in 1..MaxDepth /\ \A i \in DOMAIN d : d[i] \in Labels

ToLower(s) ==
  [i \in DOMAIN s |-> IF s[i] \in DOMAIN Spellings THEN Spellings[s[i]]
                                                   ELSE s[i]]

(* The segments that are not empty, in their order.                        *)
Segments(s) ==
  LET kept    == {i \in DOMAIN s : s[i] # Empty}
      Rank(i) == Cardinality({j \in kept : j <= i})
  IN  [k \in 1..Cardinality(kept) |-> s[CHOOSE i \in kept : Rank(i) = k]]

(* Lower case, and without the empty segments of the group.                *)
NewSitePath(group, slug) ==
  LET d == Segments(ToLower(group)) \o ToLower(slug)
  IN  IF Len(slug) = 1 /\ Validate(d) THEN d ELSE NoSite

(* The path of a URL: its last segment is the slug.                        *)
ParseSitePath(rest) ==
  LET s == Segments(rest)
  IN  IF s = << >> THEN NoSite ELSE NewSitePath(Front(s), <<Last(s)>>)

-----------------------------------------------------------------------------
(* Host names.                                                             *)

Host(d, base) == Reverse(d) \o base

(* Mutant: the labels are taken in the order of the host.                  *)
ParseHostInOrder(host, base) ==
  LET d == SubSeq(ToLower(host), 1, Len(host) - Len(base))
  IN  IF Validate(d) THEN d ELSE NoSite

(* The labels before the base domain, the least specific first. The apex   *)
(* has none, and is no site.                                               *)
ParseHost(host, base) ==
  LET d == Reverse(SubSeq(ToLower(host), 1, Len(host) - Len(base)))
  IN  IF Validate(d) THEN d ELSE NoSite

(* The domains a host lies under, and the longest of them.                 *)
Under(host) == {b \in Domains : IsSuffix(b, host)}
MatchDomain(host) ==
  CHOOSE b \in Under(host) : \A c \in Under(host) : Len(c) <= Len(b)

(* The site whose directory SiteServer reads for a host.                   *)
Served(host) ==
  IF Under(host) = {} THEN NoSite ELSE ParseHost(host, MatchDomain(host))
=============================================================================
