-------------------------------- MODULE Upload --------------------------------
(***************************************************************************)
(* What of an upload goes online: the payload is unpacked entry by entry   *)
(* into a private directory (internal/archive), which replaces the live    *)
(* one as a whole (Publish of internal/ingest). The site is one, and one   *)
(* upload is unpacked at a time: they share nothing before the swap, and   *)
(* the swap itself is Publisher's subject.                                 *)
(*                                                                         *)
(* A name in an archive is the sequence of what its slashes separate, "\"  *)
(* being one. A directory is a function from the paths of its files to     *)
(* what they hold, which here matters by the byte.                         *)
(***************************************************************************)
EXTENDS Naturals, Sequences, FiniteSets, SequencesExt

CONSTANTS
  Uploads,     \* the uploads clients may send, of a kind and with entries
  MaxBytes,    \* GOTIFACTS_MAX_EXTRACT_BYTES
  MaxEntries,  \* GOTIFACTS_MAX_EXTRACT_ENTRIES
  MaxUpload    \* GOTIFACTS_MAX_UPLOAD_BYTES

ArchiveEntry == [name : Seq(STRING), type : {"file", "dir", "link", "other"},
                 data : Seq(Nat)]

(* A page is one file, and tool calls send no directories or links.        *)
UploadOf(u) ==
  /\ u.kind \in {"tar", "zip", "index", "files"}
  /\ u.entries \in Seq(ArchiveEntry)
  /\ u.kind \in {"index", "files"} =>
       \A i \in DOMAIN u.entries : u.entries[i].type = "file"
  /\ u.kind = "index" => Len(u.entries) = 1 /\ u.entries[1].name = <<"index.html">>

ASSUME UploadAssumption ==
  /\ MaxBytes \in Nat /\ MaxEntries \in Nat /\ MaxUpload \in Nat
  /\ \A u \in Uploads : UploadOf(u)

VARIABLES
  live,  \* the files that are online; NoFiles when the site is not
  up     \* the upload being unpacked, and the directory it is unpacked into

Index   == "index.html"
NoFiles == << >>

Idle == [pc |-> "idle", kind |-> "none", entries |-> << >>, at |-> 1,
         prefix |-> << >>, written |-> 0, files |-> NoFiles,
         dirs |-> {<< >>}, found |-> FALSE, result |-> "none",
         upload |-> << >>, copy |-> NoFiles]

-----------------------------------------------------------------------------
(* Names.                                                                  *)

(* cleanRel: ".." at the root stays there.                                 *)
CleanRel(name) ==
  FoldLeft(LAMBDA p, s : CASE s \in {"", "."} -> p
                           [] s = ".." /\ p = << >> -> p
                           [] s = ".." /\ p # << >> -> Front(p)
                           [] OTHER -> Append(p, s),
           << >>, name)

(* path.Clean of a relative name: ".." above it is kept.                   *)
RelClean(name) ==
  FoldLeft(LAMBDA p, s : CASE s \in {"", "."} -> p
                           [] s = ".." /\ p # << >> /\ Last(p) # ".." ->
                                Front(p)
                           [] OTHER -> Append(p, s),
           << >>, name)

Absolute(name) == Len(name) > 1 /\ name[1] = ""

(* What safeJoin refuses.                                                  *)
Escapes(name) == Absolute(name) \/ \E i \in DOMAIN name : name[i] = ".."

(* Mutant: a file at the root of the archive does not count.               *)
RootAmongFolders(entries) ==
  LET tops == {CleanRel(e.name)[1] :
                 e \in {entries[i] : i \in {j \in DOMAIN entries :
                   /\ entries[j].type # "dir"
                   /\ Len(CleanRel(entries[j].name)) > 1}}}
  IN  IF Cardinality(tops) = 1 THEN <<CHOOSE top \in tops : TRUE>> ELSE << >>

(* The folder that all files of a zip are in, if there is one: each file   *)
(* confirms it, or shows that there is none (Several).                     *)
Several == <<"">>
SingleRootPrefix(entries) ==
  LET Confirm(root, e) ==
        LET c == CleanRel(e.name)
        IN  IF root = Several \/ e.type = "dir" \/ c = << >> THEN root
            ELSE IF Len(c) > 1 /\ root \in {<< >>, <<c[1]>>} THEN <<c[1]>>
                                                            ELSE Several
      root == FoldLeft(Confirm, << >>, entries)
  IN  IF root = Several THEN << >> ELSE root

-----------------------------------------------------------------------------
(* Payloads.                                                               *)

(* What buildBundle accepts of the files of a tool call.                   *)
Bundled(u) ==
  LET name(i) == RelClean(u.entries[i].name)
      I       == DOMAIN u.entries
  IN  /\ \A i \in I : /\ ~Absolute(u.entries[i].name)
                       /\ name(i) # << >> /\ name(i)[1] # ".."
      /\ \A i, j \in I : name(i) = name(j) => i = j
      /\ SumFunction([i \in I |-> Len(u.entries[i].data)]) <= MaxUpload
      /\ \E i \in I : name(i) = <<Index>>

(* The archive it makes of them.                                           *)
BuildBundle(u) ==
  [i \in DOMAIN u.entries |->
     [name |-> RelClean(u.entries[i].name), type |-> "file",
      data |-> u.entries[i].data]]

(* The zip of a directory (revisionArchive): its files, whatever the order *)
(* and with their whole paths.                                             *)
Download(files) ==
  LET paths == SetToSeq(DOMAIN files)
  IN  [kind |-> "zip",
       entries |-> [i \in DOMAIN paths |->
                      [name |-> paths[i], type |-> "file",
                       data |-> files[paths[i]]]]]

-----------------------------------------------------------------------------
(* The entry it is at.                                                     *)

Entry == up.entries[up.at]
IsZip == up.kind = "zip"

Target ==
  LET c == CleanRel(Entry.name)
  IN  IF up.prefix # << >> /\ c # << >> THEN Tail(c) ELSE c

Skipped == IF IsZip THEN Entry.type = "dir" \/ Target = << >>
                    ELSE Entry.type = "other"

(* Mutant: the limit on entries is itself too many.                        *)
RefusedAtLimit ==
  \/ up.kind # "index" /\ up.at >= MaxEntries
  \/ Entry.type = "link"
  \/ Escapes(Entry.name) /\ ~(IsZip /\ Entry.type = "dir")

Refused ==
  \/ up.kind # "index" /\ up.at > MaxEntries
  \/ Entry.type = "link"
  \/ Escapes(Entry.name) /\ ~(IsZip /\ Entry.type = "dir")

(* What the file system refuses: a file below a file, a file over a        *)
(* directory, a directory over a file.                                     *)
Blocked ==
  \/ (Prefixes(Target) \ {Target}) \intersect DOMAIN up.files # {}
  \/ Target \in (IF Entry.type = "dir" THEN DOMAIN up.files ELSE up.dirs)

(* Mutant: each file may fill the limit by itself.                         *)
RoomPerFile == MaxBytes

(* The bytes that writeFile may still write.                               *)
Room == MaxBytes - up.written

Extracting == up.pc = "extract" /\ up.at \in DOMAIN up.entries

End(result) ==
  /\ up' = [up EXCEPT !.pc = "cleanup", !.result = result]
  /\ UNCHANGED live

-----------------------------------------------------------------------------
UploadInit == live = NoFiles /\ up = Idle

(* From the call of Publish, with copy the directory that u was downloaded *)
(* from, if it was.                                                        *)
Begin(u, copy) ==
  LET entries == IF u.kind = "files" THEN BuildBundle(u) ELSE u.entries
  IN  /\ up = Idle
      /\ u.kind = "files" => Bundled(u)
      /\ up' = [Idle EXCEPT
                  !.pc = "extract", !.entries = entries,
                  !.kind = IF u.kind = "files" THEN "tar" ELSE u.kind,
                  !.prefix = IF u.kind = "zip" THEN SingleRootPrefix(entries)
                                               ELSE << >>,
                  !.upload = u, !.copy = copy]
      /\ UNCHANGED live

(* The first error ends the extraction.                                    *)
Reject ==
  /\ Extracting
  /\ Refused \/ (~Skipped /\ Blocked)
  /\ End("refused")

Skip ==
  /\ Extracting /\ ~Refused /\ Skipped
  /\ up' = [up EXCEPT !.at = @ + 1]
  /\ UNCHANGED live

MakeDir ==
  /\ Extracting /\ ~Refused /\ ~Skipped /\ ~Blocked
  /\ Entry.type = "dir"
  /\ up' = [up EXCEPT !.at = @ + 1, !.dirs = @ \union Prefixes(Target)]
  /\ UNCHANGED live

(* One byte more is read than there is room for, to tell a file that fills *)
(* the rest from one that exceeds it.                                      *)
WriteFile ==
  LET n     == IF Len(Entry.data) <= Room THEN Len(Entry.data) ELSE Room + 1
      total == up.written + n
  IN  /\ Extracting /\ ~Refused /\ ~Skipped /\ ~Blocked
      /\ Entry.type # "dir"
      /\ up' = [up EXCEPT
                  !.at = @ + 1, !.written = total,
                  !.files = [p \in DOMAIN @ \union {Target} |->
                               IF p = Target THEN SubSeq(Entry.data, 1, n)
                                             ELSE @[p]],
                  !.dirs = @ \union (Prefixes(Target) \ {Target}),
                  !.found = @ \/ Target = <<Index>>,
                  !.pc = IF total > MaxBytes THEN "cleanup" ELSE @,
                  !.result = IF total > MaxBytes THEN "refused" ELSE @]
      /\ UNCHANGED live

(* The archive is at its end.                                              *)
Check ==
  /\ up.pc = "extract" /\ up.at > Len(up.entries)
  /\ IF /\ up.kind = "index" \/ up.found
        /\ <<Index>> \in DOMAIN up.files \union up.dirs
     THEN up' = [up EXCEPT !.pc = "swap"] /\ UNCHANGED live
     ELSE End("refused")

Swap ==
  /\ up.pc = "swap"
  /\ up' = [up EXCEPT !.pc = "cleanup", !.result = "swapped"]
  /\ live' = up.files

(* The deferred RemoveAll of the private directory.                        *)
Cleanup == up.pc = "cleanup" /\ up' = Idle /\ UNCHANGED live

(* The archive is damaged, or a call fails.                                *)
Abort == up.pc \in {"extract", "swap"} /\ End("failed")

(* The process ends, and leaves the private directory behind.              *)
Die == up.pc # "idle" /\ up' = Idle /\ UNCHANGED live

TakeOffline == live # NoFiles /\ live' = NoFiles /\ UNCHANGED up

Republish == live # NoFiles /\ Begin(Download(live), live)

Unpack == Reject \/ Skip \/ MakeDir \/ WriteFile \/ Check

UploadStep ==
  \/ \E u \in Uploads : Begin(u, NoFiles)
  \/ Republish \/ Unpack \/ Swap \/ Cleanup \/ Abort \/ Die \/ TakeOffline

UploadSpec == UploadInit /\ [][UploadStep]_<<live, up>>

-----------------------------------------------------------------------------
(* What an upload means, taken as a whole.                                 *)

(* The entries that are no directories, and those with content to keep.    *)
Things(u) == {i \in DOMAIN u.entries : u.entries[i].type # "dir"}
Named(u)  == {i \in Things(u) : CleanRel(u.entries[i].name) # << >>}

Unwrapped(u) ==
  /\ u.kind = "zip" /\ Named(u) # {}
  /\ \E top \in {CleanRel(u.entries[i].name)[1] : i \in Named(u)} :
       \A i \in Named(u) : /\ Len(CleanRel(u.entries[i].name)) > 1
                           /\ CleanRel(u.entries[i].name)[1] = top

Place(u, i) ==
  LET c == CleanRel(u.entries[i].name)
  IN  IF Unwrapped(u) THEN Tail(c) ELSE c

Kept(u) == IF u.kind = "zip"
           THEN Named(u)
           ELSE {i \in DOMAIN u.entries : u.entries[i].type = "file"}

(* Of two files of one name the later one counts.                          *)
Meaning(u) ==
  [p \in {Place(u, i) : i \in Kept(u)} |->
     LET i == CHOOSE j \in Kept(u) : /\ Place(u, j) = p
                /\ \A k \in Kept(u) : Place(u, k) = p => k <= j
     IN  u.entries[i].data]

Folders(u) ==
  {<< >>} \union
  (IF u.kind = "tar"
   THEN {Place(u, i) : i \in {j \in DOMAIN u.entries :
                                u.entries[j].type = "dir"}}
   ELSE {})

Acceptable(u) ==
  /\ u.kind = "index" \/ Len(u.entries) <= MaxEntries
  /\ \A i \in DOMAIN u.entries :
       /\ u.entries[i].type # "link"
       /\ Escapes(u.entries[i].name) =>
          u.kind = "files" \/ (u.kind = "zip" /\ u.entries[i].type = "dir")
  /\ \A i \in Kept(u) :
       /\ \A j \in Kept(u) : ~IsStrictPrefix(Place(u, i), Place(u, j))
       /\ \A d \in Folders(u) : ~IsPrefix(Place(u, i), d)
  /\ SumFunction([i \in Kept(u) |-> Len(u.entries[i].data)]) <= MaxBytes
  /\ <<Index>> \in DOMAIN Meaning(u)

-----------------------------------------------------------------------------
Size(files) == SumFunction([p \in DOMAIN files |-> Len(files[p])])

(* However many entries an archive has and however large they unpack, the  *)
(* private directory never holds more than one byte beyond the limit, and  *)
(* what goes online stays within it.                                       *)
StagedWithinCap ==
  /\ Size(up.files) <= MaxBytes + 1
  /\ up.result = "swapped" => Size(up.files) <= MaxBytes

(* What goes online is what the upload means, every file of it and nothing *)
(* else; what is refused had a reason in the upload.                       *)
UploadTakenAsAWhole ==
  /\ up.result = "swapped" =>
       Acceptable(up.upload) /\ up.files = Meaning(up.upload)
  /\ up.result = "refused" => ~Acceptable(up.upload)

(* The archive of a site with an index, downloaded and published again, is *)
(* that site: it is neither unwrapped nor refused, unless the limits have  *)
(* been lowered.                                                           *)
DownloadRepublishes ==
  <<Index>> \in DOMAIN up.copy =>
    /\ up.result = "swapped" => up.files = up.copy
    /\ up.result = "refused" =>
         \/ Cardinality(DOMAIN up.copy) > MaxEntries
         \/ Size(up.copy) > MaxBytes
=============================================================================
