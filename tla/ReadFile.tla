------------------------------- MODULE ReadFile -------------------------------
(***************************************************************************)
(* The MCP tool read_file (internal/mcpserver/read.go): a client reads a   *)
(* text file of the live revision page by page, following next_offset,     *)
(* while uploads replace that revision.                                    *)
(*                                                                         *)
(* Of a byte matters what it is to UTF-8: the lead of a rune of 2 to 4     *)
(* bytes, a continuation byte (Cont), a rune by itself (1), one that makes *)
(* http.DetectContentType call a file binary (Control), or one that UTF-8  *)
(* never has (Never). Which continuations a lead admits is left out, and   *)
(* the signatures of file formats that DetectContentType looks for first.  *)
(***************************************************************************)
EXTENDS Integers, Upload

CONSTANTS
  Reads,         \* the first calls of clients: a path, an offset, a limit
  SniffLen,      \* sniffLen
  DefaultLimit,  \* readDefaultLimit
  MaxLimit       \* readMaxLimit

ASSUME ReadAssumption ==
  /\ SniffLen \in Nat \ {0} /\ DefaultLimit \in Nat \ {0}
  /\ MaxLimit \in Nat \ {0}
  /\ \A r \in Reads : r.offset \in Int /\ r.limit \in Int

VARIABLE ses  \* a client's reading of a file: the latest page, the text so
              \* far, and as history what the file held on the first page

Cont    == 0
Control == 5
Never   == 6
Byte    == 0..6
UTFMax  == 4
Llms    == "llms.txt"

NoSession == [rel |-> << >>, limit |-> 0, from |-> 0, asked |-> 0,
              start |-> 0, next |-> 0, text |-> << >>, data |-> << >>,
              same |-> TRUE, answer |-> "none"]

Smaller(m, n) == IF m <= n THEN m ELSE n

-----------------------------------------------------------------------------
(* UTF-8.                                                                  *)

RuneStart(b) == b # Cont
Width(b)     == IF b \in 2..UTFMax THEN b ELSE 1

(* utf8.Valid: every lead has its continuations, and they all have a lead. *)
Valid(s) ==
  \A i \in 1..Len(s) :
    /\ s[i] # Never
    /\ RuneStart(s[i]) => /\ i + Width(s[i]) - 1 <= Len(s)
                          /\ \A k \in i + 1..i + Width(s[i]) - 1 : s[k] = Cont
    /\ ~RuneStart(s[i]) => \E j \in 1..i - 1 : /\ RuneStart(s[j])
                                               /\ i < j + Width(s[j])

(* utf8.FullRune of what begins at i, where wrong bytes count as full.     *)
FullRune(s, i) ==
  \/ i + Width(s[i]) - 1 <= Len(s)
  \/ \E k \in i + 1..Len(s) : RuneStart(s[k])

(* Mutant: one position too few is looked at for the cut-off rune.         *)
TrimShort(s) ==
  LET cut == {i \in 1..Len(s) :
                /\ i > Len(s) - UTFMax + 2 /\ RuneStart(s[i])
                /\ \A k \in i + 1..Len(s) : ~RuneStart(s[k])
                /\ ~FullRune(s, i)}
  IN  IF cut = {} THEN s ELSE SubSeq(s, 1, (CHOOSE i \in cut : TRUE) - 1)

(* trimPartialRune, trimIncompleteRune: the last rune goes if it is cut    *)
(* off. It is looked for in the last UTFMax bytes.                         *)
Trim(s) ==
  LET cut == {i \in 1..Len(s) :
                /\ i > Len(s) - UTFMax /\ RuneStart(s[i])
                /\ \A k \in i + 1..Len(s) : ~RuneStart(s[k])
                /\ ~FullRune(s, i)}
  IN  IF cut = {} THEN s ELSE SubSeq(s, 1, (CHOOSE i \in cut : TRUE) - 1)

(* sitefs.IsText of the first bytes.                                       *)
IsText(head) ==
  /\ \A i \in 1..Len(head) : head[i] # Control
  /\ Valid(Trim(head))

-----------------------------------------------------------------------------
(* Paths.                                                                  *)

IsDirectory(p) == \E q \in DOMAIN live : IsStrictPrefix(p, q)

(* resolveReadPath: a file of the site, or a path that has none.           *)
ResolveReadPath(raw) ==
  LET p   == IF raw = <<"">> /\ <<Llms>> \in DOMAIN live THEN <<Llms>> ELSE raw
      c   == CleanRel(p)
      rel == IF Last(p) = "" \/ c = << >> THEN Append(c, Index) ELSE c
  IN  IF IsDirectory(rel) THEN Append(rel, Index) ELSE rel

ClampLimit(v) == IF v <= 0 THEN DefaultLimit ELSE Smaller(v, MaxLimit)

-----------------------------------------------------------------------------
(* A page.                                                                 *)

Clamp(offset, size) ==
  IF offset < 0 THEN 0 ELSE Smaller(offset, size)

(* The continuation bytes a page begins with.                              *)
Skips(s) ==
  CHOOSE k \in 0..Smaller(UTFMax - 1, Len(s)) :
    /\ \A i \in 1..k : ~RuneStart(s[i])
    /\ k < Smaller(UTFMax - 1, Len(s)) => RuneStart(s[k + 1])

(* Mutant: the buffer is as long as the limit says.                        *)
ShortBuffer(limit) == limit

(* A page has room for one rune at least.                                  *)
BufferLen(limit) == IF limit < UTFMax THEN UTFMax ELSE limit

ReadChunk(data, offset, limit) ==
  LET size  == Len(data)
      asked == Clamp(offset, size)
      buf   == SubSeq(data, asked + 1, Smaller(asked + BufferLen(limit), size))
      skip  == IF asked > 0 THEN Skips(buf) ELSE 0
      start == asked + skip
      rest  == SubSeq(buf, skip + 1, Len(buf))
      text  == IF start + Len(rest) < size THEN Trim(rest) ELSE rest
      next  == start + Len(text)
  IN  IF ~IsText(SubSeq(data, 1, Smaller(SniffLen, size))) \/ ~Valid(text)
      THEN [answer |-> "binary", start |-> start, next |-> start,
            text |-> << >>]
      ELSE [answer |-> IF next < size THEN "more" ELSE "done",
            start |-> start, next |-> next, text |-> text]

-----------------------------------------------------------------------------
ReadInit == UploadInit /\ ses = NoSession

(* A path without a file is answered "not found", and begins nothing.      *)
Open(r) ==
  LET rel  == ResolveReadPath(r.path)
      page == ReadChunk(live[rel], r.offset, ClampLimit(r.limit))
  IN  /\ ses = NoSession /\ rel \in DOMAIN live
      /\ ses' = [rel |-> rel, limit |-> ClampLimit(r.limit),
                 from |-> r.offset, asked |-> r.offset,
                 start |-> page.start, next |-> page.next,
                 text |-> page.text, data |-> live[rel], same |-> TRUE,
                 answer |-> page.answer]
      /\ UNCHANGED <<live, up>>

(* The client asks for what follows, of whatever is live by now. History:  *)
(* whether all its pages came from a file that held the same.              *)
NextPage ==
  LET rel  == IF IsDirectory(ses.rel) THEN Append(ses.rel, Index) ELSE ses.rel
      page == ReadChunk(live[rel], ses.next, ses.limit)
  IN  /\ ses.answer = "more" /\ rel \in DOMAIN live
      /\ ses' = [ses EXCEPT !.asked = ses.next, !.next = page.next,
                            !.text = @ \o page.text, !.answer = page.answer,
                            !.same = @ /\ live[rel] = ses.data]
      /\ UNCHANGED <<live, up>>

(* It has all it wanted, or gives up.                                      *)
Close == ses # NoSession /\ ses' = NoSession /\ UNCHANGED <<live, up>>

Reading == (\E r \in Reads : Open(r)) \/ NextPage \/ Close

ContentStep == (UploadStep /\ UNCHANGED ses) \/ Reading

ContentSpec == ReadInit /\ [][ContentStep]_<<live, up, ses>>

-----------------------------------------------------------------------------
(* A file that is text all through, and is taken for it.                   *)
TextFile(data) ==
  /\ Valid(data)
  /\ \A i \in 1..Smaller(SniffLen, Len(data)) : data[i] # Control

(* The pages of a text file that stays the same, put together, are the     *)
(* file from the first rune at the offset asked for, with no byte twice or *)
(* missing, wherever pages end; and none is refused as binary.             *)
PagesReadTheFile ==
  ses.answer # "none" /\ ses.same /\ TextFile(ses.data) =>
    /\ ses.answer # "binary"
    /\ ses.text = SubSeq(ses.data, ses.start + 1, ses.next)
    /\ ses.answer = "done" => ses.next = Len(ses.data)
    /\ \A i \in Clamp(ses.from, Len(ses.data)) + 1..ses.start :
         ~RuneStart(ses.data[i])

(* A page that says there is more has moved on, whatever the file holds    *)
(* and however small the limit, so that a client that follows next_offset  *)
(* comes to an end.                                                        *)
PagesAdvance ==
  ses.answer = "more" => ses.next > ses.asked
=============================================================================
