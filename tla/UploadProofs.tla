---------------------------- MODULE UploadProofs ----------------------------
(***************************************************************************)
(* Proved of Upload, for any uploads and limits: what an upload stages or  *)
(* puts online does not exceed the cap; what goes online is what the       *)
(* upload means, and what is refused had a reason in it; and a site that   *)
(* is downloaded and published again is the same.                          *)
(***************************************************************************)
EXTENDS Upload, SequenceTheorems, Folding

Text == Seq(Nat)

-----------------------------------------------------------------------------
(* Names.                                                                  *)

(* What no cleaned name has.                                               *)
Plain == STRING \ {"", ".", ".."}

(* One segment of a name, in CleanRel and in path.Clean.                   *)
CleanPush(p, s) ==
  CASE s \in {"", "."} -> p
    [] s = ".." /\ p = << >> -> p
    [] s = ".." /\ p # << >> -> Front(p)
    [] OTHER -> Append(p, s)
RelPush(p, s) ==
  CASE s \in {"", "."} -> p
    [] s = ".." /\ p # << >> /\ Last(p) # ".." -> Front(p)
    [] OTHER -> Append(p, s)

LEMMA SequencesOf ==
  ASSUME NEW S, NEW T, S \subseteq T
  PROVE  /\ Seq(S) \subseteq Seq(T) /\ << >> \in Seq(S)
         /\ \A x \in S : <<x>> \in Seq(S)
OBVIOUS

LEMMA EndsOff ==
  ASSUME NEW S, NEW p \in Seq(S), p # << >>
  PROVE  /\ Front(p) \in Seq(S) /\ Len(Front(p)) = Len(p) - 1 /\ Len(p) >= 1
         /\ \A i \in 1..Len(p) - 1 : Front(p)[i] = p[i]
         /\ Last(p) \in S
<1>1. Len(p) \in Nat /\ Len(p) >= 1
  BY EmptySeq, LenProperties
<1>2. Len(p) - 1 \in Nat /\ \A i \in 1..Len(p) : p[i] \in S
  BY <1>1, ElementOfSeq
<1>3. /\ SubSeq(p, 1, Len(p) - 1) \in Seq(S)
      /\ Len(SubSeq(p, 1, Len(p) - 1)) = Len(p) - 1
      /\ \A i \in 1..Len(p) - 1 : SubSeq(p, 1, Len(p) - 1)[i] = p[i]
  <2>1. 1 \in Int /\ Len(p) - 1 \in Int /\ (Len(p) - 1) - 1 + 1 = Len(p) - 1
    BY <1>1
  <2>2. \A i \in 1..Len(p) - 1 : p[i] \in S /\ 1 + i - 1 = i
    BY <1>1, <1>2
  <2>3. \A l \in Nat : l >= 1 => 1 <= l - 1 \/ l - 1 = 0
    OBVIOUS
  <2> QED BY <1>1, <2>1, <2>2, <2>3, SubSeqProperties
<1> QED BY <1>1, <1>2, <1>3 DEF Front, Last

LEMMA Longer ==
  ASSUME NEW S, NEW p \in Seq(S), NEW s \in S
  PROVE  /\ Append(p, s) \in Seq(S) /\ Len(Append(p, s)) = Len(p) + 1
         /\ \A i \in 1..Len(p) : Append(p, s)[i] = p[i]
         /\ Append(p, s)[Len(p) + 1] = s
OBVIOUS

LEMMA Pushed ==
  ASSUME NEW p \in Seq(STRING), NEW s \in STRING
  PROVE  CleanPush(p, s) \in Seq(STRING) /\ RelPush(p, s) \in Seq(STRING)
<1>1. Append(p, s) \in Seq(STRING)
  BY Longer
<1>2. p # << >> => Front(p) \in Seq(STRING)
  BY EndsOff
<1> QED BY <1>1, <1>2 DEF CleanPush, RelPush

(* CleanRel goes through a name segment by segment.                        *)
LEMMA CleanRelSteps ==
  ASSUME NEW name \in Seq(STRING)
  PROVE  \E a : /\ a[0] = << >> /\ a[Len(name)] = CleanRel(name)
                /\ \A k \in 0..Len(name) - 1 :
                     a[k + 1] = CleanPush(a[k], name[k + 1])
<1> DEFINE n == Len(name)
           D == 1..n
           V == Seq(STRING)
           op == [e \in STRING \X V |-> CleanPush(e[2], e[1])]
           Built(it) ==
             it = [s \in SUBSET D |->
                     IF s = {} THEN << >>
                     ELSE LET x == Max(s)
                          IN  CleanPush(it[s \ {x}], name[x])]
<1>1. n \in Nat /\ name \in [1..n -> STRING] /\ << >> \in V
  OBVIOUS
<1>2. \A x \in STRING, v \in V : /\ op[<<x, v>>] = CleanPush(v, x)
                                 /\ op[<<x, v>>] \in V
  BY Pushed
<1> HIDE DEF n, op, V
<1>3. PICK it \in [SUBSET D -> V] : FoldedLeft(n, name, << >>, op, it)
  <2> DEFINE S == STRING
  <2>1. \A x \in S, v \in V : op[<<x, v>>] \in V
    BY <1>2
  <2>2. name \in [1..n -> S]
    BY <1>1
  <2> HIDE DEF S
  <2>3. \E it \in [SUBSET (1..n) -> V] : FoldedLeft(n, name, << >>, op, it)
    BY <1>1, <2>1, <2>2, LeftFold
  <2> QED BY <2>3
<1>4. ASSUME NEW s \in SUBSET D, s # {}
      PROVE  it[s] = CleanPush(it[s \ {Max(s)}], name[Max(s)])
  <2>1. Max(s) \in D
    BY <1>1, <1>4, LargestIsIn
  <2>2. name[Max(s)] \in STRING /\ it[s \ {Max(s)}] \in V
    BY <1>1, <2>1
  <2>3. it[s] = op[<<name[Max(s)], it[s \ {Max(s)}]>>]
    BY <1>3, <1>4 DEF FoldedLeft
  <2> QED BY <1>2, <2>2, <2>3
<1>5. Built(it)
  <2>1. it = [s \in SUBSET D |-> it[s]]
    OBVIOUS
  <2>2. it[{}] = << >>
    BY <1>3 DEF FoldedLeft
  <2> QED BY <1>4, <2>1, <2>2
<1> DEFINE j == CHOOSE k : Built(k)
<1>6. Built(j)
  BY <1>5
<1>7. CleanRel(name) = j[D]
  <2>1. DOMAIN name = D
    BY <1>1
  <2> QED BY <2>1 DEF CleanRel, FoldLeft, MapThenFoldSet, CleanPush
<1> HIDE DEF j
<1> DEFINE a == [k \in 0..n |-> j[1..k]]
<1>8. a[0] = << >>
  <2>1. 1..0 = {} /\ 0 \in 0..n
    BY <1>1
  <2>2. j[{}] = << >>
    BY <1>6
  <2> QED BY <2>1, <2>2
<1>9. a[n] = CleanRel(name)
  BY <1>1, <1>7
<1>10. ASSUME NEW k \in 0..n - 1
       PROVE  a[k + 1] = CleanPush(a[k], name[k + 1])
  <2>1. Max(1..(k + 1)) = k + 1 /\ (1..(k + 1)) \ {k + 1} = 1..k
    BY LargestOfRange
  <2>2. k \in Nat /\ k + 1 <= n /\ k \in 0..n /\ k + 1 \in 0..n
    BY <1>1
  <2>3. k + 1 \in 1..(k + 1) /\ 1..(k + 1) \subseteq D
    BY <1>1, <2>2
  <2> QED BY <1>6, <2>1, <2>2, <2>3
<1> HIDE DEF a
<1> QED BY <1>8, <1>9, <1>10 DEF n

(* And so does path.Clean.                                                 *)
LEMMA RelCleanSteps ==
  ASSUME NEW name \in Seq(STRING)
  PROVE  \E a : /\ a[0] = << >> /\ a[Len(name)] = RelClean(name)
                /\ \A k \in 0..Len(name) - 1 :
                     a[k + 1] = RelPush(a[k], name[k + 1])
<1> DEFINE n == Len(name)
           D == 1..n
           V == Seq(STRING)
           op == [e \in STRING \X V |-> RelPush(e[2], e[1])]
           Built(it) ==
             it = [s \in SUBSET D |->
                     IF s = {} THEN << >>
                     ELSE LET x == Max(s)
                          IN  RelPush(it[s \ {x}], name[x])]
<1>1. n \in Nat /\ name \in [1..n -> STRING] /\ << >> \in V
  OBVIOUS
<1>2. \A x \in STRING, v \in V : /\ op[<<x, v>>] = RelPush(v, x)
                                 /\ op[<<x, v>>] \in V
  BY Pushed
<1> HIDE DEF n, op, V
<1>3. PICK it \in [SUBSET D -> V] : FoldedLeft(n, name, << >>, op, it)
  <2> DEFINE S == STRING
  <2>1. \A x \in S, v \in V : op[<<x, v>>] \in V
    BY <1>2
  <2>2. name \in [1..n -> S]
    BY <1>1
  <2> HIDE DEF S
  <2>3. \E it \in [SUBSET (1..n) -> V] : FoldedLeft(n, name, << >>, op, it)
    BY <1>1, <2>1, <2>2, LeftFold
  <2> QED BY <2>3
<1>4. ASSUME NEW s \in SUBSET D, s # {}
      PROVE  it[s] = RelPush(it[s \ {Max(s)}], name[Max(s)])
  <2>1. Max(s) \in D
    BY <1>1, <1>4, LargestIsIn
  <2>2. name[Max(s)] \in STRING /\ it[s \ {Max(s)}] \in V
    BY <1>1, <2>1
  <2>3. it[s] = op[<<name[Max(s)], it[s \ {Max(s)}]>>]
    BY <1>3, <1>4 DEF FoldedLeft
  <2> QED BY <1>2, <2>2, <2>3
<1>5. Built(it)
  <2>1. it = [s \in SUBSET D |-> it[s]]
    OBVIOUS
  <2>2. it[{}] = << >>
    BY <1>3 DEF FoldedLeft
  <2> QED BY <1>4, <2>1, <2>2
<1> DEFINE j == CHOOSE k : Built(k)
<1>6. Built(j)
  BY <1>5
<1>7. RelClean(name) = j[D]
  <2>1. DOMAIN name = D
    BY <1>1
  <2> QED BY <2>1 DEF RelClean, FoldLeft, MapThenFoldSet, RelPush
<1> HIDE DEF j
<1> DEFINE a == [k \in 0..n |-> j[1..k]]
<1>8. a[0] = << >>
  <2>1. 1..0 = {} /\ 0 \in 0..n
    BY <1>1
  <2>2. j[{}] = << >>
    BY <1>6
  <2> QED BY <2>1, <2>2
<1>9. a[n] = RelClean(name)
  BY <1>1, <1>7
<1>10. ASSUME NEW k \in 0..n - 1
       PROVE  a[k + 1] = RelPush(a[k], name[k + 1])
  <2>1. Max(1..(k + 1)) = k + 1 /\ (1..(k + 1)) \ {k + 1} = 1..k
    BY LargestOfRange
  <2>2. k \in Nat /\ k + 1 <= n /\ k \in 0..n /\ k + 1 \in 0..n
    BY <1>1
  <2>3. k + 1 \in 1..(k + 1) /\ 1..(k + 1) \subseteq D
    BY <1>1, <2>2
  <2> QED BY <1>6, <2>1, <2>2, <2>3
<1> HIDE DEF a
<1> QED BY <1>8, <1>9, <1>10 DEF n

(* What it leaves has nothing left to clean,                               *)
LEMMA CleanIsPlain ==
  ASSUME NEW name \in Seq(STRING)
  PROVE  CleanRel(name) \in Seq(Plain)
<1>1. PICK a : /\ a[0] = << >> /\ a[Len(name)] = CleanRel(name)
               /\ \A k \in 0..Len(name) - 1 :
                    a[k + 1] = CleanPush(a[k], name[k + 1])
  BY CleanRelSteps
<1> DEFINE T == {k \in Nat : k <= Len(name) => a[k] \in Seq(Plain)}
<1>2. 0 \in T
  BY <1>1, SequencesOf
<1>3. ASSUME NEW k \in T PROVE k + 1 \in T
  <2> SUFFICES ASSUME k + 1 <= Len(name) PROVE a[k + 1] \in Seq(Plain)
    OBVIOUS
  <2>1. k \in 0..Len(name) - 1 /\ k + 1 \in 1..Len(name) /\ k <= Len(name)
    BY LenProperties
  <2>2. a[k] \in Seq(Plain) /\ a[k + 1] = CleanPush(a[k], name[k + 1])
    BY <1>1, <2>1
  <2>3. name[k + 1] \in STRING
    BY <2>1, ElementOfSeq
  <2>4. a[k] # << >> => Front(a[k]) \in Seq(Plain)
    BY <2>2, EndsOff
  <2>5. name[k + 1] \in Plain => Append(a[k], name[k + 1]) \in Seq(Plain)
    BY <2>2, Longer
  <2> QED BY <2>2, <2>3, <2>4, <2>5 DEF CleanPush, Plain
<1>4. T = Nat
  <2> HIDE DEF T
  <2>1. T \in SUBSET Nat
    BY DEF T
  <2> QED BY <1>2, <1>3, <2>1, NumberInduction
<1>5. Len(name) \in T /\ Len(name) \in Nat
  BY <1>4, LenProperties
<1> QED BY <1>1, <1>5

(* and such a name it leaves alone.                                        *)
LEMMA PlainIsClean ==
  ASSUME NEW name \in Seq(Plain)
  PROVE  CleanRel(name) = name
<1>1. name \in Seq(STRING) /\ Len(name) \in Nat
  BY LenProperties, SequencesOf DEF Plain
<1>2. PICK a : /\ a[0] = << >> /\ a[Len(name)] = CleanRel(name)
               /\ \A k \in 0..Len(name) - 1 :
                    a[k + 1] = CleanPush(a[k], name[k + 1])
  BY <1>1, CleanRelSteps
<1> DEFINE T == {k \in Nat : k <= Len(name) => a[k] = SubSeq(name, 1, k)}
<1>3. 0 \in T
  <2>1. SubSeq(name, 1, 0) = << >>
    BY SubSeqEmpty
  <2> QED BY <1>2, <2>1
<1>4. ASSUME NEW k \in T PROVE k + 1 \in T
  <2> SUFFICES ASSUME k + 1 <= Len(name) PROVE a[k + 1] = SubSeq(name, 1, k + 1)
    OBVIOUS
  <2>1. k \in 0..Len(name) - 1 /\ k + 1 \in 1..Len(name) /\ k <= Len(name)
    BY <1>1
  <2>2. a[k] = SubSeq(name, 1, k) /\ a[k + 1] = CleanPush(a[k], name[k + 1])
    BY <1>2, <2>1
  <2>3. name[k + 1] \in Plain
    BY <2>1, ElementOfSeq
  <2>4. a[k + 1] = Append(a[k], name[k + 1])
    BY <2>2, <2>3 DEF CleanPush, Plain
  <2>5. SubSeq(name, 1, k + 1) = Append(SubSeq(name, 1, k), name[k + 1])
    <3>1. 1 \in 1..Len(name) /\ k + 1 \in 1..Len(name) /\ (k + 1) - 1 = k
      BY <1>1, <2>1
    <3>2. SubSeq(name, 1, k + 1) = SubSeq(name, 1, (k + 1) - 1) \o <<name[k + 1]>>
      BY <3>1, SubSeqRecursiveSecond
    <3>3. SubSeq(name, 1, k) \in Seq(Plain)
      <4>1. \A i \in 1..k : name[i] \in Plain
        BY <1>1, <2>1, ElementOfSeq
      <4> QED BY <4>1, SubSeqProperties
    <3> QED BY <2>3, <3>1, <3>2, <3>3, AppendIsConcat
  <2> QED BY <2>2, <2>4, <2>5
<1>5. T = Nat
  <2> HIDE DEF T
  <2>1. T \in SUBSET Nat
    BY DEF T
  <2> QED BY <1>3, <1>4, <2>1, NumberInduction
<1>6. Len(name) \in T
  BY <1>1, <1>5
<1>7. SubSeq(name, 1, Len(name)) = name
  BY SubSeqFull
<1> QED BY <1>1, <1>2, <1>6, <1>7

(* A name that does not lead out of the site is the same to both.          *)
LEMMA CleanInside ==
  ASSUME NEW name \in Seq(STRING), RelClean(name) # << >>,
         RelClean(name)[1] # ".."
  PROVE  RelClean(name) = CleanRel(name)
<1>1. PICK a : /\ a[0] = << >> /\ a[Len(name)] = CleanRel(name)
               /\ \A k \in 0..Len(name) - 1 :
                    a[k + 1] = CleanPush(a[k], name[k + 1])
  BY CleanRelSteps
<1>2. PICK b : /\ b[0] = << >> /\ b[Len(name)] = RelClean(name)
               /\ \A k \in 0..Len(name) - 1 :
                    b[k + 1] = RelPush(b[k], name[k + 1])
  BY RelCleanSteps
<1> DEFINE Same(k) == b[k] = a[k] /\ a[k] \in Seq(Plain)
           Out(k)  == b[k] \in Seq(STRING) /\ b[k] # << >> /\ b[k][1] = ".."
           T == {k \in Nat : k <= Len(name) => Same(k) \/ Out(k)}
<1>3. 0 \in T
  BY <1>1, <1>2, SequencesOf
<1>4. ASSUME NEW k \in T PROVE k + 1 \in T
  <2> SUFFICES ASSUME k + 1 <= Len(name) PROVE Same(k + 1) \/ Out(k + 1)
    OBVIOUS
  <2> DEFINE s == name[k + 1]
             p == b[k]
  <2>1. k \in 0..Len(name) - 1 /\ k + 1 \in 1..Len(name) /\ k <= Len(name)
    BY LenProperties
  <2>2. a[k + 1] = CleanPush(a[k], s) /\ b[k + 1] = RelPush(p, s)
    BY <1>1, <1>2, <2>1
  <2>3. s \in STRING
    BY <2>1, ElementOfSeq
  <2>4. Same(k) \/ Out(k)
    BY <2>1
  <2> HIDE DEF s, p
  <2>5. CASE Same(k)
    <3>0. p = a[k] /\ p \in Seq(Plain)
      BY <2>5 DEF p
    <3>1. p # << >> => Front(p) \in Seq(Plain) /\ Last(p) # ".."
      <4>1. p # << >> => Front(p) \in Seq(Plain) /\ Last(p) \in Plain
        BY <3>0, EndsOff
      <4> QED BY <4>1 DEF Plain
    <3>2. CASE s \in {"", "."}
      BY <2>2, <3>0, <3>2 DEF CleanPush, RelPush
    <3>3. CASE s = ".." /\ p # << >>
      BY <2>2, <3>0, <3>1, <3>3 DEF CleanPush, RelPush
    <3>4. CASE s = ".." /\ p = << >>
      <4>1. b[k + 1] = Append(p, s)
        BY <2>2, <3>4 DEF RelPush
      <4>2. /\ Append(p, s) \in Seq(STRING) /\ Len(Append(p, s)) = Len(p) + 1
            /\ Append(p, s)[Len(p) + 1] = s
        <5>1. p \in Seq(STRING)
          BY <3>4, SequencesOf
        <5> QED BY <2>3, <5>1, Longer
      <4>3. Len(p) = 0
        BY <3>4, EmptySeq
      <4>4. Append(p, s) # << >> /\ Append(p, s)[1] = ".."
        BY <3>4, <4>2, <4>3, EmptySeq
      <4> QED BY <4>1, <4>2, <4>4
    <3>5. CASE s \notin {"", ".", ".."}
      <4>1. b[k + 1] = Append(p, s) /\ a[k + 1] = Append(p, s)
        BY <2>2, <3>0, <3>5 DEF CleanPush, RelPush
      <4>2. Append(p, s) \in Seq(Plain)
        <5>1. s \in Plain
          BY <2>3, <3>5 DEF Plain
        <5> QED BY <3>0, <5>1, Longer
      <4> QED BY <4>1, <4>2
    <3> QED BY <3>2, <3>3, <3>4, <3>5
  <2>6. CASE Out(k)
    <3>0. p \in Seq(STRING) /\ p # << >> /\ p[1] = ".." /\ Len(p) \in Nat
      BY <2>6, LenProperties DEF p
    <3>1. CASE b[k + 1] = p
      BY <3>0, <3>1
    <3>2. CASE b[k + 1] = Front(p) /\ Last(p) # ".."
      <4>1. /\ Front(p) \in Seq(STRING) /\ Len(Front(p)) = Len(p) - 1
            /\ Len(p) >= 1
            /\ \A i \in 1..Len(p) - 1 : Front(p)[i] = p[i]
        BY <3>0, EndsOff
      <4>2. Len(p) # 1
        BY <3>0, <3>2 DEF Last
      <4>3. 1 \in 1..Len(p) - 1
        BY <3>0, <4>1, <4>2
      <4>4. Front(p) # << >> /\ Front(p)[1] = ".."
        BY <3>0, <4>1, <4>3, EmptySeq
      <4> QED BY <3>2, <4>1, <4>4
    <3>3. CASE b[k + 1] = Append(p, s)
      <4>1. /\ Append(p, s) \in Seq(STRING) /\ Len(Append(p, s)) = Len(p) + 1
            /\ \A i \in 1..Len(p) : Append(p, s)[i] = p[i]
        BY <2>3, <3>0, Longer
      <4>2. 1 \in 1..Len(p)
        BY <3>0, EmptySeq
      <4>3. Append(p, s)[1] = ".."
        BY <3>0, <4>1, <4>2
      <4>4. Append(p, s) # << >>
        BY <3>0, <4>1, EmptySeq
      <4> QED BY <3>3, <4>1, <4>3, <4>4
    <3>4. b[k + 1] \in {p, Append(p, s)} \/ (b[k + 1] = Front(p) /\ Last(p) # "..")
      BY <2>2 DEF RelPush
    <3> QED BY <3>1, <3>2, <3>3, <3>4
  <2> QED BY <2>4, <2>5, <2>6
<1>5. T = Nat
  <2> HIDE DEF T
  <2>1. T \in SUBSET Nat
    BY DEF T
  <2> QED BY <1>3, <1>4, <2>1, NumberInduction
<1>6. Len(name) \in T /\ Len(name) \in Nat
  BY <1>5, LenProperties
<1> QED BY <1>1, <1>2, <1>6

-----------------------------------------------------------------------------
(* The folder that a zip is in.                                            *)

(* One entry of a zip, in singleRootPrefix.                                *)
Confirm(root, e) ==
  LET c == CleanRel(e.name)
  IN  IF root = Several \/ e.type = "dir" \/ c = << >> THEN root
      ELSE IF Len(c) > 1 /\ root \in {<< >>, <<c[1]>>} THEN <<c[1]>> ELSE Several

RootNames == Seq(STRING \union {""})

LEMMA Confirmed ==
  ASSUME NEW root \in RootNames, NEW e \in ArchiveEntry
  PROVE  Confirm(root, e) \in RootNames
<1> DEFINE c == CleanRel(e.name)
<1>1. c \in Seq(Plain)
  BY CleanIsPlain DEF ArchiveEntry
<1> HIDE DEF c
<1>2. Len(c) > 1 => c[1] \in STRING
  <2> SUFFICES ASSUME Len(c) > 1 PROVE c[1] \in STRING
    OBVIOUS
  <2>1. Len(c) \in Nat
    BY <1>1, LenProperties
  <2>2. 1 \in 1..Len(c)
    BY <2>1
  <2>3. c[1] \in Plain
    BY <1>1, <2>2, ElementOfSeq
  <2> QED BY <2>3 DEF Plain
<1>3. \A s \in STRING \union {""} : <<s>> \in RootNames
  BY SequencesOf DEF RootNames
<1>4. Several \in RootNames
  BY <1>3 DEF Several
<1> QED BY <1>2, <1>3, <1>4 DEF Confirm, c

(* It goes through a zip entry by entry.                                   *)
LEMMA RootSteps ==
  ASSUME NEW es \in Seq(ArchiveEntry)
  PROVE  \E a : /\ a[0] = << >>
                /\ SingleRootPrefix(es)
                     = IF a[Len(es)] = Several THEN << >> ELSE a[Len(es)]
                /\ \A k \in 0..Len(es) - 1 :
                     a[k + 1] = Confirm(a[k], es[k + 1])
<1> DEFINE n == Len(es)
           D == 1..n
           V == RootNames
           op == [e \in ArchiveEntry \X V |-> Confirm(e[2], e[1])]
           Built(it) ==
             it = [s \in SUBSET D |->
                     IF s = {} THEN << >>
                     ELSE LET x == Max(s)
                          IN  Confirm(it[s \ {x}], es[x])]
<1>1. n \in Nat /\ es \in [1..n -> ArchiveEntry]
  BY LenProperties
<1>2. \A x \in ArchiveEntry, v \in V : /\ op[<<x, v>>] = Confirm(v, x)
                                       /\ op[<<x, v>>] \in V
  BY Confirmed
<1>3. << >> \in V
  BY SequencesOf DEF RootNames
<1> HIDE DEF n, op, V
<1>4. PICK it \in [SUBSET D -> V] : FoldedLeft(n, es, << >>, op, it)
  <2> DEFINE S == ArchiveEntry
  <2>1. \A x \in S, v \in V : op[<<x, v>>] \in V
    BY <1>2
  <2>2. es \in [1..n -> S]
    BY <1>1
  <2> HIDE DEF S
  <2>3. \E it \in [SUBSET (1..n) -> V] : FoldedLeft(n, es, << >>, op, it)
    BY <1>1, <1>3, <2>1, <2>2, LeftFold
  <2> QED BY <2>3
<1>5. ASSUME NEW s \in SUBSET D, s # {}
      PROVE  it[s] = Confirm(it[s \ {Max(s)}], es[Max(s)])
  <2>1. Max(s) \in D
    BY <1>1, <1>5, LargestIsIn
  <2>2. es[Max(s)] \in ArchiveEntry /\ it[s \ {Max(s)}] \in V
    BY <1>1, <2>1
  <2>3. it[s] = op[<<es[Max(s)], it[s \ {Max(s)}]>>]
    BY <1>4, <1>5 DEF FoldedLeft
  <2> QED BY <1>2, <2>2, <2>3
<1>6. Built(it)
  <2>1. it = [s \in SUBSET D |-> it[s]]
    OBVIOUS
  <2>2. it[{}] = << >>
    BY <1>4 DEF FoldedLeft
  <2> QED BY <1>5, <2>1, <2>2
<1> DEFINE j == CHOOSE k : Built(k)
<1>7. Built(j)
  BY <1>6
<1>8. SingleRootPrefix(es) = IF j[D] = Several THEN << >> ELSE j[D]
  <2>1. DOMAIN es = D
    BY <1>1
  <2> QED BY <2>1 DEF SingleRootPrefix, FoldLeft, MapThenFoldSet, Confirm
<1> HIDE DEF j
<1> DEFINE a == [k \in 0..n |-> j[1..k]]
<1>9. a[0] = << >>
  <2>1. 1..0 = {} /\ 0 \in 0..n
    BY <1>1
  <2>2. j[{}] = << >>
    BY <1>7
  <2> QED BY <2>1, <2>2
<1>10. a[n] = j[D]
  BY <1>1
<1>11. ASSUME NEW k \in 0..n - 1
       PROVE  a[k + 1] = Confirm(a[k], es[k + 1])
  <2>1. Max(1..(k + 1)) = k + 1 /\ (1..(k + 1)) \ {k + 1} = 1..k
    BY LargestOfRange
  <2>2. k \in Nat /\ k + 1 <= n /\ k \in 0..n /\ k + 1 \in 0..n
    BY <1>1
  <2>3. k + 1 \in 1..(k + 1) /\ 1..(k + 1) \subseteq D
    BY <1>1, <2>2
  <2> QED BY <1>7, <2>1, <2>2, <2>3
<1> HIDE DEF a
<1> QED BY <1>8, <1>9, <1>10, <1>11 DEF n

(* A zip is unwrapped if all its files are in one folder.                  *)
LEMMA RootFound ==
  ASSUME NEW u, u.entries \in Seq(ArchiveEntry), u.kind = "zip"
  PROVE  SingleRootPrefix(u.entries) # << >> <=> Unwrapped(u)
<1> DEFINE es   == u.entries
           n    == Len(es)
           C(i) == CleanRel(es[i].name)
           N(k) == {i \in Named(u) : i <= k}
           One(k, t) == N(k) # {} /\ \A i \in N(k) : Len(C(i)) > 1 /\ C(i)[1] = t
<1>1. PICK a : /\ a[0] = << >>
               /\ SingleRootPrefix(es)
                    = IF a[n] = Several THEN << >> ELSE a[n]
               /\ \A k \in 0..n - 1 : a[k + 1] = Confirm(a[k], es[k + 1])
  BY RootSteps
<1>2. n \in Nat /\ DOMAIN es = 1..n /\ \A i \in 1..n : es[i] \in ArchiveEntry
  BY LenProperties, ElementOfSeq
<1>3. \A i \in 1..n : C(i) \in Seq(Plain)
  BY <1>2, CleanIsPlain DEF ArchiveEntry
<1>4. /\ Named(u) \subseteq 1..n
      /\ \A i \in 1..n : i \in Named(u) <=> es[i].type # "dir" /\ C(i) # << >>
  BY <1>2 DEF Named, Things
<1>5. \A i \in Named(u) : Len(C(i)) \in Nat /\ Len(C(i)) >= 1 /\ C(i)[1] \in Plain
  <2> SUFFICES ASSUME NEW i \in Named(u)
               PROVE  Len(C(i)) \in Nat /\ Len(C(i)) >= 1 /\ C(i)[1] \in Plain
    OBVIOUS
  <2>1. C(i) \in Seq(Plain) /\ C(i) # << >>
    BY <1>3, <1>4
  <2> HIDE DEF C
  <2>2. Len(C(i)) \in Nat /\ Len(C(i)) >= 1
    BY <2>1, LenProperties, EmptySeq
  <2> QED BY <2>1, <2>2, ElementOfSeq
<1> DEFINE Ok(k) ==
             \/ a[k] = << >> /\ N(k) = {}
             \/ a[k] = Several /\ N(k) # {} /\ \A t \in Plain : ~One(k, t)
             \/ \E t \in Plain : a[k] = <<t>> /\ One(k, t)
           T == {k \in Nat : k <= n => Ok(k)}
<1>6. 0 \in T
  <2>1. N(0) = {}
    BY <1>4
  <2> QED BY <1>1, <2>1
<1>7. \A t \in Plain : <<t>> # Several /\ <<t>> # << >>
  BY DEF Several, Plain
<1>8. ASSUME NEW k \in T PROVE k + 1 \in T
  <2> SUFFICES ASSUME k + 1 <= n PROVE Ok(k + 1)
    OBVIOUS
  <2> DEFINE c == C(k + 1)
  <2>1. k \in 0..n - 1 /\ k + 1 \in 1..n /\ k <= n /\ k \in Nat
    BY <1>2
  <2>2. a[k + 1] = Confirm(a[k], es[k + 1]) /\ Ok(k)
    BY <1>1, <2>1
  <2>3. CASE k + 1 \notin Named(u)
    <3>1. N(k + 1) = N(k)
      BY <1>2, <1>4, <2>1, <2>3
    <3>2. a[k + 1] = a[k]
      BY <1>4, <2>1, <2>2, <2>3 DEF Confirm
    <3>3. \A t : One(k + 1, t) <=> One(k, t)
      BY <3>1
    <3> HIDE DEF One, N
    <3> QED BY <2>2, <3>1, <3>2, <3>3
  <2>4. CASE k + 1 \in Named(u)
    <3>1. N(k + 1) = N(k) \union {k + 1} /\ k + 1 \notin N(k)
      BY <1>2, <1>4, <2>1, <2>4
    <3>2. /\ es[k + 1].type # "dir" /\ c # << >>
          /\ Len(c) \in Nat /\ Len(c) >= 1 /\ c[1] \in Plain
      BY <1>4, <1>5, <2>1, <2>4
    <3>3. a[k + 1] = IF a[k] = Several THEN Several
                     ELSE IF Len(c) > 1 /\ a[k] \in {<< >>, <<c[1]>>}
                          THEN <<c[1]>> ELSE Several
      BY <2>2, <3>2 DEF Confirm
    <3>4. \A t : One(k + 1, t) <=> /\ Len(c) > 1 /\ c[1] = t
                                   /\ \A i \in N(k) : Len(C(i)) > 1 /\ C(i)[1] = t
      BY <3>1
    <3>5. N(k + 1) # {}
      BY <3>1
    <3> HIDE DEF c, C
    <3>6. CASE a[k] = << >> /\ N(k) = {}
      <4>1. << >> # Several
        BY DEF Several
      <4>2. CASE Len(c) > 1
        <5>1. a[k + 1] = <<c[1]>>
          BY <3>3, <3>6, <4>1, <4>2
        <5>2. One(k + 1, c[1])
          BY <3>4, <3>6, <4>2
        <5> HIDE DEF One, N
        <5> QED BY <3>2, <5>1, <5>2
      <4>3. CASE ~(Len(c) > 1)
        <5>1. a[k + 1] = Several
          BY <3>3, <4>3
        <5>2. \A t : ~One(k + 1, t)
          BY <3>4, <4>3
        <5> HIDE DEF One, N
        <5> QED BY <3>5, <5>1, <5>2
      <4> QED BY <4>2, <4>3
    <3>7. CASE a[k] = Several /\ N(k) # {} /\ \A t \in Plain : ~One(k, t)
      <4>1. a[k + 1] = Several
        BY <3>3, <3>7
      <4>2. \A t \in Plain : ~One(k + 1, t)
        BY <3>4, <3>7
      <4> HIDE DEF One, N
      <4> QED BY <3>5, <4>1, <4>2
    <3>8. ASSUME NEW t \in Plain, a[k] = <<t>>, One(k, t) PROVE Ok(k + 1)
      <4>1. <<t>> # Several /\ <<t>> # << >>
        BY <1>7
      <4>2. <<t>> = <<c[1]>> <=> t = c[1]
        OBVIOUS
      <4>3. CASE Len(c) > 1 /\ c[1] = t
        <5>1. a[k + 1] = <<t>>
          BY <3>3, <3>8, <4>1, <4>3
        <5>2. One(k + 1, t)
          BY <3>4, <3>8, <4>3
        <5> HIDE DEF One, N
        <5> QED BY <5>1, <5>2
      <4>4. CASE ~(Len(c) > 1 /\ c[1] = t)
        <5>1. a[k + 1] = Several
          BY <3>3, <3>8, <4>1, <4>2, <4>4
        <5>2. \A s : ~One(k + 1, s)
          <6> SUFFICES ASSUME NEW s, One(k + 1, s) PROVE FALSE
            OBVIOUS
          <6>1. PICK i \in N(k) : TRUE
            BY <3>8
          <6>2. C(i)[1] = t /\ C(i)[1] = s
            BY <3>4, <3>8, <6>1
          <6> QED BY <3>4, <4>4, <6>2
        <5> HIDE DEF One, N
        <5> QED BY <3>5, <5>1, <5>2
      <4> QED BY <4>3, <4>4
    <3> HIDE DEF One, N
    <3> QED BY <2>2, <3>6, <3>7, <3>8
  <2> QED BY <2>3, <2>4
<1>9. T = Nat
  <2> HIDE DEF T
  <2>1. T \in SUBSET Nat
    BY DEF T
  <2> QED BY <1>6, <1>8, <2>1, NumberInduction
<1>10. Ok(n)
  <2>1. n \in T
    BY <1>2, <1>9
  <2> HIDE DEF Ok
  <2> QED BY <1>2, <2>1
<1>11. N(n) = Named(u)
  BY <1>2, <1>4
<1>12. Unwrapped(u) <=> \E t \in Plain : One(n, t)
  <2>1. ASSUME Unwrapped(u) PROVE \E t \in Plain : One(n, t)
    <3>1. PICK top \in {C(i)[1] : i \in Named(u)} :
            \A i \in Named(u) : Len(C(i)) > 1 /\ C(i)[1] = top
      BY <2>1 DEF Unwrapped
    <3>2. Named(u) # {} /\ top \in Plain
      BY <1>5, <2>1, <3>1 DEF Unwrapped
    <3> QED BY <1>11, <3>1, <3>2
  <2>2. ASSUME NEW t \in Plain, One(n, t) PROVE Unwrapped(u)
    <3>1. Named(u) # {} /\ \A i \in Named(u) : Len(C(i)) > 1 /\ C(i)[1] = t
      BY <1>11, <2>2
    <3>2. t \in {C(i)[1] : i \in Named(u)}
      BY <3>1
    <3> QED BY <3>1, <3>2 DEF Unwrapped
  <2> HIDE DEF One
  <2> QED BY <2>1, <2>2
<1> HIDE DEF One, N
<1> QED BY <1>1, <1>7, <1>10, <1>11, <1>12 DEF One

-----------------------------------------------------------------------------
LEMMA PrefixOf ==
  ASSUME NEW S, NEW p \in Seq(S), NEW q \in Seq(S)
  PROVE  IsPrefix(p, q) <=> p \in Prefixes(q)
<1>1. Len(p) \in Nat /\ Len(q) \in Nat
  BY LenProperties
<1>2. SubSeq(p, 1, Len(p)) = p
  BY SubSeqFull
<1>3. ASSUME NEW l \in 0..Len(q), p = SubSeq(q, 1, l) PROVE IsPrefix(p, q)
  <2>1. \A i \in 1..l : q[i] \in S
    BY <1>1, ElementOfSeq
  <2>2. 1 \in Int /\ l \in Int /\ l - 1 + 1 = l /\ (1 <= l \/ l = 0)
    BY <1>1
  <2>3. Len(p) = l
    BY <1>3, <2>1, <2>2, SubSeqProperties
  <2> QED BY <1>2, <1>3, <2>3 DEF IsPrefix
<1>4. ASSUME IsPrefix(p, q) PROVE p = SubSeq(q, 1, Len(p)) /\ Len(p) \in 0..Len(q)
  BY <1>1, <1>2, <1>4 DEF IsPrefix
<1> QED BY <1>3, <1>4 DEF Prefixes

LEMMA PrefixSelf ==
  ASSUME NEW S, NEW q \in Seq(S)
  PROVE  q \in Prefixes(q) /\ << >> \in Prefixes(q)
<1>1. Len(q) \in Nat
  BY LenProperties
<1>2. 0 \in 0..Len(q) /\ Len(q) \in 0..Len(q)
  BY <1>1
<1>3. SubSeq(q, 1, Len(q)) = q /\ SubSeq(q, 1, 0) = << >>
  BY SubSeqFull, SubSeqEmpty
<1> QED BY <1>2, <1>3 DEF Prefixes

-----------------------------------------------------------------------------
(* An upload that may begin, and the archive that is then unpacked.        *)
PayloadOK(u)  == UploadOf(u) /\ (u.kind = "files" => Bundled(u))
Unpacked(u) == IF u.kind = "files" THEN BuildBundle(u) ELSE u.entries

LEMMA EntriesOf ==
  ASSUME NEW u, UploadOf(u)
  PROVE  /\ Len(u.entries) \in Nat /\ DOMAIN u.entries = 1..Len(u.entries)
         /\ \A i \in DOMAIN u.entries :
              /\ u.entries[i] \in ArchiveEntry
              /\ CleanRel(u.entries[i].name) \in Seq(Plain)
<1>1. Len(u.entries) \in Nat /\ DOMAIN u.entries = 1..Len(u.entries)
  BY LenProperties DEF UploadOf
<1>2. \A i \in DOMAIN u.entries : u.entries[i] \in ArchiveEntry
  BY <1>1, ElementOfSeq DEF UploadOf
<1>3. \A i \in DOMAIN u.entries : u.entries[i].name \in Seq(STRING)
  BY <1>2 DEF ArchiveEntry
<1>4. \A i \in DOMAIN u.entries : CleanRel(u.entries[i].name) \in Seq(Plain)
  BY <1>3, CleanIsPlain
<1> QED BY <1>1, <1>2, <1>4

(* The names in it clean to what those in the upload clean to.             *)
LEMMA UnpackedOf ==
  ASSUME NEW u, PayloadOK(u)
  PROVE  /\ DOMAIN Unpacked(u) = DOMAIN u.entries
         /\ Len(Unpacked(u)) = Len(u.entries)
         /\ \A i \in DOMAIN u.entries :
              LET e == u.entries[i]
                  x == Unpacked(u)[i]
              IN  /\ x.type = e.type /\ x.data = e.data
                  /\ CleanRel(x.name) = CleanRel(e.name)
                  /\ Escapes(x.name) <=> u.kind # "files" /\ Escapes(e.name)
<1>1. UploadOf(u)
  BY DEF PayloadOK
<1>2. CASE u.kind # "files"
  BY <1>2 DEF Unpacked
<1>3. CASE u.kind = "files"
  <2> DEFINE B == BuildBundle(u)
  <2>1. Unpacked(u) = B
    BY <1>3 DEF Unpacked
  <2>2. DOMAIN B = DOMAIN u.entries
    BY DEF BuildBundle
  <2>3. B \in Seq(ArchiveEntry) => Len(B) = Len(u.entries)
    <3>1. ASSUME B \in Seq(ArchiveEntry) PROVE Len(B) = Len(u.entries)
      <4> HIDE DEF B
      <4>1. Len(B) \in Nat /\ DOMAIN B = 1..Len(B)
        BY <3>1, LenProperties
      <4>2. Len(u.entries) \in Nat /\ DOMAIN u.entries = 1..Len(u.entries)
        BY <1>1, EntriesOf
      <4>3. \A a, b \in Nat : 1..a = 1..b => a = b
        <5> SUFFICES ASSUME NEW a \in Nat, NEW b \in Nat, 1..a = 1..b
                     PROVE  a = b
          OBVIOUS
        <5>1. (a >= 1 => a \in 1..b) /\ (b >= 1 => b \in 1..a)
          OBVIOUS
        <5> QED BY <5>1
      <4> QED BY <2>2, <4>1, <4>2, <4>3
    <3> QED BY <3>1
  <2>4. ASSUME NEW i \in DOMAIN u.entries
        PROVE  /\ B[i].type = u.entries[i].type /\ B[i].data = u.entries[i].data
               /\ B[i] \in ArchiveEntry
               /\ CleanRel(B[i].name) = CleanRel(u.entries[i].name)
               /\ ~Escapes(B[i].name)
    <3> DEFINE e == u.entries[i]
               r == RelClean(e.name)
    <3>1. e \in ArchiveEntry /\ e.type = "file"
      BY <1>1, <1>3, EntriesOf DEF UploadOf
    <3>2. e.name \in Seq(STRING) /\ e.data \in Seq(Nat)
      BY <3>1 DEF ArchiveEntry
    <3>3. r # << >> /\ r[1] # ".."
      BY <1>3 DEF PayloadOK, Bundled
    <3>4. r = CleanRel(e.name)
      BY <3>2, <3>3, CleanInside
    <3>5. r \in Seq(Plain)
      BY <3>2, <3>4, CleanIsPlain
    <3>6. B[i] = [name |-> r, type |-> "file", data |-> e.data]
      BY DEF BuildBundle
    <3> HIDE DEF B, e, r
    <3>7. CleanRel(r) = r
      BY <3>5, PlainIsClean
    <3>8. r \in Seq(STRING)
      <4>1. Plain \subseteq STRING
        BY DEF Plain
      <4> QED BY <3>5, <4>1, SequencesOf
    <3>9. B[i] \in ArchiveEntry
      BY <3>2, <3>6, <3>8 DEF ArchiveEntry
    <3>10. ~Escapes(r)
      <4>1. DOMAIN r = 1..Len(r) /\ Len(r) \in Nat
        BY <3>5, LenProperties
      <4>2. \A j \in DOMAIN r : r[j] \in Plain
        BY <3>5, <4>1, ElementOfSeq
      <4>3. Len(r) > 1 => 1 \in DOMAIN r
        BY <4>1
      <4> QED BY <4>2, <4>3 DEF Escapes, Absolute, Plain
    <3> QED BY <3>1, <3>4, <3>6, <3>7, <3>9, <3>10 DEF e
  <2>5. B \in Seq(ArchiveEntry)
    <3>1. Len(u.entries) \in Nat /\ DOMAIN u.entries = 1..Len(u.entries)
      BY <1>1, EntriesOf
    <3>2. B \in [1..Len(u.entries) -> ArchiveEntry]
      <4>1. B = [i \in DOMAIN u.entries |-> B[i]]
        BY DEF BuildBundle
      <4> HIDE DEF B
      <4> QED BY <2>4, <3>1, <4>1
    <3> HIDE DEF B
    <3> QED BY <3>1, <3>2
  <2> HIDE DEF B
  <2> QED BY <1>3, <2>1, <2>2, <2>3, <2>4, <2>5
<1> QED BY <1>2, <1>3

(* Where what is kept goes.                                                *)
LEMMA KeptOf ==
  ASSUME NEW u, UploadOf(u)
  PROVE  /\ Kept(u) \subseteq DOMAIN u.entries
         /\ \A i \in Kept(u) :
              /\ Place(u, i) \in Seq(Plain)
              /\ u.kind = "zip" => Place(u, i) # << >>
         /\ \A i \in DOMAIN u.entries :
              /\ u.kind = "zip" =>
                   (i \in Kept(u) <=> /\ u.entries[i].type # "dir"
                                      /\ CleanRel(u.entries[i].name) # << >>)
              /\ u.kind # "zip" =>
                   /\ i \in Kept(u) <=> u.entries[i].type = "file"
                   /\ Place(u, i) = CleanRel(u.entries[i].name)
<1>1. \A i \in DOMAIN u.entries :
        /\ u.kind = "zip" =>
             (i \in Kept(u) <=> /\ u.entries[i].type # "dir"
                                /\ CleanRel(u.entries[i].name) # << >>)
        /\ u.kind # "zip" =>
             /\ i \in Kept(u) <=> u.entries[i].type = "file"
             /\ Place(u, i) = CleanRel(u.entries[i].name)
  BY DEF Kept, Named, Things, Place, Unwrapped
<1>2. Kept(u) \subseteq DOMAIN u.entries
  BY DEF Kept, Named, Things
<1>3. ASSUME NEW i \in Kept(u)
      PROVE  Place(u, i) \in Seq(Plain) /\ (u.kind = "zip" => Place(u, i) # << >>)
  <2> DEFINE c == CleanRel(u.entries[i].name)
  <2>1. c \in Seq(Plain)
    BY <1>2, EntriesOf
  <2>2. u.kind = "zip" => c # << >>
    BY <1>1, <1>2
  <2>3. CASE ~Unwrapped(u)
    BY <2>1, <2>2, <2>3 DEF Place
  <2>4. CASE Unwrapped(u)
    <3>1. i \in Named(u)
      BY <2>4 DEF Kept, Unwrapped
    <3>2. Len(c) > 1
      BY <2>4, <3>1 DEF Unwrapped
    <3>3. Place(u, i) = Tail(c)
      BY <2>4 DEF Place
    <3>4. u.kind = "zip"
      BY <2>4 DEF Unwrapped
    <3> HIDE DEF c
    <3>5. Tail(c) \in Seq(Plain) /\ Len(Tail(c)) = Len(c) - 1 /\ Len(c) \in Nat
      BY <2>1, <2>2, <3>4, HeadTailProperties, LenProperties
    <3>6. Tail(c) # << >>
      <4>1. Len(<< >>) = 0 /\ \A l \in Nat : l > 1 => l - 1 # 0
        BY EmptySeq
      <4> QED BY <3>2, <3>5, <4>1
    <3> QED BY <3>3, <3>5, <3>6
  <2> QED BY <2>3, <2>4
<1> QED BY <1>1, <1>2, <1>3

-----------------------------------------------------------------------------
(* What the first k entries of an upload come to.                          *)

Dirs(u)      == {i \in DOMAIN u.entries : u.kind = "tar" /\ u.entries[i].type = "dir"}
KeptTo(u, k) == {i \in Kept(u) : i <= k}
DirsTo(u, k) == {i \in Dirs(u) : i <= k}
Above(p)     == Prefixes(p) \ {p}
Bytes(u)     == [i \in Kept(u) |-> Len(u.entries[i].data)]

RefusedOf(u, i) ==
  \/ u.kind # "index" /\ i > MaxEntries
  \/ u.entries[i].type = "link"
  \/ Escapes(u.entries[i].name) /\ u.kind # "files"
     /\ ~(u.kind = "zip" /\ u.entries[i].type = "dir")

FilesOf(u, k, files) ==
  /\ DOMAIN files = {Place(u, i) : i \in KeptTo(u, k)}
  /\ \A i \in KeptTo(u, k) :
       (\A j \in KeptTo(u, k) : Place(u, j) = Place(u, i) => j <= i) =>
         files[Place(u, i)] = u.entries[i].data

DirsOf(u, k, dirs) ==
  dirs = {<< >>} \union (UNION {Above(Place(u, i)) : i \in KeptTo(u, k)})
                 \union (UNION {Prefixes(Place(u, d)) : d \in DirsTo(u, k)})

Compatible(u, k) ==
  \A i \in KeptTo(u, k) :
    /\ Place(u, i) # << >>
    /\ \A j \in KeptTo(u, k) : Place(u, i) \notin Above(Place(u, j))
    /\ \A d \in DirsTo(u, k) : Place(u, i) \notin Prefixes(Place(u, d))

Conflicting(u) ==
  \E i \in Kept(u) :
    \/ Place(u, i) = << >>
    \/ \E j \in Kept(u) : Place(u, i) \in Above(Place(u, j))
    \/ \E d \in Dirs(u) : Place(u, i) \in Prefixes(Place(u, d))

LEMMA DirsOfUpload ==
  ASSUME NEW u, UploadOf(u)
  PROVE  /\ Dirs(u) \subseteq DOMAIN u.entries
         /\ \A d \in Dirs(u) : Place(u, d) \in Seq(Plain) /\ d \notin Kept(u)
<1>1. Dirs(u) \subseteq DOMAIN u.entries /\ \A d \in Dirs(u) : u.kind = "tar"
  BY DEF Dirs
<1>2. \A d \in Dirs(u) : d \notin Kept(u) /\ Place(u, d) = CleanRel(u.entries[d].name)
  BY <1>1, KeptOf DEF Dirs
<1> QED BY <1>1, <1>2, EntriesOf

(* In the terms of Acceptable.                                             *)
LEMMA Conflicts ==
  ASSUME NEW u, UploadOf(u)
  PROVE  Conflicting(u) <=>
         ~ \A i \in Kept(u) :
             /\ \A j \in Kept(u) : ~IsStrictPrefix(Place(u, i), Place(u, j))
             /\ \A d \in Folders(u) : ~IsPrefix(Place(u, i), d)
<1>1. ASSUME NEW i \in Kept(u), NEW j \in Kept(u)
      PROVE  IsStrictPrefix(Place(u, i), Place(u, j)) <=>
             Place(u, i) \in Above(Place(u, j))
  <2>1. Place(u, i) \in Seq(Plain) /\ Place(u, j) \in Seq(Plain)
    BY KeptOf
  <2>2. IsPrefix(Place(u, i), Place(u, j)) <=>
        Place(u, i) \in Prefixes(Place(u, j))
    BY <2>1, PrefixOf
  <2> QED BY <2>2 DEF IsStrictPrefix, Above
<1>2. ASSUME NEW i \in Kept(u), NEW d \in Dirs(u)
      PROVE  IsPrefix(Place(u, i), Place(u, d)) <=>
             Place(u, i) \in Prefixes(Place(u, d))
  <2>1. Place(u, i) \in Seq(Plain) /\ Place(u, d) \in Seq(Plain)
    BY KeptOf, DirsOfUpload
  <2> QED BY <2>1, PrefixOf
<1>3. ASSUME NEW i \in Kept(u)
      PROVE  IsPrefix(Place(u, i), << >>) <=> Place(u, i) = << >>
  <2>1. Place(u, i) \in Seq(Plain) /\ << >> \in Seq(Plain)
    BY KeptOf, SequencesOf
  <2>2. IsPrefix(Place(u, i), << >>) <=> Place(u, i) \in Prefixes(<< >>)
    BY <2>1, PrefixOf
  <2>3. Prefixes(<< >>) = {<< >>}
    <3>1. Len(<< >>) = 0 /\ 0..0 = {0}
      OBVIOUS
    <3>2. SubSeq(<< >>, 1, 0) = << >>
      BY SubSeqEmpty
    <3> QED BY <3>1, <3>2 DEF Prefixes
  <2> QED BY <2>2, <2>3
<1>4. Folders(u) = {<< >>} \union {Place(u, d) : d \in Dirs(u)}
  BY DEF Folders, Dirs
<1> HIDE DEF Folders
<1>5. \A i \in Kept(u) :
        (\A d \in Folders(u) : ~IsPrefix(Place(u, i), d)) <=>
          /\ Place(u, i) # << >>
          /\ \A d \in Dirs(u) : Place(u, i) \notin Prefixes(Place(u, d))
  BY <1>2, <1>3, <1>4
<1> QED BY <1>1, <1>5 DEF Conflicting

(* One entry more.                                                         *)
LEMMA NextKept ==
  ASSUME NEW u, UploadOf(u), NEW k \in Nat, k + 1 \in Kept(u)
  PROVE  /\ KeptTo(u, k + 1) = KeptTo(u, k) \union {k + 1}
         /\ k + 1 \notin KeptTo(u, k)
         /\ DirsTo(u, k + 1) = DirsTo(u, k)
<1>1. Kept(u) \subseteq Nat /\ Dirs(u) \subseteq Nat /\ k + 1 \notin Dirs(u)
  BY KeptOf, EntriesOf, DirsOfUpload
<1>2. \A i \in Nat : i <= k + 1 <=> i <= k \/ i = k + 1
  OBVIOUS
<1>3. ~(k + 1 <= k)
  OBVIOUS
<1> QED BY <1>1, <1>2, <1>3 DEF KeptTo, DirsTo

LEMMA NextDir ==
  ASSUME NEW u, UploadOf(u), NEW k \in Nat, k + 1 \in Dirs(u)
  PROVE  /\ DirsTo(u, k + 1) = DirsTo(u, k) \union {k + 1}
         /\ KeptTo(u, k + 1) = KeptTo(u, k)
<1>1. Kept(u) \subseteq Nat /\ Dirs(u) \subseteq Nat /\ k + 1 \notin Kept(u)
  BY KeptOf, EntriesOf, DirsOfUpload
<1>2. \A i \in Nat : i <= k + 1 <=> i <= k \/ i = k + 1
  OBVIOUS
<1> QED BY <1>1, <1>2 DEF KeptTo, DirsTo

LEMMA NextOther ==
  ASSUME NEW u, UploadOf(u), NEW k \in Nat, k + 1 \notin Kept(u),
         k + 1 \notin Dirs(u)
  PROVE  DirsTo(u, k + 1) = DirsTo(u, k) /\ KeptTo(u, k + 1) = KeptTo(u, k)
<1>1. Kept(u) \subseteq Nat /\ Dirs(u) \subseteq Nat
  BY KeptOf, EntriesOf, DirsOfUpload
<1>2. \A i \in Nat : i <= k + 1 <=> i <= k \/ i = k + 1
  OBVIOUS
<1> QED BY <1>1, <1>2 DEF KeptTo, DirsTo

(* A file that fits where it goes is compatible with the others; one that  *)
(* does not is in conflict with one of them.                               *)
BlockedFile(t, files, dirs) == Above(t) \intersect DOMAIN files # {} \/ t \in dirs
BlockedDir(t, files) == Prefixes(t) \intersect DOMAIN files # {}

LEMMA FileFits ==
  ASSUME NEW u, UploadOf(u), NEW k \in Nat, k + 1 \in Kept(u),
         NEW files, FilesOf(u, k, files), NEW dirs, DirsOf(u, k, dirs),
         Compatible(u, k)
  PROVE  /\ BlockedFile(Place(u, k + 1), files, dirs) => Conflicting(u)
         /\ ~BlockedFile(Place(u, k + 1), files, dirs) => Compatible(u, k + 1)
<1> DEFINE t == Place(u, k + 1)
           K == KeptTo(u, k)
           D == DirsTo(u, k)
           G == DirsTo(u, k + 1)
           M == KeptTo(u, k + 1)
<1>1. M = K \union {k + 1} /\ G = D
  BY NextKept
<1>2. K \subseteq Kept(u) /\ D \subseteq Dirs(u)
  BY DEF KeptTo, DirsTo
<1>3. BlockedFile(t, files, dirs) <=>
        \/ \E i \in K : Place(u, i) \in Above(t)
        \/ t = << >>
        \/ \E i \in K : t \in Above(Place(u, i))
        \/ \E d \in D : t \in Prefixes(Place(u, d))
  <2>1. DOMAIN files = {Place(u, i) : i \in K}
    BY DEF FilesOf
  <2>2. t \in dirs <=> \/ t = << >>
                       \/ \E i \in K : t \in Above(Place(u, i))
                       \/ \E d \in D : t \in Prefixes(Place(u, d))
    BY DEF DirsOf
  <2> HIDE DEF K, D, t
  <2> QED BY <2>1, <2>2 DEF BlockedFile
<1>4. t \notin Above(t)
  BY DEF Above
<1>5. Compatible(u, k) <=>
        \A i \in K : /\ Place(u, i) # << >>
                     /\ \A j \in K : Place(u, i) \notin Above(Place(u, j))
                     /\ \A d \in D : Place(u, i) \notin Prefixes(Place(u, d))
  BY DEF Compatible
<1>6. Compatible(u, k + 1) <=>
        \A i \in M : /\ Place(u, i) # << >>
                     /\ \A j \in M : Place(u, i) \notin Above(Place(u, j))
                     /\ \A d \in G : Place(u, i) \notin Prefixes(Place(u, d))
  BY DEF Compatible
<1> HIDE DEF K, D, M, G
<1>7. BlockedFile(t, files, dirs) => Conflicting(u)
  BY <1>2, <1>3 DEF Conflicting
<1>8. ~BlockedFile(t, files, dirs) => Compatible(u, k + 1)
  BY <1>1, <1>3, <1>4, <1>5, <1>6
<1> QED BY <1>7, <1>8

LEMMA DirFits ==
  ASSUME NEW u, UploadOf(u), NEW k \in Nat, k + 1 \in Dirs(u),
         NEW files, FilesOf(u, k, files), Compatible(u, k)
  PROVE  /\ BlockedDir(Place(u, k + 1), files) => Conflicting(u)
         /\ ~BlockedDir(Place(u, k + 1), files) => Compatible(u, k + 1)
<1> DEFINE t == Place(u, k + 1)
           K == KeptTo(u, k)
           D == DirsTo(u, k)
           G == DirsTo(u, k + 1)
           M == KeptTo(u, k + 1)
<1>1. G = D \union {k + 1} /\ M = K
  BY NextDir
<1>2. K \subseteq Kept(u)
  BY DEF KeptTo
<1>3. BlockedDir(t, files) <=> \E i \in K : Place(u, i) \in Prefixes(t)
  <2>1. DOMAIN files = {Place(u, i) : i \in K}
    BY DEF FilesOf
  <2> HIDE DEF K, t
  <2> QED BY <2>1 DEF BlockedDir
<1>4. Compatible(u, k) <=>
        \A i \in K : /\ Place(u, i) # << >>
                     /\ \A j \in K : Place(u, i) \notin Above(Place(u, j))
                     /\ \A d \in D : Place(u, i) \notin Prefixes(Place(u, d))
  BY DEF Compatible
<1>5. Compatible(u, k + 1) <=>
        \A i \in M : /\ Place(u, i) # << >>
                     /\ \A j \in M : Place(u, i) \notin Above(Place(u, j))
                     /\ \A d \in G : Place(u, i) \notin Prefixes(Place(u, d))
  BY DEF Compatible
<1> HIDE DEF K, D, M, G
<1>6. BlockedDir(t, files) => Conflicting(u)
  BY <1>2, <1>3 DEF Conflicting
<1>7. ~BlockedDir(t, files) => Compatible(u, k + 1)
  BY <1>1, <1>3, <1>4, <1>5
<1> QED BY <1>6, <1>7

(* Writing the next file.                                                  *)
LEMMA FileWritten ==
  ASSUME NEW u, UploadOf(u), NEW k \in Nat, k + 1 \in Kept(u),
         NEW files, FilesOf(u, k, files), NEW dirs, DirsOf(u, k, dirs),
         NEW t, t = Place(u, k + 1), NEW g,
         g = [p \in DOMAIN files \union {t} |->
                IF p = t THEN u.entries[k + 1].data ELSE files[p]]
  PROVE  FilesOf(u, k + 1, g) /\ DirsOf(u, k + 1, dirs \union Above(t))
<1> DEFINE d == u.entries[k + 1].data
           K == KeptTo(u, k)
           M == KeptTo(u, k + 1)
<1>1. M = K \union {k + 1} /\ DirsTo(u, k + 1) = DirsTo(u, k)
  BY NextKept
<1>2. \A i \in K : i <= k /\ i \in Nat
  BY KeptOf, EntriesOf DEF KeptTo
<1>3. DOMAIN files = {Place(u, i) : i \in K}
  BY DEF FilesOf
<1>4. DOMAIN g = {Place(u, i) : i \in M}
  <2> HIDE DEF K, M
  <2> QED BY <1>1, <1>3
<1>5. ASSUME NEW i \in M, \A j \in M : Place(u, j) = Place(u, i) => j <= i
      PROVE  g[Place(u, i)] = u.entries[i].data
  <2> HIDE DEF K, M
  <2>1. CASE i = k + 1
    <3>1. g[t] = d
      BY DEF d
    <3> QED BY <2>1, <3>1
  <2>2. CASE i \in K
    <3>1. ~(k + 1 <= i)
      BY <1>2, <2>2
    <3>2. Place(u, i) # t
      BY <1>1, <1>5, <3>1
    <3>3. \A j \in K : Place(u, j) = Place(u, i) => j <= i
      BY <1>1, <1>5
    <3>4. files[Place(u, i)] = u.entries[i].data
      BY <2>2, <3>3 DEF FilesOf, K
    <3>5. Place(u, i) \in DOMAIN files
      BY <1>3, <2>2
    <3> QED BY <3>2, <3>4, <3>5
  <2> QED BY <1>1, <2>1, <2>2
<1>6. FilesOf(u, k + 1, g)
  BY <1>4, <1>5 DEF FilesOf
<1>7. DirsOf(u, k + 1, dirs \union Above(t))
  <2>1. UNION {Above(Place(u, i)) : i \in M} =
          (UNION {Above(Place(u, i)) : i \in K}) \union Above(t)
    <3> HIDE DEF K, M
    <3> QED BY <1>1
  <2> QED BY <1>1, <2>1 DEF DirsOf
<1> QED BY <1>6, <1>7

LEMMA DirMade ==
  ASSUME NEW u, UploadOf(u), NEW k \in Nat, k + 1 \in Dirs(u),
         NEW files, FilesOf(u, k, files), NEW dirs, DirsOf(u, k, dirs)
  PROVE  /\ FilesOf(u, k + 1, files)
         /\ DirsOf(u, k + 1, dirs \union Prefixes(Place(u, k + 1)))
<1> DEFINE D == DirsTo(u, k)
           G == DirsTo(u, k + 1)
<1>1. G = D \union {k + 1} /\ KeptTo(u, k + 1) = KeptTo(u, k)
  BY NextDir
<1>2. UNION {Prefixes(Place(u, d)) : d \in G} =
        (UNION {Prefixes(Place(u, d)) : d \in D}) \union Prefixes(Place(u, k + 1))
  <2> HIDE DEF D, G
  <2> QED BY <1>1
<1> QED BY <1>1, <1>2 DEF FilesOf, DirsOf

-----------------------------------------------------------------------------
(* Files hold bytes.                                                       *)

LEMMA Slice ==
  ASSUME NEW d \in Text, NEW a \in Nat, NEW b \in Nat, a <= b, b <= Len(d)
  PROVE  /\ SubSeq(d, a + 1, b) \in Text
         /\ Len(SubSeq(d, a + 1, b)) = b - a
         /\ \A i \in 1..b - a : SubSeq(d, a + 1, b)[i] = d[a + i]
<1>1. a + 1 \in 1..Len(d) + 1 /\ b \in 0..Len(d)
  BY LenProperties DEF Text
<1>2. \A i \in a + 1..b : d[i] \in Nat
  BY ElementOfSeq, LenProperties DEF Text
<1>3. /\ b - (a + 1) + 1 = b - a /\ (a + 1 <= b \/ b = a)
      /\ a + 1 \in Int /\ b \in Int
      /\ \A i \in 1..b - a : a + 1 + i - 1 = a + i
  OBVIOUS
<1> QED BY <1>1, <1>2, <1>3, SubSeqProperties DEF Text

Files(f) == IsFiniteSet(DOMAIN f) /\ \A p \in DOMAIN f : f[p] \in Text

Readable(es) == \A i \in DOMAIN es : es[i].data \in Text

Fields == {"pc", "kind", "entries", "at", "prefix", "written", "files",
           "dirs", "found", "result", "upload", "copy"}

UploadOK ==
  /\ Files(live)
  /\ DOMAIN up = Fields
  /\ Files(up.files) /\ Readable(up.entries)
  /\ up.written \in Nat
  /\ up.pc = "extract" => up.written <= MaxBytes

LEMMA NoFilesOK == Files(NoFiles)
<1>1. DOMAIN << >> = {}
  OBVIOUS
<1> QED BY <1>1, FS_EmptySet DEF Files, NoFiles

(* No upload is in progress.                                               *)
LEMMA IdleOK ==
  /\ DOMAIN Idle = Fields /\ Files(Idle.files) /\ Readable(Idle.entries)
  /\ Idle.written = 0
BY NoFilesOK DEF Idle, Fields, Readable

(* The zip of a directory has the contents of its files.                   *)
LEMMA DownloadOK ==
  ASSUME NEW f, Files(f)
  PROVE  Readable(Download(f).entries) /\ Download(f).kind = "zip"
<1> DEFINE S == DOMAIN f
           paths == SetToSeq(S)
<1>1. PICK n \in Nat : ExistsBijection(1..n, S)
  BY FS_NatBijection DEF Files
<1>2. Cardinality(S) = n
  BY <1>1, FS_CountingElements
<1>3. PICK g \in [1..Cardinality(S) -> S] : IsInjective(g)
  BY <1>1, <1>2 DEF ExistsBijection, Bijection, Injection
<1>4. paths \in [1..Cardinality(S) -> S]
  BY <1>3 DEF SetToSeq
<1> HIDE DEF paths
<1>5. Download(f) = [kind |-> "zip",
                     entries |-> [i \in DOMAIN paths |->
                                    [name |-> paths[i], type |-> "file",
                                     data |-> f[paths[i]]]]]
  BY DEF Download, paths
<1>6. \A i \in DOMAIN paths : f[paths[i]] \in Text
  BY <1>4 DEF Files
<1> QED BY <1>5, <1>6 DEF Readable

(* What each step leaves of UploadOK.                                      *)
LEMMA BeginOK ==
  ASSUME UploadOK, NEW u, NEW copy, Readable(u.entries), Begin(u, copy)
  PROVE  UploadOK'
<1> DEFINE entries == IF u.kind = "files" THEN BuildBundle(u) ELSE u.entries
<1>1. Readable(entries)
  BY DEF Readable, BuildBundle
<1>2. /\ up'.entries = entries /\ up'.files = Idle.files
      /\ up'.written = Idle.written /\ DOMAIN up' = DOMAIN Idle
  BY IdleOK DEF Begin, Fields
<1> HIDE DEF entries
<1>3. up'.written \in Nat /\ up'.written <= MaxBytes
  BY <1>2, IdleOK, UploadAssumption
<1>4. Files(live)' /\ Files(up.files)' /\ Readable(up.entries)' /\ (DOMAIN up = Fields)'
  BY <1>1, <1>2, IdleOK DEF UploadOK, Begin, Files, Readable
<1> QED BY <1>3, <1>4 DEF UploadOK

LEMMA WriteFileOK ==
  ASSUME UploadOK, WriteFile
  PROVE  UploadOK'
<1> DEFINE D == Entry.data
           n == IF Len(D) <= Room THEN Len(D) ELSE Room + 1
           total == up.written + n
           files == [p \in DOMAIN up.files \union {Target} |->
                       IF p = Target THEN SubSeq(D, 1, n) ELSE up.files[p]]
<1>1. D \in Text /\ up.written \in Nat /\ up.written <= MaxBytes
  BY DEF WriteFile, Extracting, Entry, Readable, UploadOK
<1>2. /\ up'.files = files /\ up'.written = total /\ up'.entries = up.entries
      /\ up'.pc = IF total > MaxBytes THEN "cleanup" ELSE up.pc
      /\ DOMAIN up' = DOMAIN up /\ live' = live
  BY DEF WriteFile, UploadOK, Fields
<1> HIDE DEF D
<1>3. Len(D) \in Nat /\ Room \in Nat
  BY <1>1, LenProperties, UploadAssumption DEF Text, Room
<1>4. n \in Nat /\ n <= Len(D)
  BY <1>3
<1> HIDE DEF n
<1>5. SubSeq(D, 1, n) \in Text
  <2>1. 0 \in Nat /\ 0 <= n /\ 0 + 1 = 1
    BY <1>4
  <2>2. SubSeq(D, 0 + 1, n) \in Text
    BY <1>1, <1>4, <2>1, Slice
  <2> QED BY <2>1, <2>2
<1>6. Files(files)
  <2>1. IsFiniteSet(DOMAIN up.files \union {Target})
    BY FS_AddElement DEF UploadOK, Files
  <2>2. \A p \in DOMAIN files : files[p] \in Text
    BY <1>5 DEF UploadOK, Files
  <2> QED BY <2>1, <2>2 DEF Files
<1>7. total \in Nat
  BY <1>1, <1>4
<1>8. up'.pc = "extract" => total <= MaxBytes
  BY <1>2, <1>7, UploadAssumption
<1> HIDE DEF files, total
<1>9. Files(live)' /\ Files(up.files)' /\ Readable(up.entries)' /\ (DOMAIN up = Fields)'
  BY <1>2, <1>6 DEF UploadOK, Files, Readable
<1> QED BY <1>2, <1>7, <1>8, <1>9 DEF UploadOK

(* What the other actions have in common.                                  *)
LEMMA KeepsOK ==
  ASSUME UploadOK, Files(live)', DOMAIN up' = Fields,
         up'.files = up.files, up'.entries = up.entries,
         up'.written = up.written, up'.pc = "extract" => up.pc = "extract"
  PROVE  UploadOK'
<1>1. Files(up.files)' /\ Readable(up.entries)'
  BY DEF UploadOK, Files, Readable
<1> QED BY <1>1 DEF UploadOK

LEMMA UploadStepOK ==
  ASSUME UploadOK, UploadStep
  PROVE  UploadOK'
<1>0. ASSUME live' = live PROVE Files(live)'
  BY <1>0 DEF UploadOK, Files
<1>1. CASE \E u \in Uploads : Begin(u, NoFiles)
  <2>1. PICK u \in Uploads : Begin(u, NoFiles)
    BY <1>1
  <2>2. Readable(u.entries)
    BY UploadAssumption, EntriesOf DEF Readable, Text, ArchiveEntry
  <2> QED BY <2>1, <2>2, BeginOK
<1>2. CASE Republish
  <2>1. Readable(Download(live).entries)
    BY DownloadOK DEF UploadOK
  <2> QED BY <1>2, <2>1, BeginOK DEF Republish
<1>3. ASSUME NEW r, End(r), up.pc \in {"extract", "swap"} PROVE UploadOK'
  <2>1. live' = live /\ DOMAIN up' = Fields
        /\ up'.files = up.files /\ up'.entries = up.entries
        /\ up'.written = up.written /\ up'.pc = "cleanup"
    BY <1>3 DEF End, UploadOK, Fields
  <2> QED BY <1>0, <2>1, KeepsOK
<1>4. CASE Reject
  BY <1>3, <1>4 DEF Reject, Extracting
<1>5. CASE Skip
  <2>1. live' = live /\ DOMAIN up' = Fields
        /\ up'.files = up.files /\ up'.entries = up.entries
        /\ up'.written = up.written /\ up'.pc = up.pc
    BY <1>5 DEF Skip, UploadOK, Fields
  <2> QED BY <1>0, <2>1, KeepsOK
<1>6. CASE MakeDir
  <2>1. live' = live /\ DOMAIN up' = Fields
        /\ up'.files = up.files /\ up'.entries = up.entries
        /\ up'.written = up.written /\ up'.pc = up.pc
    BY <1>6 DEF MakeDir, UploadOK, Fields
  <2> QED BY <1>0, <2>1, KeepsOK
<1>7. CASE WriteFile
  BY <1>7, WriteFileOK
<1>8. CASE Check
  <2>1. CASE End("refused")
    BY <1>3, <1>8, <2>1 DEF Check
  <2>2. CASE up' = [up EXCEPT !.pc = "swap"] /\ UNCHANGED live
    <3>1. live' = live /\ DOMAIN up' = Fields
          /\ up'.files = up.files /\ up'.entries = up.entries
          /\ up'.written = up.written /\ up'.pc = "swap"
      BY <2>2 DEF UploadOK, Fields
    <3> QED BY <1>0, <3>1, KeepsOK
  <2> QED BY <1>8, <2>1, <2>2 DEF Check
<1>9. CASE Swap
  <2>1. live' = up.files /\ DOMAIN up' = Fields
        /\ up'.files = up.files /\ up'.entries = up.entries
        /\ up'.written = up.written /\ up'.pc = "cleanup"
    BY <1>9 DEF Swap, UploadOK, Fields
  <2>2. Files(live)'
    BY <2>1 DEF UploadOK, Files
  <2> QED BY <2>1, <2>2, KeepsOK
<1>10. ASSUME up' = Idle, Files(live)' PROVE UploadOK'
  <2>1. up'.written \in Nat /\ up'.written <= MaxBytes
    BY <1>10, IdleOK, UploadAssumption
  <2>2. DOMAIN up' = Fields /\ Files(up.files)' /\ Readable(up.entries)'
    BY <1>10, IdleOK DEF Files, Readable
  <2> QED BY <1>10, <2>1, <2>2 DEF UploadOK
<1>11. CASE Cleanup \/ Die
  BY <1>0, <1>10, <1>11 DEF Cleanup, Die
<1>12. CASE Abort
  BY <1>3, <1>12 DEF Abort
<1>13. CASE TakeOffline
  <2>1. up' = up /\ Files(live)'
    BY <1>13, NoFilesOK DEF TakeOffline, Files
  <2>2. DOMAIN up' = Fields
    BY <2>1 DEF UploadOK
  <2> QED BY <2>1, <2>2, KeepsOK
<1> QED
  BY <1>1, <1>2, <1>4, <1>5, <1>6, <1>7, <1>8, <1>9, <1>11, <1>12, <1>13
  DEF UploadStep, Unpack

-----------------------------------------------------------------------------
(* Of an upload it matters, too, how much it unpacks to.                   *)

(* The size of some files, in bytes.                                       *)
LEMMA SizeIsNumber ==
  ASSUME NEW f, Files(f) PROVE Size(f) \in Nat
<1> DEFINE g == [p \in DOMAIN f |-> Len(f[p])]
<1>1. \A p \in DOMAIN f : g[p] \in Nat
  BY LenProperties DEF Files, Text
<1>2. Size(f) = SumFunctionOnSet(g, DOMAIN f)
  BY DEF Size, SumFunction
<1> HIDE DEF g
<1> QED BY <1>1, <1>2, SumIsNumber DEF Files

(* Writing a file of n bytes adds n bytes at most: it may replace one.     *)
LEMMA SizeAfterWrite ==
  ASSUME NEW f, Files(f), NEW t, NEW b \in Text
  PROVE  Size([p \in DOMAIN f \union {t} |-> IF p = t THEN b ELSE f[p]])
           <= Size(f) + Len(b)
<1> DEFINE S == DOMAIN f
           R == S \ {t}
           T == S \union {t}
           w == [p \in T |-> IF p = t THEN b ELSE f[p]]
           g == [p \in S |-> Len(f[p])]
           h == [p \in T |-> Len(w[p])]
<1>1. /\ \A p \in S : g[p] \in Nat
      /\ \A p \in T : h[p] \in Nat
      /\ h[t] = Len(b) /\ Len(b) \in Nat
      /\ \A p \in R : h[p] = g[p]
  BY LenProperties DEF Files, Text
<1>2. Size(f) = SumFunctionOnSet(g, S) /\ Size(w) = SumFunctionOnSet(h, T)
  BY DEF Size, SumFunction
<1>3. IsFiniteSet(S) /\ IsFiniteSet(T) /\ IsFiniteSet(R)
  BY FS_AddElement, FS_RemoveElement DEF Files
<1>4. t \in T /\ T \ {t} = R /\ R \subseteq S
  OBVIOUS
<1>5. t \in S \/ R = S
  OBVIOUS
<1>6. t \in S => R = S \ {t}
  OBVIOUS
<1> HIDE DEF S, R, T, g, h
<1>7. SumFunctionOnSet(h, T) = h[t] + SumFunctionOnSet(h, R)
  BY <1>1, <1>3, <1>4, SumSplit
<1>8. SumFunctionOnSet(h, R) = SumFunctionOnSet(g, R)
  BY <1>1, <1>3, <1>4, SumSame
<1>9. SumFunctionOnSet(g, R) \in Nat /\ SumFunctionOnSet(g, S) \in Nat
  BY <1>1, <1>3, <1>4, SumIsNumber
<1>10. SumFunctionOnSet(g, R) <= SumFunctionOnSet(g, S)
  <2>1. CASE t \in S
    <3>1. SumFunctionOnSet(g, S) = g[t] + SumFunctionOnSet(g, R)
      BY <1>1, <1>3, <1>6, <2>1, SumSplit
    <3> QED BY <1>1, <1>9, <2>1, <3>1
  <2>2. CASE R = S
    BY <1>9, <2>2
  <2> QED BY <1>5, <2>1, <2>2
<1>11. Size(w) <= Size(f) + Len(b)
  BY <1>1, <1>2, <1>7, <1>8, <1>9, <1>10
<1> QED BY <1>11 DEF T, S

(* What is written may exceed the limit by one byte, and only on the way   *)
(* to a refusal.                                                           *)
CapInv ==
  /\ Size(up.files) <= up.written /\ up.written <= MaxBytes + 1
  /\ up.pc \in {"extract", "swap"} \/ up.result = "swapped" =>
       up.written <= MaxBytes

(* A new upload has written nothing.                                       *)
LEMMA IdleWithinCap ==
  ASSUME up = Idle PROVE CapInv
<1>1. Size(NoFiles) = 0
  <2>1. DOMAIN NoFiles = {}
    BY DEF NoFiles
  <2> QED BY <2>1, SumEmpty DEF Size, SumFunction
<1>2. up.files = NoFiles /\ up.written = 0
  BY DEF Idle
<1> QED BY <1>1, <1>2, UploadAssumption DEF CapInv

(* The file that exceeds the cap ends the extraction.                      *)
LEMMA WriteWithinCap ==
  ASSUME UploadOK, CapInv, WriteFile
  PROVE  CapInv'
<1> DEFINE D == Entry.data
           n == IF Len(D) <= Room THEN Len(D) ELSE Room + 1
           b == SubSeq(D, 1, n)
           files == [p \in DOMAIN up.files \union {Target} |->
                       IF p = Target THEN b ELSE up.files[p]]
<1>1. D \in Text /\ up.written \in Nat /\ up.written <= MaxBytes
  BY DEF WriteFile, Extracting, Entry, Readable, UploadOK
<1>2. /\ up'.files = files /\ up'.written = up.written + n
      /\ up'.pc = IF up.written + n > MaxBytes THEN "cleanup" ELSE up.pc
      /\ up'.result = IF up.written + n > MaxBytes THEN "refused" ELSE up.result
  BY DEF WriteFile, UploadOK, Fields
<1> HIDE DEF D
<1>3. Len(D) \in Nat /\ Room \in Nat /\ Room = MaxBytes - up.written
  BY <1>1, LenProperties, UploadAssumption DEF Text, Room
<1>4. n \in Nat /\ n <= Len(D) /\ n <= Room + 1
  BY <1>3
<1> HIDE DEF n
<1>5. b \in Text /\ Len(b) = n
  <2>1. 0 \in Nat /\ 0 <= n /\ 0 + 1 = 1 /\ n - 0 = n
    BY <1>4
  <2>2. SubSeq(D, 0 + 1, n) \in Text /\ Len(SubSeq(D, 0 + 1, n)) = n - 0
    BY <1>1, <1>4, <2>1, Slice
  <2> QED BY <2>1, <2>2
<1> HIDE DEF b
<1>6. Size(files) <= Size(up.files) + n /\ Size(up.files) \in Nat
  BY <1>5, SizeAfterWrite, SizeIsNumber DEF UploadOK
<1>7. Files(files)
  <2>1. IsFiniteSet(DOMAIN up.files \union {Target})
    BY FS_AddElement DEF UploadOK, Files
  <2>2. \A p \in DOMAIN files : files[p] \in Text
    BY <1>5 DEF UploadOK, Files
  <2> QED BY <2>1, <2>2 DEF Files
<1>8. Size(files) \in Nat
  BY <1>7, SizeIsNumber
<1> HIDE DEF files
<1>9. Size(up.files)' <= up'.written
  <2>1. Size(up.files)' = Size(files)
    BY <1>2 DEF Size
  <2> QED BY <1>1, <1>2, <1>4, <1>6, <1>8, <2>1 DEF CapInv
<1>10. up'.written <= MaxBytes + 1
  BY <1>1, <1>2, <1>3, <1>4, UploadAssumption
<1>11. up'.pc \in {"extract", "swap"} \/ up'.result = "swapped" =>
         up'.written <= MaxBytes
  BY <1>1, <1>2, <1>4, UploadAssumption
<1> QED BY <1>9, <1>10, <1>11 DEF CapInv

(* No other step writes a file.                                            *)
LEMMA StepWithinCap ==
  ASSUME UploadOK, CapInv, UploadStep
  PROVE  CapInv'
<1>1. ASSUME up'.files = up.files, up'.written = up.written,
             up'.pc \in {"extract", "swap"} \/ up'.result = "swapped" =>
               up.pc \in {"extract", "swap"} \/ up.result = "swapped"
      PROVE  CapInv'
  BY <1>1 DEF CapInv, Size
<1>2. ASSUME NEW u, NEW copy, Begin(u, copy)
      PROVE  CapInv'
  <2>1. up'.files = Idle.files /\ up'.written = Idle.written /\ up = Idle
    BY <1>2 DEF Begin, Idle
  <2>2. up'.files = up.files /\ up'.written = up.written
    BY <2>1
  <2>3. up.written = 0 /\ up.written <= MaxBytes
    BY <2>1, IdleOK, UploadAssumption
  <2> QED BY <2>2, <2>3 DEF CapInv, Size
<1>3. ASSUME NEW r \in {"refused", "failed"}, End(r),
             up.pc \in {"extract", "swap"}
      PROVE  CapInv'
  <2>1. up'.files = up.files /\ up'.written = up.written
    BY <1>3 DEF End, UploadOK, Fields
  <2> QED BY <1>1, <1>3, <2>1
<1>4. CASE Reject \/ Abort
  BY <1>3, <1>4 DEF Reject, Extracting, Abort
<1>5. CASE Skip \/ MakeDir
  <2>1. /\ up'.files = up.files /\ up'.written = up.written
        /\ up'.pc = up.pc /\ up'.result = up.result
    BY <1>5 DEF Skip, MakeDir, UploadOK, Fields
  <2> QED BY <1>1, <2>1
<1>6. CASE Check
  <2>1. CASE End("refused")
    BY <1>3, <1>6, <2>1 DEF Check
  <2>2. CASE up' = [up EXCEPT !.pc = "swap"]
    <3>1. /\ up'.files = up.files /\ up'.written = up.written
          /\ up.pc = "extract"
      BY <1>6, <2>2 DEF Check, UploadOK, Fields
    <3> QED BY <1>1, <3>1
  <2> QED BY <1>6, <2>1, <2>2 DEF Check
<1>7. CASE Swap
  <2>1. /\ up'.files = up.files /\ up'.written = up.written
        /\ up.pc = "swap"
    BY <1>7 DEF Swap, UploadOK, Fields
  <2> QED BY <1>1, <2>1
<1>8. ASSUME up' = Idle PROVE CapInv'
  <2>1. (up = Idle => CapInv)'
    BY IdleWithinCap, PTL
  <2> QED BY <1>8, <2>1 DEF Idle
<1>9. CASE Cleanup \/ Die
  BY <1>8, <1>9 DEF Cleanup, Die
<1>10. CASE TakeOffline
  <2>1. up' = up
    BY <1>10 DEF TakeOffline
  <2> QED BY <1>1, <2>1
<1> QED BY <1>2, <1>4, <1>5, <1>6, <1>7, <1>9, <1>10, WriteWithinCap
        DEF UploadStep, Unpack, Republish

-----------------------------------------------------------------------------
(* What an upload that is refused has in it, and one that is not.          *)

(* What an upload has that is not acceptable.                              *)
LEMMA RefusalHasReason ==
  ASSUME NEW u, UploadOf(u), NEW i \in DOMAIN u.entries, RefusedOf(u, i)
  PROVE  ~Acceptable(u)
<1>1. Len(u.entries) \in Nat /\ i \in 1..Len(u.entries)
  BY EntriesOf
<1>2. CASE u.kind # "index" /\ i > MaxEntries
  <2>1. ~(Len(u.entries) <= MaxEntries)
    BY <1>1, <1>2, UploadAssumption
  <2> QED BY <1>2, <2>1 DEF Acceptable
<1>3. CASE u.entries[i].type = "link"
  BY <1>3 DEF Acceptable
<1>4. CASE Escapes(u.entries[i].name) /\ u.kind # "files"
           /\ ~(u.kind = "zip" /\ u.entries[i].type = "dir")
  BY <1>4 DEF Acceptable
<1> QED BY <1>2, <1>3, <1>4 DEF RefusedOf

LEMMA ConflictHasReason ==
  ASSUME NEW u, UploadOf(u), Conflicting(u)
  PROVE  ~Acceptable(u)
BY Conflicts DEF Acceptable

(* Every kept entry has its size, and there are finitely many.             *)
LEMMA BytesOf ==
  ASSUME NEW u, UploadOf(u)
  PROVE  /\ IsFiniteSet(Kept(u))
         /\ \A i \in Kept(u) : Bytes(u)[i] \in Nat
                               /\ Bytes(u)[i] = Len(u.entries[i].data)
         /\ \A k : IsFiniteSet(KeptTo(u, k)) /\ KeptTo(u, k) \in SUBSET Kept(u)
         /\ SumFunction([i \in Kept(u) |-> Len(u.entries[i].data)])
              = SumFunctionOnSet(Bytes(u), Kept(u))
         /\ KeptTo(u, Len(u.entries)) = Kept(u)
<1>1. /\ Kept(u) \subseteq 1..Len(u.entries) /\ Len(u.entries) \in Nat
      /\ \A i \in Kept(u) : u.entries[i] \in ArchiveEntry
  BY KeptOf, EntriesOf
<1>2. IsFiniteSet(Kept(u))
  <2>1. IsFiniteSet(1..Len(u.entries))
    BY <1>1, FS_Interval
  <2> QED BY <1>1, <2>1, FS_Subset
<1>3. \A i \in Kept(u) : u.entries[i].data \in Seq(Nat)
  BY <1>1 DEF ArchiveEntry
<1>4. \A i \in Kept(u) : Len(u.entries[i].data) \in Nat
  BY <1>3, LenProperties
<1>5. \A k : KeptTo(u, k) \in SUBSET Kept(u)
  BY DEF KeptTo
<1>6. \A k : IsFiniteSet(KeptTo(u, k))
  BY <1>2, <1>5, FS_Subset
<1>7. KeptTo(u, Len(u.entries)) = Kept(u)
  BY <1>1 DEF KeptTo
<1>8. SumFunction([i \in Kept(u) |-> Len(u.entries[i].data)])
        = SumFunctionOnSet(Bytes(u), Kept(u))
  BY DEF SumFunction, Bytes
<1>9. \A i \in Kept(u) : Bytes(u)[i] = Len(u.entries[i].data)
  BY DEF Bytes
<1> QED BY <1>2, <1>4, <1>5, <1>6, <1>7, <1>8, <1>9

(* A page is at the root of the site.                                      *)
LEMMA PageIsIndex ==
  ASSUME NEW u, UploadOf(u), u.kind = "index"
  PROVE  /\ Len(u.entries) = 1 /\ 1 \in Kept(u) /\ Place(u, 1) = <<Index>>
         /\ <<Index>> \in Seq(Plain)
<1>1. Len(u.entries) = 1 /\ u.entries[1].name = <<Index>> /\ 1 \in DOMAIN u.entries
  BY EntriesOf DEF UploadOf, Index
<1>2. u.entries[1].type = "file"
  BY <1>1 DEF UploadOf
<1>3. Index \in Plain
  <2>1. u.entries[1].name \in Seq(STRING)
    BY <1>1, EntriesOf DEF ArchiveEntry
  <2>2. Index \in STRING
    BY <1>1, <2>1
  <2> QED BY <2>2 DEF Index, Plain
<1>4. <<Index>> \in Seq(Plain)
  BY <1>3, SequencesOf
<1>5. CleanRel(<<Index>>) = <<Index>>
  BY <1>4, PlainIsClean
<1> QED BY <1>1, <1>2, <1>4, <1>5, KeptOf

(* What all entries come to is what the upload means.                      *)
LEMMA AllIsMeaning ==
  ASSUME NEW u, UploadOf(u), NEW n, n = Len(u.entries), NEW files,
         FilesOf(u, n, files), files = [p \in DOMAIN files |-> files[p]]
  PROVE  files = Meaning(u)
<1>1. KeptTo(u, n) = Kept(u)
  BY BytesOf
<1>2. DOMAIN files = {Place(u, i) : i \in Kept(u)}
  BY <1>1 DEF FilesOf
<1>3. DOMAIN Meaning(u) = {Place(u, i) : i \in Kept(u)}
  BY DEF Meaning
<1>4. ASSUME NEW p \in DOMAIN files PROVE files[p] = Meaning(u)[p]
  <2> DEFINE Latest(j) == /\ j \in Kept(u) /\ Place(u, j) = p
                          /\ \A k \in Kept(u) : Place(u, k) = p => k <= j
             S == {j \in Kept(u) : Place(u, j) = p}
             l == CHOOSE j \in Kept(u) : /\ Place(u, j) = p
                    /\ \A k \in Kept(u) : Place(u, k) = p => k <= j
  <2>1. Kept(u) \subseteq 1..n /\ n \in Nat
    BY KeptOf, EntriesOf
  <2>2. S # {} /\ S \in SUBSET (1..n)
    BY <1>2, <2>1
  <2> HIDE DEF S
  <2>3. Max(S) \in S /\ \A y \in S : y <= Max(S)
    BY <2>1, <2>2, LargestIsIn
  <2>4. \E j : Latest(j)
    BY <2>3 DEF S
  <2>5. Latest(l)
    BY <2>4
  <2>6. Meaning(u)[p] = u.entries[l].data
    BY <1>2 DEF Meaning
  <2> HIDE DEF l
  <2>7. files[Place(u, l)] = u.entries[l].data
    BY <1>1, <2>5 DEF FilesOf
  <2> QED BY <2>5, <2>6, <2>7
<1>5. Meaning(u) = [p \in DOMAIN Meaning(u) |-> Meaning(u)[p]]
  BY DEF Meaning
<1> HIDE DEF Meaning
<1> QED BY <1>2, <1>3, <1>4, <1>5

(* The acceptable ones, in the terms of what has been done when all        *)
(* entries have been.                                                      *)
LEMMA AllIsAcceptable ==
  ASSUME NEW u, UploadOf(u), NEW n, n = Len(u.entries),
         \A i \in 1..n : ~RefusedOf(u, i), Compatible(u, n),
         SumFunctionOnSet(Bytes(u), KeptTo(u, n)) <= MaxBytes,
         \E i \in KeptTo(u, n) : Place(u, i) = <<Index>>
  PROVE  Acceptable(u)
<1>1. n \in Nat /\ DOMAIN u.entries = 1..n
  BY EntriesOf
<1>2. u.kind = "index" \/ Len(u.entries) <= MaxEntries
  <2>1. CASE n = 0
    BY <2>1, UploadAssumption
  <2>2. CASE n # 0
    <3>1. n \in 1..n
      BY <1>1, <2>2
    <3>2. u.kind = "index" \/ ~(n > MaxEntries)
      BY <3>1 DEF RefusedOf
    <3> QED BY <1>1, <3>2, UploadAssumption
  <2> QED BY <2>1, <2>2
<1>3. \A i \in DOMAIN u.entries :
        /\ u.entries[i].type # "link"
        /\ Escapes(u.entries[i].name) =>
           u.kind = "files" \/ (u.kind = "zip" /\ u.entries[i].type = "dir")
  BY <1>1 DEF RefusedOf
<1>4. KeptTo(u, n) = Kept(u)
  BY BytesOf
<1>5. \A d \in Dirs(u) : d <= n
  BY <1>1, DirsOfUpload
<1>6. ~Conflicting(u)
  BY <1>4, <1>5 DEF Conflicting, Compatible, DirsTo
<1>7. \A i \in Kept(u) :
        /\ \A j \in Kept(u) : ~IsStrictPrefix(Place(u, i), Place(u, j))
        /\ \A d \in Folders(u) : ~IsPrefix(Place(u, i), d)
  BY <1>6, Conflicts
<1>8. SumFunction([i \in Kept(u) |-> Len(u.entries[i].data)]) <= MaxBytes
  BY <1>4, BytesOf
<1>9. <<Index>> \in DOMAIN Meaning(u)
  BY <1>4 DEF Meaning
<1> QED BY <1>2, <1>3, <1>7, <1>8, <1>9 DEF Acceptable

-----------------------------------------------------------------------------
(* An upload that has begun, as far as it has come.                        *)

Started ==
  LET u == up.upload
  IN  /\ PayloadOK(u)
      /\ up.entries = Unpacked(u)
      /\ up.kind = IF u.kind = "files" THEN "tar" ELSE u.kind
      /\ up.prefix # << >> <=> Unwrapped(u)

Progress ==
  LET u == up.upload
      k == up.at - 1
  IN  /\ up.at \in 1..Len(u.entries) + 1
      /\ \A i \in 1..k : ~RefusedOf(u, i)
      /\ FilesOf(u, k, up.files) /\ DirsOf(u, k, up.dirs) /\ Compatible(u, k)
      /\ up.files = [p \in DOMAIN up.files |-> up.files[p]]
      /\ up.written = SumFunctionOnSet(Bytes(u), KeptTo(u, k))
      /\ up.found <=> \E i \in KeptTo(u, k) : Place(u, i) = <<Index>>

(* The entry it is at, in the terms of the upload.                         *)
LEMMA AtEntry ==
  ASSUME Started, up.at \in DOMAIN up.entries,
         NEW u, u = up.upload, NEW i, i = up.at
  PROVE  /\ UploadOf(u) /\ i \in DOMAIN u.entries
         /\ Entry.data = u.entries[i].data /\ Entry.type = u.entries[i].type
         /\ Refused <=> RefusedOf(u, i)
         /\ ~Refused /\ Skipped => i \notin Kept(u) /\ i \notin Dirs(u)
         /\ ~Refused /\ ~Skipped /\ Entry.type = "dir" =>
              /\ i \in Dirs(u) /\ Target = Place(u, i)
              /\ Blocked <=> BlockedDir(Place(u, i), up.files)
         /\ ~Refused /\ ~Skipped /\ Entry.type # "dir" =>
              /\ i \in Kept(u) /\ Target = Place(u, i)
              /\ Blocked <=> BlockedFile(Place(u, i), up.files, up.dirs)
<1> DEFINE e == u.entries[i]
           c == CleanRel(e.name)
<1>1. PayloadOK(u) /\ UploadOf(u)
  BY DEF Started, PayloadOK
<1>2. i \in DOMAIN u.entries
  BY <1>1, UnpackedOf DEF Started
<1>3. /\ Entry.type = e.type /\ Entry.data = e.data
      /\ CleanRel(Entry.name) = c
      /\ Escapes(Entry.name) <=> u.kind # "files" /\ Escapes(e.name)
  BY <1>1, <1>2, UnpackedOf DEF Started, Entry
<1>4. /\ u.kind \in {"tar", "zip", "index", "files"}
      /\ e \in ArchiveEntry /\ c \in Seq(Plain)
  BY <1>1, <1>2, EntriesOf DEF UploadOf
<1>5. /\ IsZip <=> u.kind = "zip"
      /\ up.kind = "index" <=> u.kind = "index"
      /\ up.prefix # << >> <=> Unwrapped(u)
  BY <1>4 DEF Started, IsZip
<1>6. Refused <=> RefusedOf(u, i)
  BY <1>3, <1>5 DEF Refused, RefusedOf
<1>7. Target = IF Unwrapped(u) /\ c # << >> THEN Tail(c) ELSE c
  BY <1>3, <1>5 DEF Target
<1>8. Place(u, i) = IF Unwrapped(u) THEN Tail(c) ELSE c
  BY DEF Place
<1>9. Unwrapped(u) => u.kind = "zip"
  BY DEF Unwrapped
<1>10. e.type \in {"file", "dir", "link", "other"}
  BY <1>4 DEF ArchiveEntry
<1>11. /\ u.kind = "zip" => (i \in Kept(u) <=> e.type # "dir" /\ c # << >>)
       /\ u.kind # "zip" => (i \in Kept(u) <=> e.type = "file")
       /\ i \in Kept(u) /\ u.kind = "zip" => Place(u, i) # << >>
  BY <1>1, <1>2, KeptOf
<1>12. i \in Dirs(u) <=> u.kind = "tar" /\ e.type = "dir"
  BY <1>2 DEF Dirs
<1>13. u.kind \in {"index", "files"} => e.type = "file"
  BY <1>1, <1>2 DEF UploadOf
<1>14. Skipped <=> IF u.kind = "zip" THEN e.type = "dir" \/ Target = << >>
                                     ELSE e.type = "other"
  BY <1>3, <1>5 DEF Skipped
<1>15. RefusedOf(u, i) \/ e.type # "link"
  BY DEF RefusedOf
<1> HIDE DEF c, e
<1>16. ~Refused /\ Skipped => i \notin Kept(u) /\ i \notin Dirs(u)
  BY <1>6, <1>7, <1>8, <1>9, <1>11, <1>12, <1>14
<1>17. ~Refused /\ ~Skipped /\ e.type = "dir" => i \in Dirs(u) /\ Target = Place(u, i)
  BY <1>4, <1>7, <1>8, <1>9, <1>12, <1>13, <1>14
<1>18. ~Refused /\ ~Skipped /\ e.type # "dir" => i \in Kept(u) /\ Target = Place(u, i)
  BY <1>6, <1>7, <1>8, <1>9, <1>10, <1>11, <1>14, <1>15
<1>19. i \in Dirs(u) => Place(u, i) \in Prefixes(Place(u, i))
  BY <1>1, DirsOfUpload, PrefixSelf
<1>20. ~Refused /\ ~Skipped /\ e.type = "dir" =>
         (Blocked <=> BlockedDir(Place(u, i), up.files))
  BY <1>3, <1>17, <1>19 DEF Blocked, BlockedDir
<1>21. ~Refused /\ ~Skipped /\ e.type # "dir" =>
         (Blocked <=> BlockedFile(Place(u, i), up.files, up.dirs))
  BY <1>3, <1>18 DEF Blocked, BlockedFile, Above
<1> QED BY <1>1, <1>2, <1>3, <1>6, <1>16, <1>17, <1>18, <1>20, <1>21 DEF e

-----------------------------------------------------------------------------
(* What is online, if anything: no file of it is below a file, and its     *)
(* paths are clean.                                                        *)
Directory(f) ==
  /\ Files(f) /\ f = [p \in DOMAIN f |-> f[p]]
  /\ \A p \in DOMAIN f : /\ p \in Seq(Plain) /\ p # << >>
                         /\ \A q \in DOMAIN f : p \notin Above(q)

LEMMA NothingIsDirectory == Directory(NoFiles)
<1>1. DOMAIN NoFiles = {} /\ NoFiles = [p \in DOMAIN NoFiles |-> NoFiles[p]]
  BY DEF NoFiles
<1> QED BY <1>1, NoFilesOK DEF Directory

Done == Acceptable(up.upload) /\ up.files = Meaning(up.upload)

LiveOK == Directory(live)
CopyOK ==
  up.copy = NoFiles \/ (up.upload = Download(up.copy) /\ Directory(up.copy))

TakenInv ==
  /\ LiveOK /\ CopyOK
  /\ up.pc \in {"idle", "extract", "swap", "cleanup"}
  /\ up.pc # "idle" => Started
  /\ up.pc = "extract" => Progress /\ up.result = "none"
  /\ up.pc = "swap" => Done /\ up.result = "none"
  /\ up.result = "swapped" => Done
  /\ up.result = "refused" => ~Acceptable(up.upload)

(* What the steps of an extraction leave alone.                            *)
Same == /\ live' = live /\ up'.copy = up.copy /\ up'.upload = up.upload
        /\ up'.entries = up.entries /\ up'.kind = up.kind /\ up'.prefix = up.prefix

LEMMA SameStarted ==
  ASSUME TakenInv, Same, up.pc # "idle"
  PROVE  Started' /\ LiveOK' /\ CopyOK'
BY DEF TakenInv, LiveOK, CopyOK, Same, Started

LEMMA NothingYet ==
  ASSUME NEW u, UploadOf(u)
  PROVE  /\ KeptTo(u, 0) = {} /\ FilesOf(u, 0, NoFiles) /\ DirsOf(u, 0, {<< >>})
         /\ Compatible(u, 0)
         /\ SumFunctionOnSet(Bytes(u), KeptTo(u, 0)) = 0
         /\ NoFiles = [p \in DOMAIN NoFiles |-> NoFiles[p]]
<1>1. Kept(u) \subseteq Nat \ {0} /\ Dirs(u) \subseteq Nat \ {0}
  BY KeptOf, EntriesOf, DirsOfUpload
<1>2. \A i \in Nat \ {0} : ~(i <= 0)
  OBVIOUS
<1>3. KeptTo(u, 0) = {} /\ DirsTo(u, 0) = {}
  BY <1>1, <1>2 DEF KeptTo, DirsTo
<1>4. DOMAIN NoFiles = {} /\ NoFiles = [p \in DOMAIN NoFiles |-> NoFiles[p]]
  BY DEF NoFiles
<1> QED BY <1>3, <1>4, SumEmpty DEF FilesOf, DirsOf, Compatible

LEMMA BeginTaken ==
  ASSUME UploadOK, TakenInv, NEW u, PayloadOK(u), NEW copy,
         copy = NoFiles \/ (u = Download(copy) /\ Directory(copy)), Begin(u, copy)
  PROVE  TakenInv'
<1>1. UploadOf(u)
  BY DEF PayloadOK
<1> DEFINE entries == IF u.kind = "files" THEN BuildBundle(u) ELSE u.entries
<1>2. /\ up'.pc = "extract" /\ up'.entries = entries
      /\ up'.kind = (IF u.kind = "files" THEN "tar" ELSE u.kind)
      /\ up'.prefix = (IF u.kind = "zip" THEN SingleRootPrefix(entries) ELSE << >>)
      /\ up'.upload = u /\ up'.copy = copy /\ live' = live
      /\ up'.at = 1 /\ up'.written = 0 /\ up'.files = NoFiles /\ up'.dirs = {<< >>}
      /\ up'.found = FALSE /\ up'.result = "none"
  BY DEF Begin, Idle
<1>3. entries = Unpacked(u)
  BY DEF Unpacked
<1> HIDE DEF entries
<1>4. up'.prefix # << >> <=> Unwrapped(u)
  <2>1. CASE u.kind = "zip"
    <3>1. entries = u.entries
      BY <1>3, <2>1 DEF Unpacked
    <3>2. SingleRootPrefix(u.entries) # << >> <=> Unwrapped(u)
      BY <1>1, <2>1, RootFound DEF UploadOf
    <3> QED BY <1>2, <2>1, <3>1, <3>2
  <2>2. CASE u.kind # "zip"
    BY <1>2, <2>2 DEF Unwrapped
  <2> QED BY <2>1, <2>2
<1>5. Started'
  BY <1>2, <1>3, <1>4 DEF Started
<1>6. Progress'
  <2>1. Len(u.entries) \in Nat
    BY <1>1, EntriesOf
  <2>2. up'.at \in 1..Len(u.entries) + 1 /\ up'.at - 1 = 0 /\ 1..0 = {}
    BY <1>2, <2>1
  <2> QED BY <1>1, <1>2, <2>2, NothingYet DEF Progress
<1> QED BY <1>2, <1>5, <1>6 DEF TakenInv, LiveOK, CopyOK

(* An entry that is neither a file to keep nor a directory.                *)
LEMMA SkipTaken ==
  ASSUME UploadOK, TakenInv, Skip
  PROVE  TakenInv'
<1> DEFINE u == up.upload
           k == up.at - 1
<1>1. up.pc = "extract" /\ Started /\ Progress /\ up.at \in DOMAIN up.entries
  BY DEF Skip, Extracting, TakenInv
<1>2. /\ Same /\ up'.pc = "extract" /\ up'.result = up.result
      /\ up'.at = up.at + 1 /\ up'.files = up.files /\ up'.dirs = up.dirs
      /\ up'.written = up.written /\ up'.found = up.found
  BY <1>1 DEF Skip, Same, UploadOK, Fields
<1>3. /\ UploadOf(u) /\ up.at \in DOMAIN u.entries /\ ~RefusedOf(u, up.at)
      /\ up.at \notin Kept(u) /\ up.at \notin Dirs(u)
  BY <1>1, AtEntry DEF Skip
<1>4. /\ up.at \in 1..Len(u.entries) /\ Len(u.entries) \in Nat /\ k \in Nat
      /\ k + 1 = up.at /\ up'.at - 1 = up.at /\ 1..up.at = (1..k) \union {up.at}
      /\ up'.at \in 1..Len(u.entries) + 1
  <2>1. up.at \in 1..Len(u.entries) /\ Len(u.entries) \in Nat
    BY <1>3, EntriesOf
  <2> HIDE DEF u
  <2> QED BY <1>2, <2>1
<1> HIDE DEF k
<1>5. DirsTo(u, up.at) = DirsTo(u, k) /\ KeptTo(u, up.at) = KeptTo(u, k)
  BY <1>3, <1>4, NextOther
<1>6. Progress'
  <2>1. \A i \in 1..up.at : ~RefusedOf(u, i)
    BY <1>1, <1>3, <1>4 DEF Progress, k
  <2>2. /\ FilesOf(u, up.at, up.files) /\ DirsOf(u, up.at, up.dirs)
        /\ Compatible(u, up.at)
    BY <1>1, <1>5 DEF Progress, k, FilesOf, DirsOf, Compatible
  <2>3. up'.upload = u
    BY <1>2 DEF Same
  <2> QED BY <1>1, <1>2, <1>4, <1>5, <2>1, <2>2, <2>3 DEF Progress, k
<1>7. Started' /\ LiveOK' /\ CopyOK'
  BY <1>1, <1>2, SameStarted
<1> QED BY <1>1, <1>2, <1>6, <1>7 DEF TakenInv

LEMMA MakeDirTaken ==
  ASSUME UploadOK, TakenInv, MakeDir
  PROVE  TakenInv'
<1> DEFINE u == up.upload
           k == up.at - 1
<1>1. up.pc = "extract" /\ Started /\ Progress /\ up.at \in DOMAIN up.entries
  BY DEF MakeDir, Extracting, TakenInv
<1>2. /\ Same /\ up'.pc = "extract" /\ up'.result = up.result
      /\ up'.at = up.at + 1 /\ up'.files = up.files
      /\ up'.dirs = up.dirs \union Prefixes(Target)
      /\ up'.written = up.written /\ up'.found = up.found
  BY <1>1 DEF MakeDir, Same, UploadOK, Fields
<1>3. /\ UploadOf(u) /\ up.at \in DOMAIN u.entries /\ ~RefusedOf(u, up.at)
      /\ up.at \in Dirs(u) /\ Target = Place(u, up.at)
      /\ ~BlockedDir(Place(u, up.at), up.files)
  BY <1>1, AtEntry DEF MakeDir
<1>4. /\ up.at \in 1..Len(u.entries) /\ Len(u.entries) \in Nat /\ k \in Nat
      /\ k + 1 = up.at /\ up'.at - 1 = up.at /\ 1..up.at = (1..k) \union {up.at}
      /\ up'.at \in 1..Len(u.entries) + 1
  <2>1. up.at \in 1..Len(u.entries) /\ Len(u.entries) \in Nat
    BY <1>3, EntriesOf
  <2> HIDE DEF u
  <2> QED BY <1>2, <2>1
<1>5. /\ FilesOf(u, k, up.files) /\ DirsOf(u, k, up.dirs) /\ Compatible(u, k)
  BY <1>1 DEF Progress
<1> HIDE DEF k
<1>6. KeptTo(u, up.at) = KeptTo(u, k)
  BY <1>3, <1>4, NextDir
<1>7. Progress'
  <2>1. \A i \in 1..up.at : ~RefusedOf(u, i)
    BY <1>1, <1>3, <1>4 DEF Progress, k
  <2>2. FilesOf(u, up.at, up.files) /\ DirsOf(u, up.at, up'.dirs)
    <3>1. k + 1 \in Dirs(u) /\ k \in Nat /\ UploadOf(u)
      BY <1>3, <1>4
    <3>2. /\ FilesOf(u, k + 1, up.files)
          /\ DirsOf(u, k + 1, up.dirs \union Prefixes(Place(u, k + 1)))
      BY <1>5, <3>1, DirMade
    <3> QED BY <1>2, <1>3, <1>4, <3>2
  <2>3. Compatible(u, up.at)
    BY <1>3, <1>4, <1>5, DirFits
  <2>4. up'.upload = u
    BY <1>2 DEF Same
  <2> QED BY <1>1, <1>2, <1>4, <1>6, <2>1, <2>2, <2>3, <2>4 DEF Progress, k
<1>8. Started' /\ LiveOK' /\ CopyOK'
  BY <1>1, <1>2, SameStarted
<1> QED BY <1>1, <1>2, <1>7, <1>8 DEF TakenInv

(* The sizes of the files up to the next one.                              *)
LEMMA NextSize ==
  ASSUME NEW u, UploadOf(u), NEW k \in Nat, k + 1 \in Kept(u),
         NEW m, m = SumFunctionOnSet(Bytes(u), KeptTo(u, k)),
         NEW l, l = Len(u.entries[k + 1].data)
  PROVE  /\ m \in Nat /\ l \in Nat
         /\ SumFunctionOnSet(Bytes(u), KeptTo(u, k + 1)) = m + l
         /\ Acceptable(u) => m + l <= MaxBytes
<1> DEFINE K == KeptTo(u, k)
           M == KeptTo(u, k + 1)
           b == Bytes(u)
           S == Kept(u)
<1>1. M = K \union {k + 1} /\ k + 1 \notin K
  BY NextKept
<1>2. /\ IsFiniteSet(S) /\ \A i \in S : b[i] \in Nat
      /\ IsFiniteSet(K) /\ K \in SUBSET S /\ IsFiniteSet(M) /\ M \in SUBSET S
      /\ b[k + 1] = l
  BY BytesOf
<1>3. SumFunction([i \in Kept(u) |-> Len(u.entries[i].data)]) = SumFunctionOnSet(b, S)
  BY BytesOf
<1>4. M \ {k + 1} = K
  <2> HIDE DEF K, M
  <2> QED BY <1>1
<1> DEFINE n == k + 1
<1>5. n \in M /\ n \in S /\ b[n] = l /\ M \ {n} = K
  BY <1>1, <1>2, <1>4
<1> HIDE DEF K, M, b, S, n
<1>6. SumFunctionOnSet(b, K) \in Nat /\ SumFunctionOnSet(b, S) \in Nat
  BY <1>2, SumIsNumber
<1>7. SumFunctionOnSet(b, M) = b[n] + SumFunctionOnSet(b, M \ {n})
  BY <1>2, <1>5, SumSplit
<1>8. SumFunctionOnSet(b, M) <= SumFunctionOnSet(b, S)
  BY <1>2, SumOfPart
<1>9. m = SumFunctionOnSet(b, K) /\ m \in Nat /\ l \in Nat
  BY <1>2, <1>5, <1>6 DEF K, b
<1>10. SumFunctionOnSet(b, M) = m + l
  <2>1. SumFunctionOnSet(b, M) = l + SumFunctionOnSet(b, K)
    BY <1>5, <1>7, Zenon
  <2>2. SumFunctionOnSet(b, M) = l + m
    BY <1>9, <2>1, Zenon
  <2> QED BY <1>9, <2>2
<1>11. Acceptable(u) => SumFunctionOnSet(b, S) <= MaxBytes
  BY <1>3 DEF Acceptable
<1>12. Acceptable(u) => m + l <= MaxBytes
  BY <1>6, <1>8, <1>9, <1>10, <1>11, UploadAssumption
<1> QED BY <1>9, <1>10, <1>12 DEF M, b, n

LEMMA WriteFileTaken ==
  ASSUME UploadOK, TakenInv, WriteFile
  PROVE  TakenInv'
<1> DEFINE u == up.upload
           k == up.at - 1
           D == Entry.data
           n == IF Len(D) <= Room THEN Len(D) ELSE Room + 1
           total == up.written + n
           files == [p \in DOMAIN up.files \union {Target} |->
                       IF p = Target THEN SubSeq(D, 1, n) ELSE up.files[p]]
<1>1. up.pc = "extract" /\ Started /\ Progress /\ up.at \in DOMAIN up.entries
      /\ up.result = "none"
  BY DEF WriteFile, Extracting, TakenInv
<1>2. /\ Same /\ up'.pc = (IF total > MaxBytes THEN "cleanup" ELSE up.pc)
      /\ up'.result = (IF total > MaxBytes THEN "refused" ELSE up.result)
      /\ up'.at = up.at + 1 /\ up'.files = files
      /\ up'.dirs = up.dirs \union Above(Target)
      /\ up'.written = total /\ up'.found = (up.found \/ Target = <<Index>>)
  BY DEF WriteFile, Same, UploadOK, Fields, Above
<1>3. /\ UploadOf(u) /\ up.at \in DOMAIN u.entries /\ ~RefusedOf(u, up.at)
      /\ up.at \in Kept(u) /\ Target = Place(u, up.at)
      /\ ~BlockedFile(Place(u, up.at), up.files, up.dirs)
      /\ D = u.entries[up.at].data
  BY <1>1, AtEntry DEF WriteFile
<1>4. /\ up.at \in 1..Len(u.entries) /\ Len(u.entries) \in Nat /\ k \in Nat
      /\ k + 1 = up.at /\ up'.at - 1 = up.at /\ 1..up.at = (1..k) \union {up.at}
      /\ up'.at \in 1..Len(u.entries) + 1
  <2>1. up.at \in 1..Len(u.entries) /\ Len(u.entries) \in Nat
    BY <1>3, EntriesOf
  <2> HIDE DEF u
  <2> QED BY <1>2, <2>1
<1>5. /\ FilesOf(u, k, up.files) /\ DirsOf(u, k, up.dirs) /\ Compatible(u, k)
      /\ up.written = SumFunctionOnSet(Bytes(u), KeptTo(u, k))
      /\ up.found <=> \E i \in KeptTo(u, k) : Place(u, i) = <<Index>>
      /\ \A i \in 1..k : ~RefusedOf(u, i)
  BY <1>1 DEF Progress
<1> HIDE DEF k
<1>6. k + 1 \in Kept(u) /\ D = u.entries[k + 1].data /\ Target = Place(u, k + 1)
  BY <1>3, <1>4
<1>7. /\ up.written \in Nat /\ Len(D) \in Nat
      /\ SumFunctionOnSet(Bytes(u), KeptTo(u, up.at)) = up.written + Len(D)
      /\ Acceptable(u) => up.written + Len(D) <= MaxBytes
  <2> HIDE DEF D, u
  <2>1. /\ up.written \in Nat /\ Len(D) \in Nat
        /\ SumFunctionOnSet(Bytes(u), KeptTo(u, k + 1)) = up.written + Len(D)
        /\ Acceptable(u) => up.written + Len(D) <= MaxBytes
    BY <1>3, <1>4, <1>5, <1>6, NextSize
  <2> QED BY <1>4, <2>1
<1>8. Started' /\ LiveOK' /\ CopyOK'
  BY <1>1, <1>2, SameStarted
<1>9. Room = MaxBytes - up.written /\ up.written <= MaxBytes
  BY <1>1 DEF Room, UploadOK
<1>10. /\ total > MaxBytes <=> up.written + Len(D) > MaxBytes
       /\ ~(total > MaxBytes) => n = Len(D)
  <2> HIDE DEF D
  <2> QED BY <1>7, <1>9, UploadAssumption
<1>11. CASE total > MaxBytes
  <2>1. ~Acceptable(u)
    <3> HIDE DEF D, u, total
    <3> QED BY <1>7, <1>10, <1>11, UploadAssumption
  <2>2. up'.upload = u /\ up'.pc = "cleanup" /\ up'.result = "refused"
    BY <1>2, <1>11 DEF Same
  <2> QED BY <1>8, <2>1, <2>2 DEF TakenInv
<1>12. CASE ~(total > MaxBytes)
  <2>1. SubSeq(D, 1, n) = D
    <3>1. n = Len(D) /\ D \in Seq(Nat)
      BY <1>10, <1>12, <1>1 DEF UploadOK, Readable, Entry, Text
    <3> HIDE DEF D, n
    <3> QED BY <3>1, SubSeqFull
  <2>2. /\ up'.pc = "extract" /\ up'.result = "none" /\ up'.upload = u
        /\ up'.written = up.written + Len(D)
    BY <1>1, <1>2, <1>10, <1>12 DEF Same
  <2>3. files = [p \in DOMAIN up.files \union {Place(u, k + 1)} |->
                   IF p = Place(u, k + 1) THEN u.entries[k + 1].data
                                          ELSE up.files[p]]
    <3> HIDE DEF D, u, n
    <3> QED BY <1>6, <2>1
  <2>4. files = [p \in DOMAIN files |-> files[p]]
    OBVIOUS
  <2> HIDE DEF files, total, n, D
  <2>5. FilesOf(u, k + 1, files) /\ DirsOf(u, k + 1, up.dirs \union Above(Place(u, k + 1)))
    <3> DEFINE t == Place(u, k + 1)
    <3>1. files = [p \in DOMAIN up.files \union {t} |->
                     IF p = t THEN u.entries[k + 1].data ELSE up.files[p]]
      BY <2>3
    <3>2. UploadOf(u) /\ k \in Nat /\ k + 1 \in Kept(u)
      BY <1>3, <1>4, <1>6
    <3>3. t = Place(u, k + 1)
      OBVIOUS
    <3> HIDE DEF t, u
    <3>4. FilesOf(u, k + 1, files) /\ DirsOf(u, k + 1, up.dirs \union Above(t))
      BY <1>5, <3>1, <3>2, <3>3, FileWritten
    <3> QED BY <3>3, <3>4
  <2>6. Compatible(u, k + 1)
    BY <1>3, <1>4, <1>5, <1>6, FileFits
  <2>7. KeptTo(u, up.at) = KeptTo(u, k) \union {up.at}
    BY <1>3, <1>4, <1>6, NextKept
  <2>8. Progress'
    <3>1. \A i \in 1..up.at : ~RefusedOf(u, i)
      BY <1>3, <1>4, <1>5
    <3>2. FilesOf(u, up.at, files) /\ DirsOf(u, up.at, up'.dirs) /\ Compatible(u, up.at)
      BY <1>2, <1>4, <1>6, <2>5, <2>6
    <3>3. up'.found <=> \E i \in KeptTo(u, up.at) : Place(u, i) = <<Index>>
      BY <1>2, <1>3, <1>5, <2>7
    <3> HIDE DEF u
    <3> QED BY <1>2, <1>4, <1>7, <2>2, <2>4, <3>1, <3>2, <3>3 DEF Progress
  <2> QED BY <1>8, <2>2, <2>8 DEF TakenInv
<1> QED BY <1>11, <1>12

(* What an acceptable upload means is a directory.                         *)
LEMMA MeaningIsDirectory ==
  ASSUME NEW u, UploadOf(u), Acceptable(u)
  PROVE  Directory(Meaning(u))
<1> DEFINE m == Meaning(u)
<1>1. /\ DOMAIN m = {Place(u, i) : i \in Kept(u)} /\ m = [p \in DOMAIN m |-> m[p]]
      /\ <<Index>> \in DOMAIN m
  BY DEF Meaning, Acceptable
<1>2. IsFiniteSet(DOMAIN m)
  <2>1. IsFiniteSet(Kept(u))
    BY BytesOf
  <2> DEFINE g == [i \in Kept(u) |-> Place(u, i)]
             T == {Place(u, i) : i \in Kept(u)}
  <2>2. g \in Surjection(Kept(u), T)
    BY DEF Surjection
  <2>3. IsFiniteSet(T)
    <3> HIDE DEF g, T
    <3> QED BY <2>1, <2>2, FS_Surjection
  <2> QED BY <1>1, <2>3
<1>3. ~Conflicting(u)
  BY Conflicts DEF Acceptable
<1>4. \A p \in DOMAIN m : /\ p \in Seq(Plain) /\ p # << >>
                          /\ \A q \in DOMAIN m : p \notin Above(q)
  <2> HIDE DEF m
  <2> QED BY <1>1, <1>3, KeptOf DEF Conflicting
<1>5. ASSUME NEW p \in DOMAIN m PROVE m[p] \in Text
  <2> DEFINE n == Len(u.entries)
             S == {j \in Kept(u) : Place(u, j) = p}
  <2>1. Kept(u) \subseteq 1..n /\ n \in Nat
    BY KeptOf, EntriesOf
  <2>2. S # {} /\ S \in SUBSET (1..n)
    BY <1>1, <2>1
  <2> HIDE DEF S
  <2>3. Max(S) \in S /\ \A y \in S : y <= Max(S)
    BY <2>1, <2>2, LargestIsIn
  <2>4. \E j \in Kept(u) : /\ Place(u, j) = p
                           /\ \A k \in Kept(u) : Place(u, k) = p => k <= j
    BY <2>3 DEF S
  <2>5. PICK j \in Kept(u) : m[p] = u.entries[j].data
    BY <1>1, <2>4 DEF Meaning
  <2>6. u.entries[j] \in ArchiveEntry
    BY KeptOf, EntriesOf
  <2> QED BY <2>5, <2>6 DEF ArchiveEntry, Text
<1> HIDE DEF m
<1> QED BY <1>1, <1>2, <1>4, <1>5 DEF Directory, Files, m

LEMMA CheckTaken ==
  ASSUME UploadOK, TakenInv, Check
  PROVE  TakenInv'
<1> DEFINE u == up.upload
           n == Len(u.entries)
           k == up.at - 1
<1>1. up.pc = "extract" /\ Started /\ Progress /\ up.result = "none"
  BY DEF Check, TakenInv
<1>2. PayloadOK(u) /\ UploadOf(u)
  BY <1>1 DEF Started, PayloadOK
<1>3. Len(up.entries) = n /\ n \in Nat
  BY <1>1, <1>2, UnpackedOf, EntriesOf DEF Started
<1>4. k = n
  <2>1. up.at \in 1..n + 1 /\ up.at > n
    BY <1>1, <1>3 DEF Progress, Check
  <2> HIDE DEF n
  <2> QED BY <1>3, <2>1
<1>5. /\ \A i \in 1..n : ~RefusedOf(u, i)
      /\ FilesOf(u, n, up.files) /\ Compatible(u, n)
      /\ up.files = [p \in DOMAIN up.files |-> up.files[p]]
      /\ SumFunctionOnSet(Bytes(u), KeptTo(u, n)) = up.written
      /\ up.found <=> \E i \in KeptTo(u, n) : Place(u, i) = <<Index>>
  BY <1>1, <1>4 DEF Progress
<1>6. KeptTo(u, n) = Kept(u)
  BY <1>2, BytesOf
<1>7. up.kind = "index" => \E i \in KeptTo(u, n) : Place(u, i) = <<Index>>
  <2>1. up.kind = "index" => u.kind = "index"
    BY <1>1 DEF Started
  <2> HIDE DEF u, n
  <2> QED BY <1>2, <1>6, <2>1, PageIsIndex
<1> DEFINE Good == /\ up.kind = "index" \/ up.found
                   /\ <<Index>> \in DOMAIN up.files \union up.dirs
<1>8. Good => Done
  <2> SUFFICES ASSUME Good PROVE Done
    OBVIOUS
  <2>1. \E i \in KeptTo(u, n) : Place(u, i) = <<Index>>
    BY <1>5, <1>7
  <2>2. SumFunctionOnSet(Bytes(u), KeptTo(u, n)) <= MaxBytes
    BY <1>1, <1>5 DEF UploadOK
  <2>3. n = Len(u.entries)
    OBVIOUS
  <2> HIDE DEF u, n
  <2>4. Acceptable(u)
    BY <1>2, <1>5, <2>1, <2>2, <2>3, AllIsAcceptable
  <2>5. up.files = Meaning(u)
    BY <1>2, <1>5, <2>3, AllIsMeaning
  <2> QED BY <2>4, <2>5 DEF Done, u
<1>9. ~Good => ~Acceptable(u)
  <2> SUFFICES ASSUME ~Good, Acceptable(u) PROVE FALSE
    OBVIOUS
  <2>1. \E i \in KeptTo(u, n) : Place(u, i) = <<Index>>
    BY <1>6 DEF Acceptable, Meaning
  <2>2. <<Index>> \in DOMAIN up.files
    BY <1>5, <2>1 DEF FilesOf
  <2> QED BY <1>5, <2>1, <2>2
<1>10. CASE Good
  <2>1. up' = [up EXCEPT !.pc = "swap"] /\ live' = live
    BY <1>10 DEF Check
  <2>2. Same /\ up'.pc = "swap" /\ up'.result = "none" /\ up'.files = up.files
    BY <1>1, <2>1 DEF Same, UploadOK, Fields
  <2>3. Started' /\ LiveOK' /\ CopyOK'
    BY <1>1, <2>2, SameStarted
  <2>4. Done'
    BY <1>8, <1>10, <2>2 DEF Done, Same
  <2> QED BY <2>2, <2>3, <2>4 DEF TakenInv
<1>11. CASE ~Good
  <2>1. End("refused")
    BY <1>11 DEF Check
  <2>2. Same /\ up'.pc = "cleanup" /\ up'.result = "refused"
    BY <2>1 DEF End, Same, UploadOK, Fields
  <2>3. Started' /\ LiveOK' /\ CopyOK'
    BY <1>1, <2>2, SameStarted
  <2>4. up'.upload = u
    BY <2>2 DEF Same
  <2> HIDE DEF Good
  <2> QED BY <1>9, <1>11, <2>2, <2>3, <2>4 DEF TakenInv
<1> QED BY <1>10, <1>11

(* The first error ends the extraction, and had a reason in the upload.    *)
LEMMA RejectTaken ==
  ASSUME UploadOK, TakenInv, Reject
  PROVE  TakenInv'
<1> DEFINE u == up.upload
           k == up.at - 1
<1>1. up.pc = "extract" /\ Started /\ Progress /\ up.at \in DOMAIN up.entries
  BY DEF Reject, Extracting, TakenInv
<1>2. Same /\ up'.pc = "cleanup" /\ up'.result = "refused"
  BY DEF Reject, End, Same, UploadOK, Fields
<1>3. UploadOf(u) /\ up.at \in DOMAIN u.entries
  BY <1>1, AtEntry
<1>4. /\ up.at \in 1..Len(u.entries) /\ Len(u.entries) \in Nat /\ k \in Nat
      /\ k + 1 = up.at
  <2>1. up.at \in 1..Len(u.entries) /\ Len(u.entries) \in Nat
    BY <1>3, EntriesOf
  <2> HIDE DEF u
  <2> QED BY <1>2, <2>1
<1>5. FilesOf(u, k, up.files) /\ DirsOf(u, k, up.dirs) /\ Compatible(u, k)
  BY <1>1 DEF Progress
<1>6. ~Acceptable(u)
  <2>1. CASE Refused
    <3>1. RefusedOf(u, up.at)
      BY <1>1, <2>1, AtEntry
    <3> HIDE DEF u
    <3> QED BY <1>3, <3>1, RefusalHasReason
  <2>2. CASE ~Refused /\ Entry.type = "dir"
    <3>1. up.at \in Dirs(u) /\ BlockedDir(Place(u, up.at), up.files)
      BY <1>1, <2>2, AtEntry DEF Reject
    <3>2. k + 1 \in Dirs(u) /\ BlockedDir(Place(u, k + 1), up.files)
      BY <1>4, <3>1
    <3> HIDE DEF u, k
    <3>3. Conflicting(u)
      BY <1>3, <1>4, <1>5, <3>2, DirFits
    <3> QED BY <1>3, <3>3, ConflictHasReason
  <2>3. CASE ~Refused /\ Entry.type # "dir"
    <3>1. up.at \in Kept(u) /\ BlockedFile(Place(u, up.at), up.files, up.dirs)
      BY <1>1, <2>3, AtEntry DEF Reject
    <3>2. k + 1 \in Kept(u) /\ BlockedFile(Place(u, k + 1), up.files, up.dirs)
      BY <1>4, <3>1
    <3> HIDE DEF u, k
    <3>3. Conflicting(u)
      BY <1>3, <1>4, <1>5, <3>2, FileFits
    <3> QED BY <1>3, <3>3, ConflictHasReason
  <2> QED BY <2>1, <2>2, <2>3
<1>7. Started' /\ LiveOK' /\ CopyOK'
  BY <1>1, <1>2, SameStarted
<1>8. up'.upload = u
  BY <1>2 DEF Same
<1> QED BY <1>2, <1>6, <1>7, <1>8 DEF TakenInv

(* The paths of a site, in the order of its archive: every one, once.      *)
LEMMA PathsOf ==
  ASSUME NEW f, IsFiniteSet(DOMAIN f)
  PROVE  LET paths == SetToSeq(DOMAIN f)
         IN  /\ paths \in Bijection(1..Cardinality(DOMAIN f), DOMAIN f)
             /\ Cardinality(DOMAIN f) \in Nat
<1> DEFINE S == DOMAIN f
           paths == SetToSeq(S)
<1>1. PICK n \in Nat : ExistsBijection(1..n, S)
  BY FS_NatBijection
<1>2. Cardinality(S) = n
  BY <1>1, FS_CountingElements
<1>3. PICK g \in [1..Cardinality(S) -> S] : IsInjective(g)
  BY <1>1, <1>2 DEF ExistsBijection, Bijection, Injection
<1>4. paths \in [1..Cardinality(S) -> S] /\ IsInjective(paths)
  BY <1>3 DEF SetToSeq
<1> HIDE DEF paths
<1>5. paths \in Injection(1..Cardinality(S), S)
  BY <1>4 DEF Injection
<1>6. paths \in Surjection(1..Cardinality(S), S)
  <2>1. IsFiniteSet(1..n) /\ Cardinality(1..n) = n
    BY FS_Interval
  <2>2. Cardinality(1..Cardinality(S)) = Cardinality(S)
    BY <1>2, <2>1
  <2> QED BY <1>5, <2>2, FS_Injection
<1> QED BY <1>2, <1>5, <1>6 DEF Bijection, paths

(* The archive of a site with an index is accepted, within the limits, and *)
(* means the site: with the index at the top, it is not unwrapped.         *)
LEMMA DownloadMeans ==
  ASSUME NEW f, Directory(f), NEW u, u = Download(f)
  PROVE  /\ PayloadOK(u)
         /\ <<Index>> \in DOMAIN f =>
              /\ Meaning(u) = f
              /\ ~Acceptable(u) => \/ Cardinality(DOMAIN f) > MaxEntries
                                   \/ Size(f) > MaxBytes
<1> DEFINE S == DOMAIN f
           n == Cardinality(S)
           paths == SetToSeq(S)
<1>1. paths \in Bijection(1..n, S) /\ n \in Nat
  BY PathsOf DEF Directory, Files
<1>2. /\ paths \in [1..n -> S] /\ \A p \in S : \E i \in 1..n : paths[i] = p
      /\ \A i, j \in 1..n : paths[i] = paths[j] => i = j
  BY <1>1 DEF Bijection, Injection, Surjection, IsInjective
<1>3. u = [kind |-> "zip",
           entries |-> [i \in DOMAIN paths |->
                          [name |-> paths[i], type |-> "file",
                           data |-> f[paths[i]]]]]
  BY DEF Download
<1> HIDE DEF paths, n
<1> DEFINE es == [i \in 1..n |-> [name |-> paths[i], type |-> "file",
                                   data |-> f[paths[i]]]]
<1>4. u.kind = "zip" /\ u.entries = es
  BY <1>2, <1>3
<1>5. /\ u.kind = "zip" /\ DOMAIN u.entries = 1..n
      /\ \A i \in 1..n : /\ u.entries[i].name = paths[i]
                          /\ u.entries[i].type = "file"
                          /\ u.entries[i].data = f[paths[i]]
  BY <1>4
<1>6. \A i \in 1..n : /\ paths[i] \in S /\ paths[i] \in Seq(Plain)
                      /\ paths[i] # << >> /\ f[paths[i]] \in Text
  BY <1>2 DEF Directory, Files
<1>7. \A i \in 1..n : paths[i] \in Seq(STRING)
  <2>1. Plain \subseteq STRING
    BY DEF Plain
  <2> QED BY <1>6, <2>1, SequencesOf
<1>8. UploadOf(u)
  <2>1. \A i \in 1..n : [name |-> paths[i], type |-> "file",
                          data |-> f[paths[i]]] \in ArchiveEntry
    BY <1>6, <1>7 DEF ArchiveEntry, Text
  <2>2. u.entries \in [1..n -> ArchiveEntry]
    BY <1>4, <2>1
  <2>3. u.entries \in Seq(ArchiveEntry)
    BY <1>1, <2>2
  <2> QED BY <1>5, <2>3 DEF UploadOf
<1>9. PayloadOK(u)
  BY <1>5, <1>8 DEF PayloadOK
<1> SUFFICES ASSUME <<Index>> \in S
             PROVE  /\ Meaning(u) = f
                    /\ ~Acceptable(u) => n > MaxEntries \/ Size(f) > MaxBytes
  BY <1>9 DEF n
<1>10. \A i \in 1..n : CleanRel(u.entries[i].name) = paths[i]
  BY <1>5, <1>6, PlainIsClean
<1>11. Named(u) = 1..n /\ Kept(u) = 1..n
  <2>1. Things(u) = 1..n
    BY <1>5 DEF Things
  <2>2. Named(u) = 1..n
    BY <1>6, <1>10, <2>1 DEF Named
  <2> QED BY <1>5, <2>2 DEF Kept
<1>12. PICK x \in 1..n : paths[x] = <<Index>>
  BY <1>2
<1>13. ~Unwrapped(u)
  <2>1. CleanRel(u.entries[x].name) = <<Index>>
    BY <1>10, <1>12
  <2>2. ~(Len(CleanRel(u.entries[x].name)) > 1)
    <3>1. Len(<<Index>>) = 1
      OBVIOUS
    <3>2. Len(CleanRel(u.entries[x].name)) = 1
      BY <2>1, <3>1, Zenon
    <3> QED BY <3>2
  <2> QED BY <1>11, <2>2 DEF Unwrapped
<1>14. \A i \in 1..n : Place(u, i) = paths[i]
  BY <1>10, <1>13 DEF Place
<1>15. DOMAIN Meaning(u) = S
  <2>1. DOMAIN Meaning(u) = {Place(u, i) : i \in Kept(u)}
    BY DEF Meaning
  <2>2. {Place(u, i) : i \in 1..n} = S
    <3>1. {Place(u, i) : i \in 1..n} = {paths[i] : i \in 1..n}
      BY <1>14
    <3>2. {paths[i] : i \in 1..n} = S
      <4>1. (\A i \in 1..n : paths[i] \in S) /\ \A p \in S : \E i \in 1..n : paths[i] = p
        BY <1>2
      <4> HIDE DEF S
      <4> QED BY <4>1
    <3> QED BY <3>1, <3>2
  <2> QED BY <1>11, <2>1, <2>2
<1>16. Meaning(u) = f
  <2>1. ASSUME NEW p \in S PROVE Meaning(u)[p] = f[p]
    <3>1. PICK i \in 1..n : paths[i] = p
      BY <1>2
    <3> DEFINE Latest(j) == /\ j \in Kept(u) /\ Place(u, j) = p
                            /\ \A k \in Kept(u) : Place(u, k) = p => k <= j
               l == CHOOSE j \in Kept(u) : /\ Place(u, j) = p
                      /\ \A k \in Kept(u) : Place(u, k) = p => k <= j
    <3>2. Latest(i)
      BY <1>2, <1>11, <1>14, <3>1
    <3>3. Latest(l)
      BY <3>2
    <3>4. Meaning(u)[p] = u.entries[l].data
      <4>1. p \in {Place(u, j) : j \in Kept(u)}
        BY <3>2
      <4> QED BY <4>1 DEF Meaning
    <3> HIDE DEF l
    <3>5. l \in 1..n /\ paths[l] = p
      BY <1>11, <1>14, <3>3
    <3> QED BY <1>5, <3>4, <3>5
  <2>2. Meaning(u) = [p \in DOMAIN Meaning(u) |-> Meaning(u)[p]]
    BY DEF Meaning
  <2>3. f = [p \in S |-> f[p]]
    BY DEF Directory
  <2> HIDE DEF Meaning
  <2> QED BY <1>15, <2>1, <2>2, <2>3
<1>17. ASSUME n <= MaxEntries, Size(f) <= MaxBytes PROVE Acceptable(u)
  <2>1. Len(u.entries) = n
    <3>1. u.entries \in Seq(ArchiveEntry)
      BY <1>8 DEF UploadOf
    <3>2. Len(u.entries) \in Nat /\ 1..Len(u.entries) = 1..n
      BY <1>5, <3>1, LenProperties
    <3>3. \A a, b \in Nat : 1..a = 1..b => a = b
      <4> SUFFICES ASSUME NEW a \in Nat, NEW b \in Nat, 1..a = 1..b PROVE a = b
        OBVIOUS
      <4>1. (a >= 1 => a \in 1..b) /\ (b >= 1 => b \in 1..a)
        OBVIOUS
      <4> QED BY <4>1
    <3> QED BY <1>1, <3>2, <3>3
  <2>2. ~Conflicting(u)
    <3>1. Dirs(u) = {}
      BY <1>5 DEF Dirs
    <3>2. \A i, j \in 1..n : paths[i] \notin Above(paths[j])
      BY <1>6 DEF Directory
    <3> QED BY <1>6, <1>11, <1>14, <3>1, <3>2 DEF Conflicting
  <2>3. \A i \in Kept(u) :
          /\ \A j \in Kept(u) : ~IsStrictPrefix(Place(u, i), Place(u, j))
          /\ \A d \in Folders(u) : ~IsPrefix(Place(u, i), d)
    BY <1>8, <2>2, Conflicts
  <2>4. \A i \in 1..n : ~Escapes(paths[i])
    <3> SUFFICES ASSUME NEW i \in 1..n PROVE ~Escapes(paths[i])
      OBVIOUS
    <3> DEFINE r == paths[i]
    <3>1. r \in Seq(Plain)
      BY <1>6
    <3> HIDE DEF r
    <3>2. DOMAIN r = 1..Len(r) /\ Len(r) \in Nat
      BY <3>1, LenProperties
    <3>3. \A j \in DOMAIN r : r[j] \in Plain
      BY <3>1, <3>2, ElementOfSeq
    <3>4. Len(r) > 1 => 1 \in DOMAIN r
      BY <3>2
    <3>5. ~Escapes(r)
      BY <3>3, <3>4 DEF Escapes, Absolute, Plain
    <3> QED BY <3>5 DEF r
  <2>5. \A i \in DOMAIN u.entries :
          u.entries[i].type # "link" /\ ~Escapes(u.entries[i].name)
    BY <1>5, <2>4
  <2>6. SumFunction([i \in Kept(u) |-> Len(u.entries[i].data)]) = Size(f)
    <3> DEFINE h == [i \in 1..n |-> Len(u.entries[i].data)]
               g == [p \in S |-> Len(f[p])]
    <3>1. \A p \in S : g[p] \in Nat
      BY LenProperties DEF Directory, Files, Text
    <3>2. \A i \in 1..n : h[i] = g[paths[i]]
      BY <1>5, <1>6
    <3>3. IsFiniteSet(1..n)
      BY <1>1, FS_Interval
    <3>4. /\ SumFunction([i \in Kept(u) |-> Len(u.entries[i].data)])
               = SumFunctionOnSet(h, 1..n)
          /\ Size(f) = SumFunctionOnSet(g, S)
      BY <1>11 DEF SumFunction, Size
    <3> HIDE DEF h, g, S
    <3> QED BY <1>1, <3>1, <3>2, <3>3, <3>4, SumRenamed
  <2>7. <<Index>> \in DOMAIN Meaning(u)
    BY <1>15
  <2> QED BY <1>17, <2>1, <2>3, <2>5, <2>6, <2>7 DEF Acceptable
<1>18. Size(f) \in Nat
  BY SizeIsNumber DEF Directory
<1>19. ~Acceptable(u) => n > MaxEntries \/ Size(f) > MaxBytes
  BY <1>1, <1>17, <1>18, UploadAssumption
<1> QED BY <1>16, <1>19

(* Every step.                                                             *)
LEMMA StepTaken ==
  ASSUME UploadOK, TakenInv, UploadStep
  PROVE  TakenInv'
<1>1. CASE \E u \in Uploads : Begin(u, NoFiles)
  <2>1. PICK u \in Uploads : Begin(u, NoFiles)
    BY <1>1
  <2>2. PayloadOK(u)
    BY <2>1, UploadAssumption DEF PayloadOK, Begin
  <2> QED BY <2>1, <2>2, BeginTaken
<1>2. CASE Republish
  <2>1. Directory(live) /\ Begin(Download(live), live)
    BY <1>2 DEF Republish, TakenInv, LiveOK
  <2>2. PayloadOK(Download(live))
    BY <2>1, DownloadMeans
  <2> QED BY <2>1, <2>2, BeginTaken
<1>3. CASE Unpack
  BY <1>3, RejectTaken, SkipTaken, MakeDirTaken, WriteFileTaken, CheckTaken
  DEF Unpack
<1>4. CASE Swap
  <2>1. Done /\ Started /\ up.pc = "swap"
    BY <1>4 DEF Swap, TakenInv
  <2>2. /\ up'.pc = "cleanup" /\ up'.result = "swapped" /\ live' = up.files
        /\ up'.copy = up.copy /\ up'.upload = up.upload /\ up'.files = up.files
        /\ up'.entries = up.entries /\ up'.kind = up.kind /\ up'.prefix = up.prefix
    BY <1>4 DEF Swap, UploadOK, Fields
  <2>3. Done' /\ Started'
    BY <2>1, <2>2 DEF Done, Started
  <2>4. Directory(live')
    <3>1. UploadOf(up.upload)
      BY <2>1 DEF Started, PayloadOK
    <3>2. Directory(Meaning(up.upload))
      BY <2>1, <3>1, MeaningIsDirectory DEF Done
    <3>3. live' = Meaning(up.upload)
      BY <2>1, <2>2 DEF Done
    <3> QED BY <3>2, <3>3
  <2> QED BY <2>2, <2>3, <2>4 DEF TakenInv, LiveOK, CopyOK
<1>5. CASE Abort
  <2>1. Same /\ up'.pc = "cleanup" /\ up'.result = "failed" /\ up.pc # "idle"
    BY <1>5 DEF Abort, End, Same, UploadOK, Fields
  <2>2. Started' /\ LiveOK' /\ CopyOK'
    BY <2>1, SameStarted
  <2> QED BY <2>1, <2>2 DEF TakenInv
<1>6. ASSUME up' = Idle, live' = live \/ live' = NoFiles PROVE TakenInv'
  BY <1>6, NothingIsDirectory DEF TakenInv, LiveOK, CopyOK, Idle
<1>7. CASE Cleanup \/ Die
  BY <1>6, <1>7 DEF Cleanup, Die
<1>8. CASE TakeOffline
  BY <1>8, NothingIsDirectory DEF TakeOffline, TakenInv, LiveOK, CopyOK, Started, Progress, Done
<1> QED BY <1>1, <1>2, <1>3, <1>4, <1>5, <1>7, <1>8 DEF UploadStep

UploadInv == UploadOK /\ CapInv /\ TakenInv

LEMMA UploadInvBegins == UploadInit => UploadInv
<1> SUFFICES ASSUME UploadInit PROVE UploadInv
  OBVIOUS
<1>1. UploadOK
  BY NoFilesOK, IdleOK, UploadAssumption DEF UploadInit, UploadOK
<1>2. CapInv
  BY IdleWithinCap DEF UploadInit
<1>3. TakenInv
  BY NothingIsDirectory DEF UploadInit, TakenInv, LiveOK, CopyOK, Idle
<1> QED BY <1>1, <1>2, <1>3 DEF UploadInv

LEMMA UploadInvKept == UploadInv /\ [UploadStep]_<<live, up>> => UploadInv'
<1> SUFFICES ASSUME UploadInv, [UploadStep]_<<live, up>> PROVE UploadInv'
  OBVIOUS
<1>1. CASE UploadStep
  BY <1>1, UploadStepOK, StepWithinCap, StepTaken DEF UploadInv
<1>2. CASE UNCHANGED <<live, up>>
  BY <1>2 DEF UploadInv, UploadOK, Files, Readable, CapInv, Size, TakenInv,
              Directory, LiveOK, CopyOK, Started, Progress, Done
<1> QED BY <1>1, <1>2

LEMMA UploadInvHolds == UploadSpec => []UploadInv
BY UploadInvBegins, UploadInvKept, PTL DEF UploadSpec

(* What the invariant promises.                                            *)
LEMMA UploadInvPromises ==
  UploadInv => StagedWithinCap /\ UploadTakenAsAWhole /\ DownloadRepublishes
<1> SUFFICES ASSUME UploadOK, CapInv, TakenInv
             PROVE  StagedWithinCap /\ UploadTakenAsAWhole /\ DownloadRepublishes
  BY DEF UploadInv
<1>1. StagedWithinCap
  <2>1. up.written \in Nat /\ Size(up.files) \in Nat
    BY SizeIsNumber DEF UploadOK
  <2> QED BY <2>1, UploadAssumption DEF CapInv, StagedWithinCap
<1>2. UploadTakenAsAWhole
  BY DEF TakenInv, Done, UploadTakenAsAWhole
<1>3. DownloadRepublishes
  <2> SUFFICES ASSUME <<Index>> \in DOMAIN up.copy
               PROVE  /\ up.result = "swapped" => up.files = up.copy
                      /\ up.result = "refused" =>
                           \/ Cardinality(DOMAIN up.copy) > MaxEntries
                           \/ Size(up.copy) > MaxBytes
    BY DEF DownloadRepublishes
  <2>1. up.copy # NoFiles
    BY DEF NoFiles
  <2>2. up.upload = Download(up.copy) /\ Directory(up.copy)
    BY <2>1 DEF TakenInv, CopyOK
  <2>3. /\ Meaning(up.upload) = up.copy
        /\ ~Acceptable(up.upload) => \/ Cardinality(DOMAIN up.copy) > MaxEntries
                                     \/ Size(up.copy) > MaxBytes
    BY <2>2, DownloadMeans
  <2> QED BY <2>3 DEF TakenInv, Done
<1> QED BY <1>1, <1>2, <1>3

(* However many entries an archive has, and whatever they unpack to, the   *)
(* private directory exceeds the limit by one byte at most, and what goes  *)
(* online does not exceed it (extractor.writeFile): writing a file adds no *)
(* more than the bytes it counts, and a file that makes them too many is   *)
(* the last.                                                               *)
THEOREM UploadsStayWithinCap == UploadSpec => []StagedWithinCap
BY UploadInvPromises, UploadInvHolds, PTL

(* What goes online is what the upload means, every file of it and nothing *)
(* else, wherever in it the entries are; what is refused had a reason in   *)
(* the upload (Publish, extractTar, extractZip, buildBundle).              *)
THEOREM UploadsTakenAsAWhole == UploadSpec => []UploadTakenAsAWhole
BY UploadInvPromises, UploadInvHolds, PTL

(* A site that is downloaded and published again is the same, unless the   *)
(* limits forbid it: its archive is never unwrapped, for the index is at   *)
(* the top of it (revisionArchive, singleRootPrefix).                      *)
THEOREM DownloadsRepublish == UploadSpec => []DownloadRepublishes
BY UploadInvPromises, UploadInvHolds, PTL
=============================================================================
