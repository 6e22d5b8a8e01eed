---------------------------- MODULE ReadFileProofs ----------------------------
(***************************************************************************)
(* Proved of ReadFile, for any uploads, files, offsets and limits: pages   *)
(* move on, and those of a text file that stays the same are the file.     *)
(* And that uploads, while they are read, do what they do by themselves.   *)
(***************************************************************************)
EXTENDS ReadFile, UploadProofs

(* A rune begins after the first k bytes, or the file ends there.          *)
Boundary(d, k) == k = Len(d) \/ RuneStart(d[k + 1])

-----------------------------------------------------------------------------
(* Slices.                                                                 *)

LEMMA WidthBound == \A b \in Nat : Width(b) \in 1..UTFMax
BY DEF Width, UTFMax

LEMMA SmallerBound ==
  \A m, n \in Nat : /\ Smaller(m, n) \in Nat
                    /\ Smaller(m, n) <= m /\ Smaller(m, n) <= n
                    /\ Smaller(m, n) = m \/ Smaller(m, n) = n
BY DEF Smaller

(* A slice from the start of a slice is a slice.                           *)
LEMMA SliceOfSlice ==
  ASSUME NEW d \in Text, NEW a \in Nat, NEW b \in Nat, NEW c \in Nat,
         a <= c, c <= b, b <= Len(d)
  PROVE  SubSeq(SubSeq(d, a + 1, b), 1, c - a) = SubSeq(d, a + 1, c)
<1> DEFINE s == SubSeq(d, a + 1, b)
<1>1. /\ s \in Text /\ Len(s) = b - a
      /\ \A i \in 1..b - a : s[i] = d[a + i]
  BY Slice
<1>2. c <= Len(d)
  BY LenProperties DEF Text
<1>3. /\ SubSeq(d, a + 1, c) \in Text /\ Len(SubSeq(d, a + 1, c)) = c - a
      /\ \A i \in 1..c - a : SubSeq(d, a + 1, c)[i] = d[a + i]
  BY <1>2, Slice
<1> HIDE DEF s
<1>4. c - a \in Nat /\ c - a <= Len(s)
  BY <1>1
<1>5. /\ SubSeq(s, 1, c - a) \in Text /\ Len(SubSeq(s, 1, c - a)) = c - a
      /\ \A i \in 1..c - a : SubSeq(s, 1, c - a)[i] = s[i]
  <2>1. 0 \in Nat /\ 0 <= c - a /\ 0 + 1 = 1 /\ (c - a) - 0 = c - a
    OBVIOUS
  <2>2. /\ SubSeq(s, 0 + 1, c - a) \in Text
        /\ Len(SubSeq(s, 0 + 1, c - a)) = (c - a) - 0
        /\ \A i \in 1..(c - a) - 0 : SubSeq(s, 0 + 1, c - a)[i] = s[0 + i]
    BY <1>1, <1>4, <2>1, Slice
  <2> QED BY <2>1, <2>2
<1>6. \A i \in 1..c - a : SubSeq(s, 1, c - a)[i] = SubSeq(d, a + 1, c)[i]
  BY <1>1, <1>3, <1>5
<1>7. SubSeq(s, 1, c - a) = SubSeq(d, a + 1, c)
  BY <1>3, <1>5, <1>6, SeqEqual DEF Text
<1> QED BY <1>7 DEF s

(* And so is one to its end.                                               *)
LEMMA TailOfSlice ==
  ASSUME NEW d \in Text, NEW a \in Nat, NEW b \in Nat, NEW k \in Nat,
         a + k <= b, b <= Len(d)
  PROVE  SubSeq(SubSeq(d, a + 1, b), k + 1, Len(SubSeq(d, a + 1, b))) =
         SubSeq(d, a + k + 1, b)
<1> DEFINE s == SubSeq(d, a + 1, b)
           t == SubSeq(s, k + 1, Len(s))
           u == SubSeq(d, a + k + 1, b)
<1>1. /\ s \in Text /\ Len(s) = b - a
      /\ \A i \in 1..b - a : s[i] = d[a + i]
  BY Slice
<1>2. /\ u \in Text /\ Len(u) = b - (a + k)
      /\ \A i \in 1..b - (a + k) : u[i] = d[a + k + i]
  <2>1. a + k \in Nat
    OBVIOUS
  <2> QED BY <2>1, Slice
<1> HIDE DEF s, u
<1>3. Len(s) \in Nat /\ k <= Len(s)
  BY <1>1
<1>4. /\ t \in Text /\ Len(t) = Len(s) - k
      /\ \A i \in 1..Len(s) - k : t[i] = s[k + i]
  BY <1>1, <1>3, Slice
<1> HIDE DEF t
<1>5. Len(t) = Len(u)
  BY <1>1, <1>2, <1>4
<1>6. \A i \in 1..Len(t) : t[i] = u[i]
  <2> TAKE i \in 1..Len(t)
  <2>1. i \in 1..Len(s) - k /\ i \in 1..b - (a + k) /\ k + i \in 1..b - a
    BY <1>1, <1>4
  <2>2. a + (k + i) = a + k + i
    OBVIOUS
  <2> QED BY <1>1, <1>2, <1>4, <2>1, <2>2
<1>7. t = u
  BY <1>2, <1>4, <1>5, <1>6, SeqEqual DEF Text
<1> QED BY <1>7 DEF s, t, u

-----------------------------------------------------------------------------
(* What boundaries do to UTF-8.                                            *)

(* A continuation byte has its lead among the three bytes before it, and   *)
(* only continuation bytes in between.                                     *)
LEMMA LeadOf ==
  ASSUME NEW d \in Text, Valid(d), NEW i \in 1..Len(d), ~RuneStart(d[i])
  PROVE  \E j \in 1..i - 1 :
           /\ RuneStart(d[j]) /\ i < j + Width(d[j]) /\ i - 3 <= j
           /\ j + Width(d[j]) - 1 <= Len(d)
           /\ \A k \in j + 1..i : ~RuneStart(d[k])
<1>1. PICK j \in 1..i - 1 : RuneStart(d[j]) /\ i < j + Width(d[j])
  BY DEF Valid
<1>2. j \in 1..Len(d) /\ Len(d) \in Nat
  BY LenProperties DEF Text
<1>3. d[j] \in Nat
  BY <1>2, ElementOfSeq DEF Text
<1>4. Width(d[j]) \in 1..4
  BY <1>3, WidthBound DEF UTFMax
<1>5. /\ j + Width(d[j]) - 1 <= Len(d)
      /\ \A k \in j + 1..j + Width(d[j]) - 1 : d[k] = Cont
  BY <1>1, <1>2 DEF Valid
<1>6. \A k \in j + 1..i : ~RuneStart(d[k])
  BY <1>1, <1>2, <1>4, <1>5 DEF RuneStart
<1>7. i - 3 <= j
  BY <1>1, <1>2, <1>4
<1> QED BY <1>1, <1>5, <1>6, <1>7

(* The start of a text is a boundary.                                      *)
LEMMA StartIsBoundary ==
  ASSUME NEW d \in Text, Valid(d)
  PROVE  Boundary(d, 0)
<1>1. Len(d) \in Nat
  BY LenProperties DEF Text
<1>2. ASSUME Len(d) # 0, ~RuneStart(d[1]) PROVE FALSE
  BY <1>1, <1>2, LeadOf
<1> QED BY <1>1, <1>2 DEF Boundary

(* Between two boundaries, a text is a text.                               *)
LEMMA ValidBetween ==
  ASSUME NEW d \in Text, Valid(d), NEW a \in Nat, NEW c \in Nat,
         a <= c, c <= Len(d), Boundary(d, a), Boundary(d, c)
  PROVE  Valid(SubSeq(d, a + 1, c))
<1> DEFINE s == SubSeq(d, a + 1, c)
<1>1. /\ s \in Text /\ Len(s) = c - a
      /\ \A i \in 1..c - a : s[i] = d[a + i]
  BY Slice
<1>2. Len(d) \in Nat
  BY LenProperties DEF Text
<1> HIDE DEF s
<1>3. ASSUME NEW i \in 1..Len(s)
      PROVE  /\ s[i] # Never
             /\ RuneStart(s[i]) =>
                  /\ i + Width(s[i]) - 1 <= Len(s)
                  /\ \A k \in i + 1..i + Width(s[i]) - 1 : s[k] = Cont
             /\ ~RuneStart(s[i]) =>
                  \E j \in 1..i - 1 : RuneStart(s[j]) /\ i < j + Width(s[j])
  <2>1. a + i \in 1..Len(d) /\ s[i] = d[a + i] /\ a < Len(d)
    BY <1>1, <1>2
  <2>2. s[i] # Never
    BY <2>1 DEF Valid
  <2>3. d[a + i] \in Nat
    BY <2>1, ElementOfSeq DEF Text
  <2>4. Width(d[a + i]) \in 1..4
    BY <2>3, WidthBound DEF UTFMax
  <2>5. ASSUME RuneStart(s[i])
        PROVE  /\ i + Width(s[i]) - 1 <= Len(s)
               /\ \A k \in i + 1..i + Width(s[i]) - 1 : s[k] = Cont
    <3>1. /\ a + i + Width(d[a + i]) - 1 <= Len(d)
          /\ \A k \in a + i + 1..a + i + Width(d[a + i]) - 1 : d[k] = Cont
      BY <2>1, <2>5 DEF Valid
    <3>2. a + i + Width(d[a + i]) - 1 <= c
      <4>1. SUFFICES ASSUME c + 1 <= a + i + Width(d[a + i]) - 1 PROVE FALSE
        BY <1>2, <2>1, <2>4
      <4>2. c + 1 \in a + i + 1..a + i + Width(d[a + i]) - 1
        BY <1>1, <1>2, <2>1, <2>4, <4>1
      <4>3. d[c + 1] = Cont /\ c # Len(d)
        BY <1>2, <2>4, <3>1, <4>1, <4>2
      <4> QED BY <4>3 DEF Boundary, RuneStart
    <3>3. i + Width(s[i]) - 1 <= Len(s)
      <4> DEFINE W == Width(d[a + i])
      <4>1. /\ Width(s[i]) = W /\ W \in 1..4 /\ a + i + W - 1 <= c
            /\ Len(s) = c - a /\ i \in Nat
        BY <1>1, <2>1, <2>4, <3>2
      <4> HIDE DEF W
      <4> QED BY ONLY <4>1, a \in Nat, c \in Nat
    <3>4. ASSUME NEW k \in i + 1..i + Width(s[i]) - 1 PROVE s[k] = Cont
      <4> DEFINE W == Width(d[a + i])
      <4>0. W \in 1..4 /\ k \in i + 1..i + W - 1 /\ i + W - 1 <= c - a
        BY <1>1, <1>2, <2>1, <2>4, <3>3
      <4> HIDE DEF W
      <4>1. k \in 1..c - a /\ a + k \in a + i + 1..a + i + W - 1
        BY <1>1, <4>0
      <4> QED BY <1>1, <3>1, <4>1 DEF W
    <3> QED BY <3>3, <3>4
  <2>6. ASSUME ~RuneStart(s[i])
        PROVE  \E j \in 1..i - 1 : RuneStart(s[j]) /\ i < j + Width(s[j])
    <3>1. PICK j \in 1..(a + i) - 1 :
            /\ RuneStart(d[j]) /\ a + i < j + Width(d[j])
            /\ \A k \in j + 1..a + i : ~RuneStart(d[k])
      BY <2>1, <2>6, LeadOf
    <3>2. a < j
      <4>1. SUFFICES ASSUME j <= a PROVE FALSE
        BY <1>2
      <4>2. a + 1 \in j + 1..a + i
        BY <1>1, <1>2, <4>1
      <4> QED BY <1>2, <2>1, <3>1, <4>2 DEF Boundary
    <3>3. j - a \in 1..i - 1 /\ j - a \in 1..c - a /\ a + (j - a) = j
      BY <1>1, <1>2, <3>2
    <3>4. s[j - a] = d[j]
      BY <1>1, <3>3
    <3>5. j \in 1..Len(d)
      BY <1>1, <1>2, <2>1
    <3>6. d[j] \in Nat
      BY <3>5, ElementOfSeq DEF Text
    <3>7. Width(d[j]) \in 1..4
      BY <3>6, WidthBound DEF UTFMax
    <3>8. RuneStart(s[j - a]) /\ i < (j - a) + Width(s[j - a])
      BY <3>1, <3>4, <3>5, <3>7
    <3> QED BY <3>3, <3>8
  <2> QED BY <2>2, <2>5, <2>6
<1>4. Valid(s)
  BY <1>3 DEF Valid
<1> QED BY <1>4 DEF s

-----------------------------------------------------------------------------
(* The ends of a page.                                                     *)

(* What Trim leaves of a slice ends at a boundary, and is a text.          *)
LEMMA TrimmedSlice ==
  ASSUME NEW d \in Text, Valid(d), NEW a \in Nat, NEW b \in Nat,
         a <= b, b <= Len(d), Boundary(d, a)
  PROVE  \E c \in a..b : /\ Trim(SubSeq(d, a + 1, b)) = SubSeq(d, a + 1, c)
                         /\ Boundary(d, c)
<1> DEFINE s   == SubSeq(d, a + 1, b)
           cut == {i \in 1..Len(s) :
                     /\ i > Len(s) - UTFMax /\ RuneStart(s[i])
                     /\ \A k \in i + 1..Len(s) : ~RuneStart(s[k])
                     /\ ~FullRune(s, i)}
<1>1. /\ s \in Text /\ Len(s) = b - a
      /\ \A i \in 1..b - a : s[i] = d[a + i]
  BY Slice
<1>2. Len(d) \in Nat
  BY LenProperties DEF Text
<1>3. Trim(s) = IF cut = {} THEN s ELSE SubSeq(s, 1, (CHOOSE i \in cut : TRUE) - 1)
  BY DEF Trim
<1>4. CASE cut = {}
  <2>1. ASSUME ~Boundary(d, b) PROVE FALSE
    <3>1. b + 1 \in 1..Len(d) /\ ~RuneStart(d[b + 1])
      BY <1>2, <2>1 DEF Boundary
    <3>2. PICK j \in 1..(b + 1) - 1 :
            /\ RuneStart(d[j]) /\ b + 1 < j + Width(d[j]) /\ (b + 1) - 3 <= j
            /\ \A k \in j + 1..b + 1 : ~RuneStart(d[k])
      BY <3>1, LeadOf
    <3>3. a < j
      <4>1. SUFFICES ASSUME j <= a PROVE FALSE
        OBVIOUS
      <4>2. a + 1 \in j + 1..b + 1 /\ a < Len(d)
        BY <1>2, <3>1, <4>1
      <4> QED BY <1>2, <3>2, <4>2 DEF Boundary
    <3> DEFINE i == j - a
    <3>4. i \in 1..b - a /\ a + i = j
      BY <3>3
    <3>5. s[i] = d[j]
      BY <1>1, <3>4
    <3> HIDE DEF i, s
    <3>6. j \in 1..Len(d)
      BY <1>2
    <3>7. d[j] \in Nat
      BY <3>6, ElementOfSeq DEF Text
    <3>8. Width(d[j]) \in 1..4
      BY <3>7, WidthBound DEF UTFMax
    <3>9. \A k \in i + 1..Len(s) : ~RuneStart(s[k])
      <4> TAKE k \in i + 1..Len(s)
      <4>1. k \in 1..b - a /\ a + k \in j + 1..b + 1
        BY <1>1, <3>4
      <4> QED BY <1>1, <3>2, <4>1
    <3>10. ~FullRune(s, i)
      <4>1. i + Width(s[i]) - 1 > Len(s)
        BY <1>1, <3>2, <3>4, <3>5, <3>8
      <4> QED BY <1>1, <3>4, <3>5, <3>8, <3>9, <4>1 DEF FullRune
    <3>11. i > Len(s) - UTFMax /\ RuneStart(s[i]) /\ i \in 1..Len(s)
      BY <1>1, <3>2, <3>4, <3>5 DEF UTFMax
    <3>12. i \in cut
      BY <3>9, <3>10, <3>11
    <3> QED BY <1>4, <3>12
  <2>2. b \in a..b
    OBVIOUS
  <2>3. Trim(s) = s
    BY <1>3, <1>4
  <2> QED BY <2>1, <2>2, <2>3
<1>5. CASE cut # {}
  <2> DEFINE i == CHOOSE i \in cut : TRUE
  <2>1. i \in cut
    BY <1>5
  <2>2. i \in 1..b - a /\ RuneStart(s[i])
    BY <1>1, <2>1
  <2> DEFINE c == a + i - 1
  <2>3. Trim(s) = SubSeq(s, 1, i - 1)
    BY <1>3, <1>5
  <2> HIDE DEF i
  <2>4. c \in a..b /\ c \in Nat /\ a <= c /\ c <= b /\ c - a = i - 1
    BY <2>2
  <2>5. SubSeq(s, 1, i - 1) = SubSeq(d, a + 1, c)
    BY <2>4, SliceOfSlice
  <2>6. RuneStart(d[c + 1])
    <3>1. c + 1 = a + i
      BY <2>2
    <3> QED BY <1>1, <2>2, <3>1
  <2> QED BY <2>3, <2>4, <2>5, <2>6 DEF Boundary
<1> QED BY <1>4, <1>5

(* Skips counts the continuation bytes, up to three.                       *)
LEMMA SkipsCount ==
  ASSUME NEW s \in Text
  PROVE  /\ Skips(s) \in 0..Smaller(3, Len(s))
         /\ \A i \in 1..Skips(s) : ~RuneStart(s[i])
         /\ Skips(s) < Smaller(3, Len(s)) => RuneStart(s[Skips(s) + 1])
<1> DEFINE m    == Smaller(3, Len(s))
           P(k) == /\ \A i \in 1..k : ~RuneStart(s[i])
                   /\ k < m => RuneStart(s[k + 1])
<1>1. m \in 0..3
  <2>1. Len(s) \in Nat
    BY LenProperties DEF Text
  <2>2. \A n \in Nat : Smaller(3, n) \in 0..3
    BY DEF Smaller
  <2> QED BY <2>1, <2>2
<1>2. UTFMax - 1 = 3
  BY DEF UTFMax
<1>3. Skips(s) = CHOOSE k \in 0..m : P(k)
  BY <1>2 DEF Skips
<1> HIDE DEF m
<1>4. \E k \in 0..m : P(k)
  <2>1. CASE m = 0 \/ RuneStart(s[1])
    <3>1. P(0) /\ 0 \in 0..m
      BY <1>1, <2>1
    <3> QED BY <3>1
  <2>2. CASE m > 0 /\ ~RuneStart(s[1]) /\ (m = 1 \/ RuneStart(s[2]))
    <3>1. P(1) /\ 1 \in 0..m
      BY <1>1, <2>2
    <3> QED BY <3>1
  <2>3. CASE /\ m > 1 /\ ~RuneStart(s[1]) /\ ~RuneStart(s[2])
             /\ m = 2 \/ RuneStart(s[3])
    <3>1. \A i \in 1..2 : i = 1 \/ i = 2
      OBVIOUS
    <3>2. P(2) /\ 2 \in 0..m
      BY <1>1, <2>3, <3>1
    <3> QED BY <3>2
  <2>4. CASE m > 2 /\ ~RuneStart(s[1]) /\ ~RuneStart(s[2]) /\ ~RuneStart(s[3])
    <3>1. m = 3 /\ \A i \in 1..3 : i = 1 \/ i = 2 \/ i = 3
      BY <1>1, <2>4
    <3>2. P(3) /\ 3 \in 0..m
      BY <1>1, <2>4, <3>1
    <3> QED BY <3>2
  <2> QED BY <1>1, <2>1, <2>2, <2>3, <2>4
<1>5. Skips(s) \in 0..m /\ P(Skips(s))
  BY <1>3, <1>4
<1> QED BY <1>5 DEF m

(* Skipped bytes lead to a boundary, if a rune is within reach.            *)
LEMMA SkipToBoundary ==
  ASSUME NEW d \in Text, Valid(d), NEW a \in Nat, NEW b \in Nat,
         a <= b, b <= Len(d), b = Len(d) \/ a + 4 <= b
  PROVE  LET k == Skips(SubSeq(d, a + 1, b))
         IN  /\ k \in 0..b - a /\ Boundary(d, a + k)
             /\ \A i \in a + 1..a + k : ~RuneStart(d[i])
<1> DEFINE s == SubSeq(d, a + 1, b)
           k == Skips(s)
<1>1. /\ s \in Text /\ Len(s) = b - a
      /\ \A i \in 1..b - a : s[i] = d[a + i]
  BY Slice
<1>2. Len(d) \in Nat
  BY LenProperties DEF Text
<1> HIDE DEF s
<1>3. /\ k \in 0..Smaller(3, b - a)
      /\ \A i \in 1..k : ~RuneStart(s[i])
      /\ k < Smaller(3, b - a) => RuneStart(s[k + 1])
  BY <1>1, SkipsCount
<1> HIDE DEF k
<1>4. k \in 0..b - a /\ k <= 3 /\ k \in Nat
  BY <1>3 DEF Smaller
<1>5. \A i \in a + 1..a + k : ~RuneStart(d[i])
  <2> TAKE i \in a + 1..a + k
  <2>1. i - a \in 1..k /\ i - a \in 1..b - a /\ a + (i - a) = i
    BY <1>4
  <2> QED BY <1>1, <1>3, <2>1
<1>6. CASE k < Smaller(3, b - a)
  <2>1. k + 1 \in 1..b - a /\ a + (k + 1) = (a + k) + 1
    BY <1>4, <1>6 DEF Smaller
  <2> QED BY <1>1, <1>3, <1>4, <1>5, <1>6, <2>1 DEF Boundary, k, s
<1>7. CASE k = b - a /\ b = Len(d)
  BY <1>4, <1>5, <1>7 DEF Boundary, k, s
<1>8. CASE k = 3 /\ k < Len(d) - a
  <2>1. ASSUME ~RuneStart(d[a + 4]) PROVE FALSE
    <3>1. a + 4 \in 1..Len(d)
      BY <1>2, <1>8
    <3>2. PICK j \in 1..(a + 4) - 1 : RuneStart(d[j]) /\ (a + 4) - 3 <= j
      BY <2>1, <3>1, LeadOf
    <3>3. j \in a + 1..a + k
      BY <1>8, <3>2
    <3> QED BY <1>5, <3>2, <3>3
  <2>2. (a + k) + 1 = a + 4
    BY <1>8
  <2> QED BY <1>4, <1>5, <2>1, <2>2 DEF Boundary, k, s
<1>9. k < Smaller(3, b - a) \/ (k = b - a /\ b = Len(d)) \/ (k = 3 /\ k < Len(d) - a)
  BY <1>2, <1>3, <1>4 DEF Smaller
<1> QED BY <1>6, <1>7, <1>8, <1>9

-----------------------------------------------------------------------------
(* A page.                                                                 *)

(* Trim shortens by less than UTFMax.                                      *)
LEMMA TrimKeeps ==
  ASSUME NEW s \in Text
  PROVE  /\ Trim(s) \in Text /\ Len(Trim(s)) <= Len(s)
         /\ Len(s) >= UTFMax => Len(Trim(s)) >= 1
<1> DEFINE cut == {i \in 1..Len(s) :
                     /\ i > Len(s) - UTFMax /\ RuneStart(s[i])
                     /\ \A k \in i + 1..Len(s) : ~RuneStart(s[k])
                     /\ ~FullRune(s, i)}
<1>1. Len(s) \in Nat
  BY LenProperties DEF Text
<1>2. Trim(s) = IF cut = {} THEN s ELSE SubSeq(s, 1, (CHOOSE i \in cut : TRUE) - 1)
  BY DEF Trim
<1>3. CASE cut = {}
  <2>1. Trim(s) = s
    BY <1>2, <1>3
  <2> QED BY <1>1, <2>1 DEF UTFMax
<1>4. CASE cut # {}
  <2> DEFINE i == CHOOSE i \in cut : TRUE
  <2>1. i \in cut
    BY <1>4
  <2>2. Trim(s) = SubSeq(s, 1, i - 1)
    BY <1>2, <1>4
  <2> HIDE DEF i
  <2>3. i \in 1..Len(s) /\ i > Len(s) - 4 /\ ~FullRune(s, i)
    BY <2>1 DEF UTFMax
  <2>4. s[i] \in Nat
    BY <2>3, ElementOfSeq DEF Text
  <2>5. Width(s[i]) \in 1..4
    BY <2>4, WidthBound DEF UTFMax
  <2>10. ~(i + Width(s[i]) - 1 <= Len(s))
    BY <2>3 DEF FullRune
  <2>6. 0 \in Nat /\ i - 1 \in Nat /\ 0 <= i - 1 /\ i - 1 <= Len(s) /\ 0 + 1 = 1
    BY <1>1, <2>3
  <2>7. SubSeq(s, 0 + 1, i - 1) \in Text /\ Len(SubSeq(s, 0 + 1, i - 1)) = i - 1 - 0
    BY <2>6, Slice
  <2>8. SubSeq(s, 1, i - 1) \in Text /\ Len(SubSeq(s, 1, i - 1)) = i - 1
    BY <2>6, <2>7
  <2>9. Len(s) >= 4 => i - 1 >= 1
    BY <1>1, <2>3, <2>5, <2>10
  <2> QED BY <1>1, <2>2, <2>6, <2>8, <2>9 DEF UTFMax
<1> QED BY <1>3, <1>4

(* Bytes a + 1 to b of a file are read, k of them skipped. What is left,   *)
(* less a rune cut off, is the text of the page.                           *)
TextOf(d, a, k, b) ==
  IF b < Len(d) THEN Trim(SubSeq(d, a + k + 1, b)) ELSE SubSeq(d, a + k + 1, b)

PageOf(d, a, k, text) ==
  IF ~IsText(SubSeq(d, 1, Smaller(SniffLen, Len(d)))) \/ ~Valid(text)
  THEN [answer |-> "binary", start |-> a + k, next |-> a + k, text |-> << >>]
  ELSE [answer |-> IF a + k + Len(text) < Len(d) THEN "more" ELSE "done",
        start |-> a + k, next |-> a + k + Len(text), text |-> text]

LiesAt(d, o, a, k, b) ==
  /\ a = Clamp(o, Len(d))
  /\ b = Len(d) \/ a + 4 <= b
  /\ k = IF a > 0 THEN Skips(SubSeq(d, a + 1, b)) ELSE 0

(* Every page has such a place.                                            *)
LEMMA Chunk ==
  ASSUME NEW d \in Text, NEW o \in Int, NEW l \in Nat \ {0}
  PROVE  \E a, b, k \in Nat :
           /\ a <= b /\ b <= Len(d) /\ a + k <= b
           /\ LiesAt(d, o, a, k, b)
           /\ ReadChunk(d, o, l) = PageOf(d, a, k, TextOf(d, a, k, b))
<1> DEFINE size  == Len(d)
           a     == Clamp(o, size)
           b     == Smaller(a + BufferLen(l), size)
           buf   == SubSeq(d, a + 1, b)
           k     == IF a > 0 THEN Skips(buf) ELSE 0
           start == a + k
           rest  == SubSeq(buf, k + 1, Len(buf))
           text  == IF start + Len(rest) < size THEN Trim(rest) ELSE rest
           next  == start + Len(text)
<1>1. size \in Nat
  BY LenProperties DEF Text
<1>2. a \in 0..size
  BY <1>1 DEF Clamp, Smaller
<1>3. BufferLen(l) \in Nat /\ BufferLen(l) >= 4
  BY DEF BufferLen, UTFMax
<1>4. b \in a..size /\ (b = size \/ a + 4 <= b) /\ b \in Nat
  BY <1>1, <1>2, <1>3 DEF Smaller
<1>5. buf \in Text /\ Len(buf) = b - a
  BY <1>1, <1>2, <1>4, Slice
<1>6. k \in 0..b - a /\ k <= 3
  <2>1. Skips(buf) \in 0..Smaller(3, Len(buf))
    BY <1>5, SkipsCount
  <2> QED BY <1>2, <1>4, <1>5, <2>1 DEF Smaller
<1> HIDE DEF k, b, a
<1>7. rest = SubSeq(d, a + k + 1, b)
  <2>1. a \in Nat /\ k \in Nat /\ a + k <= b /\ b <= Len(d)
    BY <1>1, <1>2, <1>4, <1>6
  <2> QED BY <1>4, <2>1, TailOfSlice
<1>8. Len(rest) = b - (a + k)
  <2>1. a + k \in Nat /\ a + k <= b /\ b <= Len(d)
    BY <1>1, <1>2, <1>4, <1>6
  <2>2. Len(SubSeq(d, a + k + 1, b)) = b - (a + k)
    BY <1>4, <2>1, Slice
  <2> QED BY <1>7, <2>2
<1>9. start + Len(rest) = b
  <2>1. Len(rest) = b - (a + k) => (a + k) + Len(rest) = b
    BY <1>1, <1>2, <1>4, <1>6
  <2> QED BY <1>8, <2>1
<1>10. ReadChunk(d, o, l) = PageOf(d, a, k, text)
  BY DEF ReadChunk, PageOf, a, b, k
<1>11. text = TextOf(d, a, k, b)
  BY <1>7, <1>9 DEF TextOf
<1> HIDE DEF text
<1>12. a \in Nat /\ b \in Nat /\ k \in Nat /\ a <= b /\ b <= Len(d) /\ a + k <= b
  BY <1>1, <1>2, <1>4, <1>6
<1>13. LiesAt(d, o, a, k, b)
  BY <1>4 DEF LiesAt, a, k
<1> QED BY <1>10, <1>11, <1>12, <1>13

(* A page that says there is more ends beyond the offset asked for.        *)
LEMMA ChunkMoves ==
  ASSUME NEW d \in Text, NEW o \in Int, NEW l \in Nat \ {0}
  PROVE  LET page == ReadChunk(d, o, l)
         IN  /\ page.start \in Nat /\ page.next \in Nat /\ page.text \in Text
             /\ page.answer \in {"binary", "more", "done"}
             /\ page.answer = "more" => page.next > o
<1> DEFINE page == ReadChunk(d, o, l)
<1>1. PICK a, b, k \in Nat :
        /\ a <= b /\ b <= Len(d) /\ a + k <= b
        /\ LiesAt(d, o, a, k, b)
        /\ page = PageOf(d, a, k, TextOf(d, a, k, b))
  BY Chunk
<1>2. /\ a = Clamp(o, Len(d))
      /\ b = Len(d) \/ a + 4 <= b
      /\ k = IF a > 0 THEN Skips(SubSeq(d, a + 1, b)) ELSE 0
  BY <1>1 DEF LiesAt
<1> DEFINE rest == SubSeq(d, a + k + 1, b)
           text == TextOf(d, a, k, b)
<1> HIDE DEF page
<1>3. Len(d) \in Nat
  BY LenProperties DEF Text
<1>4. a \in Nat /\ b \in Nat /\ k \in Nat /\ a + k \in Nat /\ a + k <= b
      /\ b <= Len(d)
  BY <1>1, <1>3
<1>5. rest \in Text /\ Len(rest) = b - (a + k)
  BY <1>4, Slice
<1> HIDE DEF rest
<1>6. /\ text \in Text /\ Len(text) \in Nat /\ Len(text) <= b - (a + k)
      /\ b < Len(d) /\ b - (a + k) >= 4 => Len(text) >= 1
      /\ b = Len(d) => Len(text) = b - (a + k)
  <2>1. CASE b < Len(d)
    <3>1. text = Trim(rest)
      BY <2>1 DEF TextOf, rest
    <3>2. /\ text \in Text /\ Len(text) <= Len(rest)
          /\ Len(rest) >= 4 => Len(text) >= 1
      BY <1>5, <3>1, TrimKeeps DEF UTFMax
    <3>3. Len(text) \in Nat
      BY <3>2, LenProperties DEF Text
    <3> HIDE DEF text
    <3> QED BY <1>3, <1>4, <1>5, <2>1, <3>2, <3>3
  <2>2. CASE ~(b < Len(d))
    <3>1. text = rest
      BY <2>2 DEF TextOf, rest
    <3> HIDE DEF text
    <3> QED BY <1>3, <1>4, <1>5, <2>2, <3>1
  <2> QED BY <2>1, <2>2
<1>7. \/ page = [answer |-> "binary", start |-> a + k,
                 next |-> a + k, text |-> << >>]
      \/ page = [answer |-> IF a + k + Len(text) < Len(d)
                            THEN "more" ELSE "done",
                 start |-> a + k, next |-> a + k + Len(text), text |-> text]
  BY <1>1 DEF PageOf
<1> HIDE DEF text
<1>8. /\ page.start = a + k
      /\ page.next = a + k \/ page.next = a + k + Len(text)
      /\ page.text = << >> \/ page.text = text
      /\ page.answer \in {"binary", "more", "done"}
      /\ page.answer = "more" =>
           page.next = a + k + Len(text) /\ a + k + Len(text) < Len(d)
  BY <1>7
<1>9. << >> \in Text
  BY DEF Text
<1>10. ASSUME a + k + Len(text) < Len(d) PROVE a + k + Len(text) > o
  <2>1. b < Len(d) /\ a + 4 <= b
    BY <1>2, <1>3, <1>4, <1>6, <1>10
  <2>2. k = 0 => Len(text) >= 1
    BY <1>3, <1>4, <1>6, <2>1
  <2>3. a + k + Len(text) > a
    BY <1>4, <1>6, <2>2
  <2>4. a # Len(d) /\ a = Clamp(o, Len(d))
    BY <1>2, <1>3, <1>4, <2>1
  <2>5. a >= o
    BY <1>3, <2>4 DEF Clamp, Smaller
  <2> QED BY <1>4, <1>6, <2>3, <2>5
<1> QED BY <1>4, <1>6, <1>8, <1>9, <1>10 DEF page

(* A page of a text file is a stretch of it, between two boundaries, and   *)
(* begins at the offset if that is one.                                    *)
LEMMA ChunkReads ==
  ASSUME NEW d \in Text, TextFile(d), NEW o \in Int, NEW l \in Nat \ {0}
  PROVE  LET page == ReadChunk(d, o, l)
         IN  /\ page.answer \in {"more", "done"}
             /\ page.start \in Nat /\ page.next \in Nat
             /\ page.start <= page.next /\ page.next <= Len(d)
             /\ page.text = SubSeq(d, page.start + 1, page.next)
             /\ Boundary(d, page.next)
             /\ page.answer = "done" => page.next = Len(d)
             /\ \A i \in Clamp(o, Len(d)) + 1..page.start : ~RuneStart(d[i])
             /\ o \in 0..Len(d) /\ Boundary(d, o) => page.start = o
<1> DEFINE page == ReadChunk(d, o, l)
<1>1. PICK a, b, k \in Nat :
        /\ a <= b /\ b <= Len(d) /\ a + k <= b
        /\ LiesAt(d, o, a, k, b)
        /\ page = PageOf(d, a, k, TextOf(d, a, k, b))
  BY Chunk
<1>2. /\ a = Clamp(o, Len(d))
      /\ b = Len(d) \/ a + 4 <= b
      /\ k = IF a > 0 THEN Skips(SubSeq(d, a + 1, b)) ELSE 0
  BY <1>1 DEF LiesAt
<1> DEFINE rest == SubSeq(d, a + k + 1, b)
           text == TextOf(d, a, k, b)
<1> HIDE DEF page
<1>3. Len(d) \in Nat
  BY LenProperties DEF Text
<1>4. a \in Nat /\ b \in Nat /\ k \in Nat /\ a + k \in Nat /\ a + k <= b
      /\ b <= Len(d) /\ a <= b
  BY <1>1, <1>3
<1>5. IsText(SubSeq(d, 1, Smaller(SniffLen, Len(d))))
  <2> DEFINE m == Smaller(SniffLen, Len(d))
  <2>1. m \in Nat /\ m <= Len(d)
    BY <1>3, ReadAssumption, SmallerBound
  <2>2. \A i \in 1..m : d[i] # Control
    BY DEF TextFile
  <2> HIDE DEF m
  <2>3. 0 \in Nat /\ 0 <= m /\ 0 + 1 = 1 /\ m - 0 = m
    BY <2>1
  <2>4. /\ Len(SubSeq(d, 0 + 1, m)) = m - 0
        /\ \A i \in 1..m - 0 : SubSeq(d, 0 + 1, m)[i] = d[0 + i]
    BY <2>1, <2>3, Slice
  <2>5. \A i \in 1..Len(SubSeq(d, 1, m)) : SubSeq(d, 1, m)[i] # Control
    <3>1. Len(SubSeq(d, 1, m)) = m /\ \A i \in 1..m : SubSeq(d, 1, m)[i] = d[0 + i]
      BY <2>3, <2>4
    <3>2. \A i \in 1..m : 0 + i = i
      BY <2>1
    <3> QED BY <2>2, <3>1, <3>2
  <2>6. Valid(d) /\ Boundary(d, 0)
    BY StartIsBoundary DEF TextFile
  <2>7. PICK c \in 0..m : /\ Trim(SubSeq(d, 0 + 1, m)) = SubSeq(d, 0 + 1, c)
                          /\ Boundary(d, c)
    BY <2>1, <2>3, <2>6, TrimmedSlice
  <2>8. c \in Nat /\ 0 <= c /\ c <= Len(d)
    BY <1>3, <2>1
  <2>9. Valid(SubSeq(d, 0 + 1, c))
    BY <2>3, <2>6, <2>7, <2>8, ValidBetween
  <2>10. Valid(Trim(SubSeq(d, 1, m)))
    BY <2>3, <2>7, <2>9
  <2> QED BY <2>5, <2>10 DEF IsText, m
<1>6. Boundary(d, a + k) /\ \A i \in a + 1..a + k : ~RuneStart(d[i])
  <2>1. CASE a = 0
    <3>1. k = 0 /\ a + k = 0
      BY <1>2, <2>1
    <3> QED BY <2>1, <3>1, StartIsBoundary DEF TextFile
  <2>2. CASE a > 0
    <3>1. k = Skips(SubSeq(d, a + 1, b))
      BY <1>2, <2>2
    <3> QED BY <1>2, <1>4, <3>1, SkipToBoundary DEF TextFile
  <2> QED BY <1>4, <2>1, <2>2
<1>7. PICK c \in a + k..b : /\ text = SubSeq(d, a + k + 1, c)
                            /\ Boundary(d, c)
                            /\ b = Len(d) => c = b
  <2>1. CASE b < Len(d)
    <3>1. PICK c \in a + k..b :
            /\ Trim(SubSeq(d, a + k + 1, b)) = SubSeq(d, a + k + 1, c)
            /\ Boundary(d, c)
      BY <1>4, <1>6, TrimmedSlice DEF TextFile
    <3>2. b # Len(d) /\ text = SubSeq(d, a + k + 1, c)
      BY <1>3, <1>4, <2>1, <3>1 DEF TextOf
    <3> QED BY <3>1, <3>2
  <2>2. CASE b = Len(d)
    BY <1>3, <1>4, <2>2 DEF Boundary, TextOf
  <2> QED BY <1>3, <1>4, <2>1, <2>2
<1>8. c \in Nat /\ a + k <= c /\ c <= Len(d)
  BY <1>3, <1>4
<1>9. Valid(text)
  BY <1>4, <1>6, <1>7, <1>8, ValidBetween DEF TextFile
<1>10. page = [answer |-> IF a + k + Len(text) < Len(d)
                          THEN "more" ELSE "done",
               start |-> a + k, next |-> a + k + Len(text), text |-> text]
  BY <1>1, <1>5, <1>9 DEF PageOf
<1> HIDE DEF text
<1>11. a + k + Len(text) = c
  <2>1. Len(text) = c - (a + k)
    BY <1>4, <1>7, <1>8, Slice
  <2> QED BY <1>4, <1>8, <2>1
<1>12. /\ page.start = a + k /\ page.next = c
       /\ page.text = SubSeq(d, a + k + 1, c)
       /\ page.answer = IF c < Len(d) THEN "more" ELSE "done"
  BY <1>7, <1>10, <1>11
<1>13. ASSUME o \in 0..Len(d), Boundary(d, o) PROVE a + k = o
  <2>1. a = o
    BY <1>2, <1>3, <1>13 DEF Clamp, Smaller
  <2>2. ASSUME k # 0 PROVE FALSE
    <3>1. a + 1 \in a + 1..a + k /\ a # Len(d)
      BY <1>3, <1>4, <2>2
    <3> QED BY <1>6, <1>13, <2>1, <3>1 DEF Boundary
  <2> QED BY <1>4, <2>1, <2>2
<1>14. page.answer = "done" => c = Len(d)
  BY <1>3, <1>8, <1>12
<1>15. a = Clamp(o, Len(d))
  BY <1>2
<1> QED BY <1>4, <1>6, <1>7, <1>8, <1>12, <1>13, <1>14, <1>15 DEF page

(* Two stretches that meet are one.                                        *)
LEMMA Joined ==
  ASSUME NEW d \in Text, NEW x \in Nat, NEW y \in Nat, NEW z \in Nat,
         x <= y, y <= z, z <= Len(d)
  PROVE  SubSeq(d, x + 1, y) \o SubSeq(d, y + 1, z) = SubSeq(d, x + 1, z)
<1> DEFINE s == SubSeq(d, x + 1, y)
           t == SubSeq(d, y + 1, z)
           u == SubSeq(d, x + 1, z)
<1>0. Len(d) \in Nat
  BY LenProperties DEF Text
<1>1. /\ s \in Text /\ Len(s) = y - x
      /\ \A i \in 1..y - x : s[i] = d[x + i]
  <2>1. y <= Len(d)
    BY <1>0
  <2> QED BY <2>1, Slice
<1>2. /\ t \in Text /\ Len(t) = z - y
      /\ \A i \in 1..z - y : t[i] = d[y + i]
  BY Slice
<1>3. /\ u \in Text /\ Len(u) = z - x
      /\ \A i \in 1..z - x : u[i] = d[x + i]
  <2>1. x <= z
    OBVIOUS
  <2> QED BY <2>1, Slice
<1> HIDE DEF s, t, u
<1>4. /\ s \o t \in Text /\ Len(s \o t) = Len(s) + Len(t)
      /\ \A i \in 1..Len(s) + Len(t) :
           (s \o t)[i] = IF i <= Len(s) THEN s[i] ELSE t[i - Len(s)]
  BY <1>1, <1>2, ConcatProperties DEF Text
<1>5. Len(s \o t) = Len(u)
  BY <1>1, <1>2, <1>3, <1>4
<1>6. ASSUME NEW i \in 1..Len(u) PROVE (s \o t)[i] = u[i]
  <2>0. i \in 1..z - x /\ i \in 1..Len(s) + Len(t) /\ i \in Nat
    BY <1>1, <1>2, <1>3
  <2>1. CASE i <= y - x
    BY <1>1, <1>3, <1>4, <2>0, <2>1
  <2>2. CASE i > y - x
    <3>1. i - (y - x) \in 1..z - y /\ y + (i - (y - x)) = x + i
      BY <2>0, <2>2
    <3>2. (s \o t)[i] = t[i - (y - x)]
      BY <1>1, <1>4, <2>0, <2>2
    <3> QED BY <1>2, <1>3, <2>0, <3>1, <3>2
  <2> QED BY <2>0, <2>1, <2>2
<1>7. s \o t = u
  BY <1>3, <1>4, <1>5, <1>6, SeqEqual DEF Text
<1> QED BY <1>7 DEF s, t, u

-----------------------------------------------------------------------------
(* A client's reading.                                                     *)

(* What has been read of a text file so far: a stretch between boundaries. *)
ReadSoFar ==
  /\ ses.answer \in {"more", "done"}
  /\ ses.start <= ses.next /\ ses.next <= Len(ses.data)
  /\ ses.text = SubSeq(ses.data, ses.start + 1, ses.next)
  /\ Boundary(ses.data, ses.next)
  /\ ses.answer = "done" => ses.next = Len(ses.data)
  /\ \A i \in Clamp(ses.from, Len(ses.data)) + 1..ses.start :
       ~RuneStart(ses.data[i])

SesFields == {"rel", "limit", "from", "asked", "start", "next", "text",
              "data", "same", "answer"}

SessionOK ==
  \/ ses = NoSession
  \/ /\ DOMAIN ses = SesFields
     /\ ses.limit \in Nat \ {0} /\ ses.start \in Nat /\ ses.next \in Nat
     /\ ses.data \in Text
     /\ PagesAdvance
     /\ ses.same /\ TextFile(ses.data) => ReadSoFar

LEMMA ClampLimitOK == \A v \in Int : ClampLimit(v) \in Nat \ {0}
BY ReadAssumption DEF ClampLimit, Smaller

(* The first page.                                                         *)
LEMMA OpenOK ==
  ASSUME UploadOK, NEW r \in Reads, Open(r)
  PROVE  SessionOK'
<1> DEFINE rel == ResolveReadPath(r.path)
           d    == live[rel]
           page == ReadChunk(d, r.offset, ClampLimit(r.limit))
<1>1. /\ rel \in DOMAIN live
      /\ ses' = [rel |-> rel, limit |-> ClampLimit(r.limit),
                 from |-> r.offset, asked |-> r.offset,
                 start |-> page.start, next |-> page.next,
                 text |-> page.text, data |-> d, same |-> TRUE,
                 answer |-> page.answer]
  BY DEF Open
<1>2. d \in Text /\ r.offset \in Int /\ ClampLimit(r.limit) \in Nat \ {0}
  BY <1>1, ReadAssumption, ClampLimitOK DEF UploadOK, Files
<1> HIDE DEF rel, d
<1>3. /\ page.start \in Nat /\ page.next \in Nat
      /\ page.answer = "more" => page.next > r.offset
  BY <1>2, ChunkMoves
<1>4. TextFile(d) => /\ page.answer \in {"more", "done"}
                     /\ page.start <= page.next /\ page.next <= Len(d)
                     /\ page.text = SubSeq(d, page.start + 1, page.next)
                     /\ Boundary(d, page.next)
                     /\ page.answer = "done" => page.next = Len(d)
                     /\ \A i \in Clamp(r.offset, Len(d)) + 1..page.start :
                          ~RuneStart(d[i])
  <2> DEFINE o == r.offset
             l == ClampLimit(r.limit)
  <2>1. o \in Int /\ l \in Nat \ {0}
    BY <1>2
  <2> HIDE DEF o, l
  <2>2. ASSUME TextFile(d)
        PROVE  LET text == ReadChunk(d, o, l)
               IN  /\ text.answer \in {"more", "done"}
                   /\ text.start <= text.next /\ text.next <= Len(d)
                   /\ text.text = SubSeq(d, text.start + 1, text.next)
                   /\ Boundary(d, text.next)
                   /\ text.answer = "done" => text.next = Len(d)
                   /\ \A i \in Clamp(o, Len(d)) + 1..text.start :
                        ~RuneStart(d[i])
    BY ONLY <1>2, <2>1, <2>2, ChunkReads
  <2> QED BY ONLY <2>2 DEF page, o, l
<1> HIDE DEF page
<1>5. /\ DOMAIN ses' = SesFields
      /\ ses'.limit = ClampLimit(r.limit) /\ ses'.from = r.offset
      /\ ses'.asked = r.offset /\ ses'.start = page.start
      /\ ses'.next = page.next /\ ses'.text = page.text
      /\ ses'.data = d /\ ses'.answer = page.answer
  BY <1>1 DEF SesFields
<1>6. PagesAdvance'
  BY <1>3, <1>5 DEF PagesAdvance
<1>7. TextFile(ses'.data) => ReadSoFar'
  BY <1>4, <1>5 DEF ReadSoFar
<1> QED BY <1>2, <1>3, <1>5, <1>6, <1>7 DEF SessionOK

(* A further one.                                                          *)
LEMMA NextPageOK ==
  ASSUME UploadOK, SessionOK, NextPage
  PROVE  SessionOK'
<1> DEFINE rel == IF IsDirectory(ses.rel) THEN Append(ses.rel, Index) ELSE ses.rel
           d    == live[rel]
           page == ReadChunk(d, ses.next, ses.limit)
<1>1. /\ ses.answer = "more" /\ rel \in DOMAIN live
      /\ ses' = [ses EXCEPT !.asked = ses.next, !.next = page.next,
                            !.text = @ \o page.text, !.answer = page.answer,
                            !.same = @ /\ d = ses.data]
  BY DEF NextPage
<1>2. /\ DOMAIN ses = SesFields
      /\ ses.limit \in Nat \ {0} /\ ses.start \in Nat /\ ses.next \in Nat
      /\ ses.next \in Int /\ ses.data \in Text
      /\ ses.same /\ TextFile(ses.data) => ReadSoFar
  BY <1>1 DEF SessionOK, NoSession
<1>3. d \in Text
  BY <1>1 DEF UploadOK, Files
<1> HIDE DEF rel, d
<1>4. /\ page.start \in Nat /\ page.next \in Nat
      /\ page.answer = "more" => page.next > ses.next
  BY <1>2, <1>3, ChunkMoves
<1>5. TextFile(d) => /\ page.answer \in {"more", "done"}
                     /\ page.start <= page.next /\ page.next <= Len(d)
                     /\ page.text = SubSeq(d, page.start + 1, page.next)
                     /\ Boundary(d, page.next)
                     /\ page.answer = "done" => page.next = Len(d)
                     /\ ses.next \in 0..Len(d) /\ Boundary(d, ses.next) =>
                          page.start = ses.next
  <2> DEFINE o == ses.next
             l == ses.limit
  <2>1. o \in Int /\ l \in Nat \ {0} /\ page = ReadChunk(d, o, l)
    BY <1>2
  <2> HIDE DEF o, l, page
  <2>2. ASSUME TextFile(d)
        PROVE  /\ page.answer \in {"more", "done"}
               /\ page.start <= page.next /\ page.next <= Len(d)
               /\ page.text = SubSeq(d, page.start + 1, page.next)
               /\ Boundary(d, page.next)
               /\ page.answer = "done" => page.next = Len(d)
               /\ o \in 0..Len(d) /\ Boundary(d, o) => page.start = o
    <3>1. page = ReadChunk(d, o, l)
      BY <2>1
    <3>2. o \in Int /\ l \in Nat \ {0}
      BY <2>1
    <3>3. LET text == ReadChunk(d, o, l)
          IN  /\ text.answer \in {"more", "done"}
              /\ text.start <= text.next /\ text.next <= Len(d)
              /\ text.text = SubSeq(d, text.start + 1, text.next)
              /\ Boundary(d, text.next)
              /\ text.answer = "done" => text.next = Len(d)
              /\ o \in 0..Len(d) /\ Boundary(d, o) => text.start = o
      BY ONLY <1>3, <2>2, <3>2, ChunkReads
    <3> QED BY ONLY <3>1, <3>3
  <2> QED BY <2>2 DEF o
<1> HIDE DEF page
<1>6. /\ DOMAIN ses' = SesFields
      /\ ses'.limit = ses.limit /\ ses'.from = ses.from
      /\ ses'.asked = ses.next /\ ses'.start = ses.start
      /\ ses'.next = page.next /\ ses'.text = ses.text \o page.text
      /\ ses'.data = ses.data /\ ses'.answer = page.answer
      /\ ses'.same = (ses.same /\ d = ses.data)
  BY <1>1, <1>2 DEF SesFields
<1>7. PagesAdvance'
  BY <1>4, <1>6 DEF PagesAdvance
<1>8. ASSUME ses'.same, TextFile(ses'.data) PROVE ReadSoFar'
  <2>1. ReadSoFar /\ d = ses.data /\ TextFile(d)
    BY <1>2, <1>6, <1>8
  <2>2. Len(d) \in Nat
    BY <1>3, LenProperties DEF Text
  <2>3. page.start = ses.next
    BY <1>2, <1>5, <2>1, <2>2 DEF ReadSoFar
  <2>4. ses.start <= ses.next /\ ses.next <= page.next /\ page.next <= Len(d)
    BY <1>5, <2>1, <2>3 DEF ReadSoFar
  <2>5. ses.text \o page.text = SubSeq(d, ses.start + 1, page.next)
    <3>1. /\ ses.text = SubSeq(d, ses.start + 1, ses.next)
          /\ page.text = SubSeq(d, ses.next + 1, page.next)
      BY <1>5, <2>1, <2>3 DEF ReadSoFar
    <3> DEFINE x == ses.start
               y == ses.next
               z == page.next
    <3>2. x \in Nat /\ y \in Nat /\ z \in Nat /\ x <= y /\ y <= z /\ z <= Len(d)
      BY <1>2, <1>4, <2>4
    <3> HIDE DEF x, y, z
    <3>3. SubSeq(d, x + 1, y) \o SubSeq(d, y + 1, z) = SubSeq(d, x + 1, z)
      BY <1>3, <3>2, Joined
    <3> QED BY <3>1, <3>3 DEF x, y, z
  <2>6. ses.start <= page.next
    BY <1>2, <1>4, <2>4
  <2>7. \A i \in Clamp(ses.from, Len(d)) + 1..ses.start : ~RuneStart(d[i])
    BY <2>1 DEF ReadSoFar
  <2> QED BY <1>5, <1>6, <2>1, <2>4, <2>5, <2>6, <2>7 DEF ReadSoFar
<1> QED BY <1>2, <1>4, <1>6, <1>7, <1>8 DEF SessionOK

(* The actions of a reader (runReadFile) have no part in an upload's       *)
(* variables, so what is proved of uploads alone holds here.               *)
LEMMA UploadsAlone == ContentSpec => UploadSpec
<1>1. ReadInit => UploadInit
  BY DEF ReadInit
<1>2. [ContentStep]_<<live, up, ses>> => [UploadStep]_<<live, up>>
  BY DEF ContentStep, Reading, Open, NextPage, Close
<1> QED BY <1>1, <1>2, PTL DEF ContentSpec, UploadSpec

LEMMA SessionKept ==
  UploadInv /\ SessionOK /\ [ContentStep]_<<live, up, ses>> => SessionOK'
<1> SUFFICES ASSUME UploadOK, SessionOK, [ContentStep]_<<live, up, ses>>
             PROVE  SessionOK'
  BY DEF UploadInv
<1>1. CASE UNCHANGED ses
  BY <1>1 DEF SessionOK, PagesAdvance, ReadSoFar
<1>2. CASE \E r \in Reads : Open(r)
  BY <1>2, OpenOK
<1>3. CASE NextPage
  BY <1>3, NextPageOK
<1>4. CASE Close
  BY <1>4 DEF Close, SessionOK
<1> QED BY <1>1, <1>2, <1>3, <1>4 DEF ContentStep, Reading

LEMMA SessionHolds == ContentSpec => []SessionOK
<1>1. ReadInit => SessionOK
  BY DEF ReadInit, SessionOK
<1> QED BY <1>1, SessionKept, UploadsAlone, UploadInvHolds, PTL DEF ContentSpec

LEMMA SessionPromises == SessionOK => PagesReadTheFile /\ PagesAdvance
<1> SUFFICES ASSUME SessionOK PROVE PagesReadTheFile /\ PagesAdvance
  OBVIOUS
<1>1. PagesAdvance
  BY DEF SessionOK, PagesAdvance, NoSession
<1>2. PagesReadTheFile
  <2> SUFFICES ASSUME ses.answer # "none", ses.same, TextFile(ses.data)
               PROVE  /\ ses.answer # "binary"
                      /\ ses.text = SubSeq(ses.data, ses.start + 1, ses.next)
                      /\ ses.answer = "done" => ses.next = Len(ses.data)
                      /\ \A i \in Clamp(ses.from, Len(ses.data)) + 1..ses.start :
                           ~RuneStart(ses.data[i])
    BY DEF PagesReadTheFile
  <2>1. ReadSoFar
    BY DEF SessionOK, NoSession
  <2> QED BY <2>1 DEF ReadSoFar
<1> QED BY <1>1, <1>2

(* A client that follows next_offset comes to an end (runReadFile).        *)
THEOREM PagesAlwaysAdvance == ContentSpec => []PagesAdvance
BY SessionHolds, SessionPromises, PTL

(* Wherever pages end, the pages of a text file that stays the same are    *)
(* the file, and are all answered (readChunk, skipPartialRune,             *)
(* trimPartialRune, IsText).                                               *)
THEOREM PagesAlwaysReadTheFile == ContentSpec => []PagesReadTheFile
BY SessionHolds, SessionPromises, PTL
=============================================================================
