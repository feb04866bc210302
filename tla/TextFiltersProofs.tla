------------------------- MODULE TextFiltersProofs -------------------------
(***************************************************************************)
(* What TextFilters promises of thinkSplitter and jsonObjectGate, for any  *)
(* alphabet, any tags, any texts in any pieces, and any JSON objects that  *)
(* are what ObjectAssumption says of JSON.                                 *)
(*                                                                         *)
(* The argument.  Forget the pieces: PlainDetecting and PlainFilter say    *)
(* what a new filter makes of a whole text.  After every piece a filter    *)
(* stands where they say it would stand if all it was given had come at    *)
(* once (FilterFollows, the inductive invariant; PushFollows and GatePush  *)
(* are its steps).  So the cuts cannot matter, and it is enough to compare *)
(* the functions on whole texts: FlushCompletes compares PlainDetecting    *)
(* with splitInlineThink, ArgumentsComplete PlainFilter with               *)
(* normalizeToolArguments.                                                 *)
(*                                                                         *)
(* That every push is one StreamInput knows needs the pieces again: what   *)
(* is held back came in earlier pieces (Dated), so that the piece pushed   *)
(* is new in it, and SplitOf and PassOf, the filters as StreamInput sees   *)
(* them, are among its outcomes (PushCovered, GateCovered).  It is only    *)
(* here that TagAssumption is needed: if a closing tag had < twice, a push *)
(* could let a part of what was held back through and hold back the rest.  *)
(*                                                                         *)
(* Most of it is induction over texts, which rests on LeastElement.        *)
(***************************************************************************)
EXTENDS TextFilters, SequenceTheorems, WellFoundedInduction, TLAPS

----------------------------------------------------------------------------
(* Numbers *)

\* Every set of naturals has a least element; induction over texts rests on it.
LEMMA LeastElement ==
    ASSUME NEW S \in SUBSET Nat, S # {}
    PROVE  \E k \in S : \A m \in S : k <= m
<1> DEFINE R == OpToRel(<, Nat)
<1>1. IsWellFoundedOn(R, Nat)
  BY Zenon, NatLessThanWellFounded
<1>2. \A x, y \in Nat : x < y => <<x, y>> \in R
  BY DEF OpToRel
<1> HIDE DEF R
<1>3. PICK x \in S : \A y \in S : ~(<<y, x>> \in R)
  BY <1>1, WFMin
<1>4. ASSUME NEW m \in S PROVE x <= m
  <2>1. x \in Nat /\ m \in Nat
    OBVIOUS
  <2>2. ~(m < x)
    BY <1>2, <1>3, <2>1
  <2> QED BY <2>1, <2>2
<1> QED BY <1>4

\* What holds of 0 and goes on from each number to the next holds of all.
LEMMA Induction ==
    ASSUME NEW S, 0 \in S, \A k \in Nat : k \in S => k + 1 \in S
    PROVE  Nat \subseteq S
<1> SUFFICES ASSUME Nat \ S # {} PROVE FALSE
  OBVIOUS
<1>1. PICK k \in Nat \ S : \A m \in Nat \ S : k <= m
  BY LeastElement
<1>2. k # 0 /\ k - 1 \in Nat /\ k - 1 \in S
  BY <1>1
<1> QED BY <1>1, <1>2

\* What Min returns.
LEMMA MinIs ==
    ASSUME NEW S \in SUBSET Nat, S # {}
    PROVE  Min(S) \in S /\ \A m \in S : Min(S) <= m
BY LeastElement DEF Min

\* A set of naturals that has a bound has a greatest element.
LEMMA MaxIs ==
    ASSUME NEW S \in SUBSET Nat, S # {}, NEW b \in Nat, \A m \in S : m <= b
    PROVE  Max(S) \in S /\ \A m \in S : m <= Max(S)
<1> DEFINE T == {b - m : m \in S}
<1>1. T \in SUBSET Nat /\ T # {}
  <2>1. ASSUME NEW m \in S PROVE b - m \in Nat
    <3>1. m \in Nat /\ m <= b
      OBVIOUS
    <3> QED BY <3>1
  <2> QED BY <2>1
<1>2. PICK k \in T : \A m \in T : k <= m
  BY <1>1, LeastElement
<1>3. PICK x \in S : k = b - x
  BY <1>2
<1>4. ASSUME NEW m \in S PROVE m <= x
  <2>1. b - m \in T /\ m \in Nat /\ x \in Nat
    OBVIOUS
  <2>2. b - x <= b - m
    BY <1>2, <1>3, <2>1
  <2> QED BY <2>1, <2>2
<1> QED BY <1>3, <1>4 DEF Max

----------------------------------------------------------------------------
(* Texts *)

\* Plain texts.
Word == Seq(Char)

\* Characters that remember their pieces.
Str == Seq(Marked)

\* Two texts of one length with the same characters are the same.
LEMMA SameText ==
    ASSUME NEW S, NEW s \in Seq(S), NEW t \in Seq(S), Len(s) = Len(t),
           \A i \in 1..Len(s) : s[i] = t[i]
    PROVE  s = t
BY SeqEqual

\* The end of a text from a place on, and its beginning up to a place.
LEMMA FromIs ==
    ASSUME NEW S, NEW s \in Seq(S), NEW k \in 1..(Len(s) + 1)
    PROVE  /\ From(s, k) \in Seq(S)
           /\ Len(From(s, k)) = Len(s) - k + 1
           /\ \A i \in 1..(Len(s) - k + 1) : From(s, k)[i] = s[k + i - 1]
<1>1. k \in Int /\ Len(s) \in Int /\ \A i \in k..Len(s) : s[i] \in S
  OBVIOUS
<1> QED BY <1>1, SubSeqProperties DEF From

LEMMA CutIs ==
    ASSUME NEW S, NEW s \in Seq(S), NEW k \in 0..Len(s)
    PROVE  /\ SubSeq(s, 1, k) \in Seq(S)
           /\ Len(SubSeq(s, 1, k)) = k
           /\ \A i \in 1..k : SubSeq(s, 1, k)[i] = s[i]
<1>1. k \in Int /\ 1 \in Int /\ \A i \in 1..k : s[i] \in S
  OBVIOUS
<1>2. /\ SubSeq(s, 1, k) \in Seq(S)
      /\ Len(SubSeq(s, 1, k)) = IF 1 <= k THEN k - 1 + 1 ELSE 0
      /\ \A i \in 1..(k - 1 + 1) : SubSeq(s, 1, k)[i] = s[1 + i - 1]
  BY <1>1, SubSeqProperties
<1> QED BY <1>2

\* The end of a text that grows, grows with it.
LEMMA FromGrown ==
    ASSUME NEW S, NEW s \in Seq(S), NEW t \in Seq(S), NEW k \in 1..(Len(s) + 1)
    PROVE  From(s \o t, k) = From(s, k) \o t
<1> DEFINE a == From(s, k)
           b == From(s \o t, k)
<1>1. /\ s \o t \in Seq(S) /\ Len(s \o t) = Len(s) + Len(t)
      /\ \A i \in 1..(Len(s) + Len(t)) :
            (s \o t)[i] = IF i <= Len(s) THEN s[i] ELSE t[i - Len(s)]
  BY ConcatProperties
<1>2. /\ b \in Seq(S)
      /\ Len(b) = Len(s) + Len(t) - k + 1
      /\ \A i \in 1..(Len(s) + Len(t) - k + 1) : b[i] = (s \o t)[k + i - 1]
  <2>1. k \in 1..(Len(s \o t) + 1)
    BY <1>1
  <2>2. /\ b \in Seq(S)
        /\ Len(b) = Len(s \o t) - k + 1
        /\ \A i \in 1..(Len(s \o t) - k + 1) : b[i] = (s \o t)[k + i - 1]
    BY <1>1, <2>1, FromIs
  <2> QED BY <1>1, <2>2
<1>3. /\ a \in Seq(S) /\ Len(a) = Len(s) - k + 1
      /\ \A i \in 1..(Len(s) - k + 1) : a[i] = s[k + i - 1]
  BY FromIs
<1> HIDE DEF a, b
<1>4. /\ a \o t \in Seq(S) /\ Len(a \o t) = Len(a) + Len(t)
      /\ \A i \in 1..(Len(a) + Len(t)) :
            (a \o t)[i] = IF i <= Len(a) THEN a[i] ELSE t[i - Len(a)]
  BY <1>3, ConcatProperties
<1>5. Len(b) = Len(a) + Len(t)
  BY <1>2, <1>3
<1>6. ASSUME NEW i \in 1..Len(b)
      PROVE  b[i] = (a \o t)[i]
  <2>1. /\ i \in 1..(Len(a) + Len(t)) /\ i \in 1..(Len(s) + Len(t) - k + 1)
        /\ k + i - 1 \in 1..(Len(s) + Len(t))
    BY <1>2, <1>5
  <2>2. CASE i <= Len(a)
    <3>1. i \in 1..(Len(s) - k + 1) /\ k + i - 1 <= Len(s)
      BY <1>3, <2>2
    <3> QED BY <1>1, <1>2, <1>3, <1>4, <2>1, <2>2, <3>1
  <2>3. CASE ~(i <= Len(a))
    <3>1. k + i - 1 - Len(s) = i - Len(a) /\ ~(k + i - 1 <= Len(s))
      BY <1>3, <2>3
    <3>2. b[i] = (s \o t)[k + i - 1]
      BY <1>2, <2>1
    <3>3. (s \o t)[k + i - 1] = t[k + i - 1 - Len(s)]
      BY <1>1, <2>1, <3>1
    <3>4. (a \o t)[i] = t[i - Len(a)]
      BY <1>4, <2>1, <2>3
    <3> QED BY <3>1, <3>2, <3>3, <3>4
  <2> QED BY <2>2, <2>3
<1>7. b = a \o t
  BY <1>2, <1>4, <1>5, <1>6, SameText
<1> QED BY <1>7 DEF a, b

\* What follows the first of two texts.
LEMMA FromSecond ==
    ASSUME NEW S, NEW s \in Seq(S), NEW t \in Seq(S), NEW k \in 1..(Len(t) + 1)
    PROVE  From(s \o t, Len(s) + k) = From(t, k)
<1>1. /\ s \o t \in Seq(S) /\ Len(s \o t) = Len(s) + Len(t)
      /\ \A i \in 1..(Len(s) + Len(t)) :
            (s \o t)[i] = IF i <= Len(s) THEN s[i] ELSE t[i - Len(s)]
  BY ConcatProperties
<1>2. /\ From(s \o t, Len(s) + k) \in Seq(S)
      /\ Len(From(s \o t, Len(s) + k)) = Len(t) - k + 1
      /\ \A i \in 1..(Len(t) - k + 1) :
            From(s \o t, Len(s) + k)[i] = (s \o t)[Len(s) + k + i - 1]
  <2>1. Len(s) + k \in 1..(Len(s \o t) + 1) /\ Len(s \o t) - (Len(s) + k) + 1 = Len(t) - k + 1
    BY <1>1
  <2> QED BY <1>1, <2>1, FromIs
<1>3. /\ From(t, k) \in Seq(S) /\ Len(From(t, k)) = Len(t) - k + 1
      /\ \A i \in 1..(Len(t) - k + 1) : From(t, k)[i] = t[k + i - 1]
  BY FromIs
<1>4. ASSUME NEW i \in 1..(Len(t) - k + 1)
      PROVE  From(s \o t, Len(s) + k)[i] = From(t, k)[i]
  <2>1. /\ Len(s) + k + i - 1 \in 1..(Len(s) + Len(t)) /\ ~(Len(s) + k + i - 1 <= Len(s))
        /\ Len(s) + k + i - 1 - Len(s) = k + i - 1
    OBVIOUS
  <2> QED BY <1>1, <1>2, <1>3, <2>1
<1> QED BY <1>2, <1>3, <1>4, SameText

\* The beginning of a text is that of every longer one.
LEMMA CutGrown ==
    ASSUME NEW S, NEW s \in Seq(S), NEW t \in Seq(S), NEW k \in 0..Len(s)
    PROVE  SubSeq(s \o t, 1, k) = SubSeq(s, 1, k)
<1>1. /\ s \o t \in Seq(S) /\ Len(s \o t) = Len(s) + Len(t)
      /\ \A i \in 1..(Len(s) + Len(t)) :
            (s \o t)[i] = IF i <= Len(s) THEN s[i] ELSE t[i - Len(s)]
  BY ConcatProperties
<1>2. /\ SubSeq(s \o t, 1, k) \in Seq(S) /\ Len(SubSeq(s \o t, 1, k)) = k
      /\ \A i \in 1..k : SubSeq(s \o t, 1, k)[i] = (s \o t)[i]
  <2>1. k \in 0..Len(s \o t)
    BY <1>1
  <2> QED BY <1>1, <2>1, CutIs
<1>3. /\ SubSeq(s, 1, k) \in Seq(S) /\ Len(SubSeq(s, 1, k)) = k
      /\ \A i \in 1..k : SubSeq(s, 1, k)[i] = s[i]
  BY CutIs
<1>4. ASSUME NEW i \in 1..k PROVE SubSeq(s \o t, 1, k)[i] = SubSeq(s, 1, k)[i]
  BY <1>1, <1>2, <1>3
<1> QED BY <1>2, <1>3, <1>4, SameText

\* A cut behind the first of two texts.
LEMMA CutSecond ==
    ASSUME NEW S, NEW s \in Seq(S), NEW t \in Seq(S), NEW k \in 0..Len(t)
    PROVE  SubSeq(s \o t, 1, Len(s) + k) = s \o SubSeq(t, 1, k)
<1>1. /\ s \o t \in Seq(S) /\ Len(s \o t) = Len(s) + Len(t)
      /\ \A i \in 1..(Len(s) + Len(t)) :
            (s \o t)[i] = IF i <= Len(s) THEN s[i] ELSE t[i - Len(s)]
  BY ConcatProperties
<1>2. /\ SubSeq(s \o t, 1, Len(s) + k) \in Seq(S)
      /\ Len(SubSeq(s \o t, 1, Len(s) + k)) = Len(s) + k
      /\ \A i \in 1..(Len(s) + k) : SubSeq(s \o t, 1, Len(s) + k)[i] = (s \o t)[i]
  <2>1. Len(s) + k \in 0..Len(s \o t)
    BY <1>1
  <2> QED BY <1>1, <2>1, CutIs
<1>3. /\ SubSeq(t, 1, k) \in Seq(S) /\ Len(SubSeq(t, 1, k)) = k
      /\ \A i \in 1..k : SubSeq(t, 1, k)[i] = t[i]
  BY CutIs
<1>4. /\ s \o SubSeq(t, 1, k) \in Seq(S) /\ Len(s \o SubSeq(t, 1, k)) = Len(s) + k
      /\ \A i \in 1..(Len(s) + k) :
            (s \o SubSeq(t, 1, k))[i] = IF i <= Len(s) THEN s[i] ELSE SubSeq(t, 1, k)[i - Len(s)]
  BY <1>3, ConcatProperties
<1>5. ASSUME NEW i \in 1..(Len(s) + k)
      PROVE  SubSeq(s \o t, 1, Len(s) + k)[i] = (s \o SubSeq(t, 1, k))[i]
  <2>1. i \in 1..(Len(s) + Len(t)) /\ (i > Len(s) => i - Len(s) \in 1..k)
    OBVIOUS
  <2> QED BY <1>1, <1>2, <1>3, <1>4, <2>1
<1> QED BY <1>2, <1>4, <1>5, SameText

\* The same for texts, as they are used below.
LEMMA FromBehind ==
    ASSUME NEW x \in Word, NEW y \in Word, NEW k \in 1..(Len(y) + 1)
    PROVE  From(x \o y, Len(x) + k) = From(y, k)
BY FromSecond DEF Word

LEMMA CutBehind ==
    ASSUME NEW x \in Word, NEW y \in Word, NEW k \in 0..Len(y)
    PROVE  SubSeq(x \o y, 1, Len(x) + k) = x \o SubSeq(y, 1, k)
BY CutSecond DEF Word

\* A text is its beginning followed by its end.
LEMMA CutAndRest ==
    ASSUME NEW S, NEW s \in Seq(S), NEW k \in 0..Len(s)
    PROVE  SubSeq(s, 1, k) \o From(s, k + 1) = s
<1>1. SubSeq(s, 1, k) \o SubSeq(s, k + 1, Len(s)) = SubSeq(s, 1, Len(s))
  <2>1. 1 \in 1..(Len(s) + 1) /\ k \in (1 - 1)..Len(s) /\ Len(s) \in k..Len(s)
    OBVIOUS
  <2> QED BY <2>1, ConcatAdjacentSubSeq
<1> QED BY <1>1, SubSeqFull DEF From

\* Texts that are put together.
LEMMA Joined ==
    ASSUME NEW x \in Word, NEW y \in Word
    PROVE  x \o y \in Word /\ Len(x \o y) = Len(x) + Len(y)
BY ConcatProperties DEF Word

LEMMA JoinedNothing ==
    ASSUME NEW x \in Word
    PROVE  x \o <<>> = x /\ <<>> \o x = x
BY ConcatEmptySeq DEF Word

LEMMA JoinedTwice ==
    ASSUME NEW x \in Word, NEW y \in Word, NEW z \in Word
    PROVE  (x \o y) \o z = x \o (y \o z)
BY ConcatAssociative DEF Word

\* A cut in the first of two texts.
LEMMA CutMoved ==
    ASSUME NEW x \in Word, NEW y \in Word, NEW c \in 0..Len(x)
    PROVE  x \o y = SubSeq(x, 1, c) \o (From(x, c + 1) \o y)
<1> DEFINE a == SubSeq(x, 1, c)
           r == From(x, c + 1)
<1>1. a \in Word
  BY CutIs DEF Word
<1>2. r \in Word
  <2>1. c + 1 \in 1..(Len(x) + 1)
    BY DEF Word
  <2> QED BY <2>1, FromIs DEF Word
<1>3. a \o r = x
  BY CutAndRest DEF Word
<1> HIDE DEF a, r
<1>4. (a \o r) \o y = a \o (r \o y)
  BY <1>1, <1>2, JoinedTwice, Zenon
<1> QED BY <1>3, <1>4 DEF a, r

\* Nothing follows the last character.
LEMMA FromEnd ==
    ASSUME NEW S, NEW s \in Seq(S)
    PROVE  From(s, Len(s) + 1) = <<>> /\ From(s, 1) = s
BY SubSeqEmpty, SubSeqFull DEF From

----------------------------------------------------------------------------
(* Characters and their pieces *)

\* Chars forgets the pieces and nothing else; Mark adds them.
LEMMA CharsIs ==
    ASSUME NEW s \in Str
    PROVE  /\ Chars(s) \in Word /\ Len(Chars(s)) = Len(s)
           /\ \A k \in 1..Len(s) : Chars(s)[k] = s[k].ch
<1>1. DOMAIN s = 1..Len(s) /\ Len(s) \in Nat
  BY DEF Str
<1>2. ASSUME NEW k \in 1..Len(s) PROVE s[k].ch \in Char
  <2>1. s[k] \in Marked
    BY ElementOfSeq DEF Str
  <2> QED BY <2>1 DEF Marked
<1> QED BY <1>1, <1>2 DEF Chars, Word

LEMMA MarkIs ==
    ASSUME NEW x \in Word, NEW i \in 1..MaxPieces
    PROVE  /\ Mark(x, i) \in Str /\ Len(Mark(x, i)) = Len(x)
           /\ Chars(Mark(x, i)) = x
<1>1. DOMAIN x = 1..Len(x) /\ Len(x) \in Nat /\ \A k \in 1..Len(x) : x[k] \in Char
  BY DEF Word
<1>2. /\ Mark(x, i) \in Str /\ Len(Mark(x, i)) = Len(x)
      /\ \A k \in 1..Len(x) : Mark(x, i)[k] = [ch |-> x[k], frag |-> i]
  BY <1>1 DEF Mark, Str, Marked
<1>3. /\ Chars(Mark(x, i)) \in Word /\ Len(Chars(Mark(x, i))) = Len(x)
      /\ \A k \in 1..Len(x) : Chars(Mark(x, i))[k] = Mark(x, i)[k].ch
  BY <1>2, CharsIs
<1>4. ASSUME NEW k \in 1..Len(x) PROVE Chars(Mark(x, i))[k] = x[k]
  <2>1. Mark(x, i)[k] = [ch |-> x[k], frag |-> i]
    BY <1>2
  <2>2. Mark(x, i)[k].ch = x[k]
    BY <2>1
  <2> QED BY <1>3, <2>2
<1> QED BY <1>2, <1>3, <1>4, SameText DEF Word

\* It does so wherever a text is put together or cut.
LEMMA CharsConcat ==
    ASSUME NEW s \in Str, NEW t \in Str
    PROVE  Chars(s \o t) = Chars(s) \o Chars(t)
<1>1. /\ s \o t \in Str /\ Len(s \o t) = Len(s) + Len(t)
      /\ \A i \in 1..(Len(s) + Len(t)) :
            (s \o t)[i] = IF i <= Len(s) THEN s[i] ELSE t[i - Len(s)]
  BY ConcatProperties DEF Str
<1>2. /\ Chars(s) \in Word /\ Len(Chars(s)) = Len(s)
      /\ \A k \in 1..Len(s) : Chars(s)[k] = s[k].ch
  BY CharsIs
<1>3. /\ Chars(t) \in Word /\ Len(Chars(t)) = Len(t)
      /\ \A k \in 1..Len(t) : Chars(t)[k] = t[k].ch
  BY CharsIs
<1>4. /\ Chars(s \o t) \in Word /\ Len(Chars(s \o t)) = Len(s) + Len(t)
      /\ \A k \in 1..(Len(s) + Len(t)) : Chars(s \o t)[k] = (s \o t)[k].ch
  BY <1>1, CharsIs
<1>5. /\ Chars(s) \o Chars(t) \in Word /\ Len(Chars(s) \o Chars(t)) = Len(s) + Len(t)
      /\ \A i \in 1..(Len(s) + Len(t)) :
            (Chars(s) \o Chars(t))[i] = IF i <= Len(s) THEN Chars(s)[i] ELSE Chars(t)[i - Len(s)]
  <2> DEFINE a == Chars(s)
             b == Chars(t)
  <2>1. a \in Seq(Char) /\ b \in Seq(Char) /\ Len(a) = Len(s) /\ Len(b) = Len(t)
    BY <1>2, <1>3 DEF Word
  <2> HIDE DEF a, b
  <2>2. /\ a \o b \in Seq(Char) /\ Len(a \o b) = Len(a) + Len(b)
        /\ \A i \in 1..(Len(a) + Len(b)) : (a \o b)[i] = IF i <= Len(a) THEN a[i] ELSE b[i - Len(a)]
    BY <2>1, ConcatProperties
  <2>3. /\ a \o b \in Word /\ Len(a \o b) = Len(s) + Len(t)
        /\ \A i \in 1..(Len(s) + Len(t)) : (a \o b)[i] = IF i <= Len(s) THEN a[i] ELSE b[i - Len(s)]
    BY <2>1, <2>2 DEF Word
  <2> QED BY <2>3 DEF a, b
<1>6. ASSUME NEW i \in 1..(Len(s) + Len(t))
      PROVE  Chars(s \o t)[i] = (Chars(s) \o Chars(t))[i]
  <2>1. Len(s) \in Nat /\ Len(t) \in Nat
    BY DEF Str
  <2>2. i <= Len(s) => i \in 1..Len(s)
    BY <2>1
  <2>3. ~(i <= Len(s)) => i - Len(s) \in 1..Len(t)
    BY <2>1
  <2> QED BY <1>1, <1>2, <1>3, <1>4, <1>5, <2>2, <2>3
<1> QED BY <1>4, <1>5, <1>6, SameText DEF Word

LEMMA CharsFrom ==
    ASSUME NEW s \in Str, NEW k \in 1..(Len(s) + 1)
    PROVE  From(s, k) \in Str /\ Chars(From(s, k)) = From(Chars(s), k)
<1>1. /\ Chars(s) \in Word /\ Len(Chars(s)) = Len(s)
      /\ \A i \in 1..Len(s) : Chars(s)[i] = s[i].ch
  BY CharsIs
<1>2. /\ From(s, k) \in Str /\ Len(From(s, k)) = Len(s) - k + 1
      /\ \A i \in 1..(Len(s) - k + 1) : From(s, k)[i] = s[k + i - 1]
  BY FromIs DEF Str
<1>3. /\ From(Chars(s), k) \in Word /\ Len(From(Chars(s), k)) = Len(s) - k + 1
      /\ \A i \in 1..(Len(s) - k + 1) : From(Chars(s), k)[i] = Chars(s)[k + i - 1]
  BY <1>1, FromIs DEF Word
<1>4. /\ Chars(From(s, k)) \in Word /\ Len(Chars(From(s, k))) = Len(s) - k + 1
      /\ \A i \in 1..(Len(s) - k + 1) : Chars(From(s, k))[i] = From(s, k)[i].ch
  BY <1>2, CharsIs
<1>5. ASSUME NEW i \in 1..(Len(s) - k + 1)
      PROVE  Chars(From(s, k))[i] = From(Chars(s), k)[i]
  <2>1. k + i - 1 \in 1..Len(s)
    BY DEF Str
  <2> QED BY <1>1, <1>2, <1>3, <1>4, <2>1
<1> QED BY <1>2, <1>3, <1>4, <1>5, SameText DEF Word

LEMMA CharsCut ==
    ASSUME NEW s \in Str, NEW k \in 0..Len(s)
    PROVE  SubSeq(s, 1, k) \in Str /\ Chars(SubSeq(s, 1, k)) = SubSeq(Chars(s), 1, k)
<1>1. /\ Chars(s) \in Word /\ Len(Chars(s)) = Len(s)
      /\ \A i \in 1..Len(s) : Chars(s)[i] = s[i].ch
  BY CharsIs
<1>2. /\ SubSeq(s, 1, k) \in Str /\ Len(SubSeq(s, 1, k)) = k
      /\ \A i \in 1..k : SubSeq(s, 1, k)[i] = s[i]
  BY CutIs DEF Str
<1>3. /\ SubSeq(Chars(s), 1, k) \in Word /\ Len(SubSeq(Chars(s), 1, k)) = k
      /\ \A i \in 1..k : SubSeq(Chars(s), 1, k)[i] = Chars(s)[i]
  BY <1>1, CutIs DEF Word
<1>4. /\ Chars(SubSeq(s, 1, k)) \in Word /\ Len(Chars(SubSeq(s, 1, k))) = k
      /\ \A i \in 1..k : Chars(SubSeq(s, 1, k))[i] = SubSeq(s, 1, k)[i].ch
  BY <1>2, CharsIs
<1>5. ASSUME NEW i \in 1..k
      PROVE  Chars(SubSeq(s, 1, k))[i] = SubSeq(Chars(s), 1, k)[i]
  <2>1. i \in 1..Len(s)
    BY DEF Str
  <2> QED BY <1>1, <1>2, <1>3, <1>4, <2>1
<1> QED BY <1>2, <1>3, <1>4, <1>5, SameText DEF Word

----------------------------------------------------------------------------
(* Blanks *)

\* Blanks counts the blanks at the beginning, and is the only number that does.
LEMMA BlanksIs ==
    ASSUME NEW S, NEW x \in Seq(S)
    PROVE  /\ Blanks(x) \in 0..Len(x)
           /\ \A k \in 1..Blanks(x) : x[k] = Blank
           /\ Blanks(x) # Len(x) => x[Blanks(x) + 1] # Blank
<1>1. DOMAIN x = 1..Len(x) /\ Len(x) \in Nat
  OBVIOUS
<1>2. CASE Solid(x) = {}
  BY <1>1, <1>2 DEF Blanks, Solid
<1>3. CASE Solid(x) # {}
  <2>1. Solid(x) \in SUBSET Nat
    BY <1>1 DEF Solid
  <2>2. Min(Solid(x)) \in Solid(x) /\ \A m \in Solid(x) : Min(Solid(x)) <= m
    BY <1>3, <2>1, MinIs
  <2> DEFINE k == Min(Solid(x))
  <2>3. Blanks(x) = k - 1
    BY <1>3 DEF Blanks
  <2>4. k \in 1..Len(x) /\ x[k] # Blank
    BY <1>1, <2>2 DEF Solid
  <2>5. \A j \in 1..Len(x) : x[j] # Blank => k <= j
    BY <1>1, <2>2 DEF Solid
  <2> HIDE DEF k
  <2> QED BY <1>1, <2>3, <2>4, <2>5
<1> QED BY <1>2, <1>3

LEMMA BlanksAre ==
    ASSUME NEW S, NEW x \in Seq(S), NEW b \in 0..Len(x),
           \A k \in 1..b : x[k] = Blank, b # Len(x) => x[b + 1] # Blank
    PROVE  Blanks(x) = b
<1>1. /\ Blanks(x) \in 0..Len(x)
      /\ \A k \in 1..Blanks(x) : x[k] = Blank
      /\ Blanks(x) # Len(x) => x[Blanks(x) + 1] # Blank
  BY BlanksIs
<1>2. ~(Blanks(x) < b)
  <2> SUFFICES ASSUME Blanks(x) < b PROVE FALSE
    OBVIOUS
  <2>1. Blanks(x) + 1 \in 1..b /\ Blanks(x) # Len(x)
    BY <1>1
  <2> QED BY <1>1, <2>1
<1>3. ~(b < Blanks(x))
  <2> SUFFICES ASSUME b < Blanks(x) PROVE FALSE
    OBVIOUS
  <2>1. b + 1 \in 1..Blanks(x) /\ b # Len(x)
    BY <1>1
  <2> QED BY <1>1, <2>1
<1> QED BY <1>1, <1>2, <1>3

\* What follows a text counts only when all of it is blank.
LEMMA BlanksGrown ==
    ASSUME NEW S, NEW x \in Seq(S), NEW y \in Seq(S)
    PROVE  Blanks(x \o y) = IF Blanks(x) = Len(x) THEN Len(x) + Blanks(y) ELSE Blanks(x)
<1>1. /\ x \o y \in Seq(S) /\ Len(x \o y) = Len(x) + Len(y)
      /\ \A i \in 1..(Len(x) + Len(y)) :
            (x \o y)[i] = IF i <= Len(x) THEN x[i] ELSE y[i - Len(x)]
  BY ConcatProperties
<1>2. /\ Blanks(x) \in 0..Len(x)
      /\ \A k \in 1..Blanks(x) : x[k] = Blank
      /\ Blanks(x) # Len(x) => x[Blanks(x) + 1] # Blank
  BY BlanksIs
<1>3. /\ Blanks(y) \in 0..Len(y)
      /\ \A k \in 1..Blanks(y) : y[k] = Blank
      /\ Blanks(y) # Len(y) => y[Blanks(y) + 1] # Blank
  BY BlanksIs
<1>4. CASE Blanks(x) = Len(x)
  <2> DEFINE b == Len(x) + Blanks(y)
  <2>1. b \in 0..Len(x \o y)
    BY <1>1, <1>3
  <2>2. ASSUME NEW k \in 1..b PROVE (x \o y)[k] = Blank
    <3>1. CASE k <= Len(x)
      BY <1>1, <1>2, <1>3, <1>4, <3>1
    <3>2. CASE ~(k <= Len(x))
      <4>1. k - Len(x) \in 1..Blanks(y) /\ k \in 1..(Len(x) + Len(y))
        BY <1>3, <3>2
      <4> QED BY <1>1, <1>3, <3>2, <4>1
    <3> QED BY <3>1, <3>2
  <2>3. ASSUME b # Len(x \o y) PROVE (x \o y)[b + 1] # Blank
    <3>1. /\ Blanks(y) # Len(y) /\ b + 1 \in 1..(Len(x) + Len(y)) /\ ~(b + 1 <= Len(x))
          /\ b + 1 - Len(x) = Blanks(y) + 1
      <4>1. Len(x) \in Nat /\ Len(y) \in Nat /\ Blanks(y) \in Nat /\ Blanks(y) <= Len(y)
        BY <1>3
      <4>2. Len(x) + Blanks(y) # Len(x) + Len(y)
        BY <1>1, <2>3
      <4> QED BY <4>1, <4>2
    <3> QED BY <1>1, <1>3, <3>1
  <2> HIDE DEF b
  <2>4. Blanks(x \o y) = b
    BY <1>1, <2>1, <2>2, <2>3, BlanksAre
  <2> QED BY <1>4, <2>4 DEF b
<1>5. CASE Blanks(x) # Len(x)
  <2>1. Blanks(x) \in 0..Len(x \o y) /\ Blanks(x) + 1 \in 1..Len(x)
    BY <1>1, <1>2, <1>5
  <2>2. \A k \in 1..Blanks(x) : (x \o y)[k] = Blank
    BY <1>1, <1>2
  <2>3. (x \o y)[Blanks(x) + 1] # Blank
    BY <1>1, <1>2, <1>5, <2>1
  <2>4. Blanks(x \o y) = Blanks(x)
    BY <1>1, <2>1, <2>2, <2>3, BlanksAre
  <2> QED BY <1>5, <2>4
<1> QED BY <1>4, <1>5

\* What strings.TrimLeft leaves begins with no blank.
LEMMA TrimLeftIs ==
    ASSUME NEW x \in Word
    PROVE  /\ Blanks(x) \in 0..Len(x)
           /\ TrimLeft(x) \in Word
           /\ Len(TrimLeft(x)) = Len(x) - Blanks(x)
           /\ TrimLeft(x) = <<>> <=> Blanks(x) = Len(x)
           /\ TrimLeft(x) # <<>> => TrimLeft(x)[1] # Blank
<1>1. /\ Blanks(x) \in 0..Len(x)
      /\ Blanks(x) # Len(x) => x[Blanks(x) + 1] # Blank
  BY BlanksIs DEF Word
<1>2. /\ TrimLeft(x) \in Word
      /\ Len(TrimLeft(x)) = Len(x) - (Blanks(x) + 1) + 1
      /\ \A i \in 1..(Len(x) - (Blanks(x) + 1) + 1) : TrimLeft(x)[i] = x[(Blanks(x) + 1) + i - 1]
  <2>1. Blanks(x) + 1 \in 1..(Len(x) + 1)
    BY <1>1 DEF Word
  <2> QED BY <2>1, FromIs DEF Word, TrimLeft
<1>3. TrimLeft(x) = <<>> <=> Len(TrimLeft(x)) = 0
  BY <1>2, EmptySeq DEF Word
<1>4. ASSUME Blanks(x) # Len(x) PROVE TrimLeft(x)[1] = x[Blanks(x) + 1]
  <2>1. 1 \in 1..(Len(x) - (Blanks(x) + 1) + 1) /\ (Blanks(x) + 1) + 1 - 1 = Blanks(x) + 1
    BY <1>1, <1>4 DEF Word
  <2> QED BY <1>2, <2>1
<1> QED BY <1>1, <1>2, <1>3, <1>4

\* Of nothing it leaves nothing.
LEMMA TrimNothing == TrimLeft(<<>>) = <<>> /\ TrimSpace(<<>>) = <<>>
<1>1. <<>> \in Word /\ Len(<<>>) = 0
  BY DEF Word
<1>2. Blanks(<<>>) \in 0..0
  BY <1>1, TrimLeftIs
<1>3. TrimLeft(<<>>) = <<>>
  BY <1>1, <1>2, TrimLeftIs
<1>4. Solid(<<>>) = {}
  BY DEF Solid
<1>5. TrimRight(<<>>) = <<>>
  BY <1>4 DEF TrimRight
<1> QED BY <1>3, <1>5 DEF TrimSpace

\* It can be applied before or after a text grows.
LEMMA TrimGrown ==
    ASSUME NEW x \in Word, NEW y \in Word
    PROVE  TrimLeft(x \o y) = IF TrimLeft(x) = <<>> THEN TrimLeft(y) ELSE TrimLeft(x) \o y
<1>1. Blanks(x) \in 0..Len(x) /\ (TrimLeft(x) = <<>> <=> Blanks(x) = Len(x))
  BY TrimLeftIs
<1>2. Blanks(x \o y) = IF Blanks(x) = Len(x) THEN Len(x) + Blanks(y) ELSE Blanks(x)
  BY BlanksGrown DEF Word
<1>3. CASE Blanks(x) = Len(x)
  <2>1. Blanks(y) + 1 \in 1..(Len(y) + 1) /\ Len(x) + Blanks(y) + 1 = Len(x) + (Blanks(y) + 1)
    <3>1. Blanks(y) \in 0..Len(y)
      BY TrimLeftIs
    <3>2. Len(y) \in Nat /\ Len(x) \in Nat
      BY DEF Word
    <3> QED BY <3>1, <3>2
  <2>2. From(x \o y, Len(x) + (Blanks(y) + 1)) = From(y, Blanks(y) + 1)
    BY <2>1, FromSecond DEF Word
  <2> QED BY <1>1, <1>2, <1>3, <2>1, <2>2 DEF TrimLeft
<1>4. CASE Blanks(x) # Len(x)
  <2>1. Blanks(x) + 1 \in 1..(Len(x) + 1)
    BY <1>1
  <2>2. From(x \o y, Blanks(x) + 1) = From(x, Blanks(x) + 1) \o y
    BY <2>1, FromGrown DEF Word
  <2> QED BY <1>1, <1>2, <1>4, <2>2 DEF TrimLeft
<1> QED BY <1>3, <1>4

\* TrimPieces is TrimLeft for characters that remember their pieces.
LEMMA TrimPiecesIs ==
    ASSUME NEW s \in Str
    PROVE  TrimPieces(s) \in Str /\ Chars(TrimPieces(s)) = TrimLeft(Chars(s))
<1>1. Chars(s) \in Word /\ Len(Chars(s)) = Len(s)
  BY CharsIs
<1>2. Blanks(Chars(s)) \in 0..Len(s)
  BY <1>1, TrimLeftIs
<1>3. Blanks(Chars(s)) + 1 \in 1..(Len(s) + 1)
  BY <1>2 DEF Str
<1> QED BY <1>3, CharsFrom DEF TrimPieces, TrimLeft

----------------------------------------------------------------------------
(* Tags *)

\* A prefix agrees with the text as far as it goes.
LEMMA PrefixIs ==
    ASSUME NEW s \in Word, NEW t \in Word
    PROVE  IsPrefix(s, t) <=> Len(s) <= Len(t) /\ \A i \in 1..Len(s) : s[i] = t[i]
<1>1. Len(s) \in Nat /\ Len(t) \in Nat
  BY DEF Word
<1>2. SubSeq(s, 1, Len(s)) = s
  BY SubSeqFull DEF Word
<1> SUFFICES ASSUME Len(s) <= Len(t)
             PROVE  s = SubSeq(t, 1, Len(s)) <=> \A i \in 1..Len(s) : s[i] = t[i]
  BY <1>1, <1>2 DEF IsPrefix
<1>3. /\ SubSeq(t, 1, Len(s)) \in Word /\ Len(SubSeq(t, 1, Len(s))) = Len(s)
      /\ \A i \in 1..Len(s) : SubSeq(t, 1, Len(s))[i] = t[i]
  <2>1. Len(s) \in 0..Len(t)
    BY <1>1
  <2> QED BY <2>1, CutIs DEF Word
<1>4. ASSUME \A i \in 1..Len(s) : s[i] = t[i] PROVE s = SubSeq(t, 1, Len(s))
  <2>1. \A i \in 1..Len(s) : s[i] = SubSeq(t, 1, Len(s))[i]
    BY <1>3, <1>4
  <2> QED BY <1>3, <2>1, SameText DEF Word
<1> QED BY <1>3, <1>4

\* The tag stands at k.
Occurs(x, tag, k) ==
    k + Len(tag) - 1 <= Len(x) /\ \A i \in 1..Len(tag) : x[k + i - 1] = tag[i]

\* To have the tag at a place is to have it as a prefix from there on.
LEMMA OccursIs ==
    ASSUME NEW x \in Word, NEW tag \in Word, NEW k \in 1..Len(x)
    PROVE  IsPrefix(tag, From(x, k)) <=> Occurs(x, tag, k)
<1>1. Len(x) \in Nat /\ Len(tag) \in Nat /\ k \in 1..(Len(x) + 1)
  BY DEF Word
<1>2. /\ From(x, k) \in Word /\ Len(From(x, k)) = Len(x) - k + 1
      /\ \A i \in 1..(Len(x) - k + 1) : From(x, k)[i] = x[k + i - 1]
  BY <1>1, FromIs DEF Word
<1>3. IsPrefix(tag, From(x, k))
        <=> Len(tag) <= Len(x) - k + 1 /\ \A i \in 1..Len(tag) : tag[i] = From(x, k)[i]
  BY <1>2, PrefixIs
<1>4. Len(tag) <= Len(x) - k + 1 <=> k + Len(tag) - 1 <= Len(x)
  BY <1>1
<1>5. ASSUME Len(tag) <= Len(x) - k + 1, NEW i \in 1..Len(tag) PROVE From(x, k)[i] = x[k + i - 1]
  BY <1>1, <1>2, <1>5
<1> QED BY <1>3, <1>4, <1>5 DEF Occurs

\* strings.Index returns the first place where the tag is, if there is one.
LEMMA FindIs ==
    ASSUME NEW x \in Word, NEW tag \in Word
    PROVE  /\ Find(x, tag) \in 0..Len(x)
           /\ Find(x, tag) # 0 => Occurs(x, tag, Find(x, tag))
           /\ \A k \in 1..Len(x) : Occurs(x, tag, k) => Find(x, tag) # 0 /\ Find(x, tag) <= k
<1> DEFINE at == {k \in DOMAIN x : IsPrefix(tag, From(x, k))}
<1>1. DOMAIN x = 1..Len(x) /\ Len(x) \in Nat
  BY DEF Word
<1>2. at = {k \in 1..Len(x) : Occurs(x, tag, k)}
  BY <1>1, OccursIs
<1>3. Find(x, tag) = IF at = {} THEN 0 ELSE Min(at)
  BY DEF Find
<1>4. at \in SUBSET Nat
  BY <1>1
<1> HIDE DEF at
<1>5. at # {} => Min(at) \in at /\ \A m \in at : Min(at) <= m
  BY <1>4, MinIs
<1>6. CASE at = {}
  BY <1>1, <1>2, <1>3, <1>6
<1>7. CASE at # {}
  <2>1. Find(x, tag) \in at /\ \A m \in at : Find(x, tag) <= m
    BY <1>3, <1>5, <1>7
  <2>2. Find(x, tag) \in 1..Len(x) /\ Occurs(x, tag, Find(x, tag))
    BY <1>2, <2>1
  <2>3. \A k \in 1..Len(x) : Occurs(x, tag, k) => Find(x, tag) <= k
    BY <1>2, <2>1
  <2> QED BY <1>1, <2>2, <2>3
<1> QED BY <1>6, <1>7

\* Where the tag is first is where it is found.
LEMMA FoundAt ==
    ASSUME NEW x \in Word, NEW tag \in Word, NEW k \in 1..Len(x), Occurs(x, tag, k),
           \A j \in 1..(k - 1) : ~Occurs(x, tag, j)
    PROVE  Find(x, tag) = k
<1>1. /\ Find(x, tag) \in 0..Len(x)
      /\ Find(x, tag) # 0 => Occurs(x, tag, Find(x, tag))
      /\ Find(x, tag) # 0 /\ Find(x, tag) <= k
  BY FindIs
<1>2. ~(Find(x, tag) < k)
  BY <1>1
<1> QED BY <1>1, <1>2

\* The last k characters are the first k of the tag.
EndsWith(x, tag, k) ==
    k <= Len(x) /\ \A i \in 1..k : x[Len(x) - k + i] = tag[i]

\* The same for the ends of a text that begin a tag.
LEMMA EndsWithIs ==
    ASSUME NEW x \in Word, NEW tag \in Word, NEW k \in 1..(Len(tag) - 1)
    PROVE  (k <= Len(x) /\ From(x, Len(x) - k + 1) = SubSeq(tag, 1, k)) <=> EndsWith(x, tag, k)
<1>1. Len(x) \in Nat /\ Len(tag) \in Nat /\ k \in 0..Len(tag)
  BY DEF Word
<1> SUFFICES ASSUME k <= Len(x)
             PROVE  From(x, Len(x) - k + 1) = SubSeq(tag, 1, k)
                      <=> \A i \in 1..k : x[Len(x) - k + i] = tag[i]
  BY DEF EndsWith
<1> DEFINE f == From(x, Len(x) - k + 1)
<1>2. f \in Word /\ Len(f) = k /\ \A i \in 1..k : f[i] = x[Len(x) - k + i]
  <2>1. Len(x) - k + 1 \in 1..(Len(x) + 1)
    BY <1>1
  <2>2. /\ f \in Word /\ Len(f) = Len(x) - (Len(x) - k + 1) + 1
        /\ \A i \in 1..(Len(x) - (Len(x) - k + 1) + 1) : f[i] = x[(Len(x) - k + 1) + i - 1]
    BY <2>1, FromIs DEF Word
  <2>3. Len(x) - (Len(x) - k + 1) + 1 = k /\ \A i \in 1..k : (Len(x) - k + 1) + i - 1 = Len(x) - k + i
    BY <1>1
  <2> HIDE DEF f
  <2> QED BY <2>2, <2>3
<1>3. /\ SubSeq(tag, 1, k) \in Word /\ Len(SubSeq(tag, 1, k)) = k
      /\ \A i \in 1..k : SubSeq(tag, 1, k)[i] = tag[i]
  BY <1>1, CutIs DEF Word
<1> HIDE DEF f
<1>4. ASSUME \A i \in 1..k : x[Len(x) - k + i] = tag[i] PROVE f = SubSeq(tag, 1, k)
  <2>1. \A i \in 1..k : f[i] = SubSeq(tag, 1, k)[i]
    BY <1>2, <1>3, <1>4
  <2> QED BY <1>2, <1>3, <2>1, SameText DEF Word
<1>5. ASSUME f = SubSeq(tag, 1, k), NEW i \in 1..k PROVE x[Len(x) - k + i] = tag[i]
  BY <1>2, <1>3, <1>5
<1> QED BY <1>4, <1>5 DEF f

\* overlapSuffixLen returns the longest of them, and nothing else has its properties.
LEMMA OverlapIs ==
    ASSUME NEW x \in Word, NEW tag \in Word, Len(tag) > 0
    PROVE  LET o == OverlapSuffixLen(x, tag) IN
           /\ o \in 0..(Len(tag) - 1) /\ o <= Len(x)
           /\ EndsWith(x, tag, o)
           /\ \A k \in 1..(Len(tag) - 1) : EndsWith(x, tag, k) => k <= o
<1> DEFINE ends == {k \in 1..(Len(tag) - 1) :
                      k <= Len(x) /\ From(x, Len(x) - k + 1) = SubSeq(tag, 1, k)}
           o == OverlapSuffixLen(x, tag)
<1>1. Len(x) \in Nat /\ Len(tag) \in Nat /\ Len(tag) - 1 \in Nat
  BY DEF Word
<1>2. ends = {k \in 1..(Len(tag) - 1) : EndsWith(x, tag, k)}
  BY EndsWithIs
<1>3. o = IF ends = {} THEN 0 ELSE Max(ends)
  BY DEF OverlapSuffixLen
<1>4. ends \in SUBSET Nat /\ \A m \in ends : m <= Len(tag) - 1
  BY <1>1
<1> HIDE DEF ends, o
<1>5. ends # {} => Max(ends) \in ends /\ \A m \in ends : m <= Max(ends)
  BY <1>1, <1>4, MaxIs
<1>6. EndsWith(x, tag, 0)
  BY <1>1 DEF EndsWith
<1>7. CASE ends = {}
  BY <1>1, <1>2, <1>3, <1>6, <1>7 DEF o
<1>8. CASE ends # {}
  <2>1. o \in 1..(Len(tag) - 1) /\ EndsWith(x, tag, o)
    BY <1>2, <1>3, <1>5, <1>8
  <2>2. o <= Len(x)
    BY <2>1 DEF EndsWith
  <2>3. \A k \in 1..(Len(tag) - 1) : EndsWith(x, tag, k) => k <= o
    BY <1>2, <1>3, <1>5, <1>8
  <2> QED BY <1>1, <2>1, <2>2, <2>3 DEF o
<1> QED BY <1>7, <1>8

LEMMA OverlapAt ==
    ASSUME NEW x \in Word, NEW tag \in Word, Len(tag) > 0, NEW o \in 0..(Len(tag) - 1),
           EndsWith(x, tag, o), \A k \in (o + 1)..(Len(tag) - 1) : ~EndsWith(x, tag, k)
    PROVE  OverlapSuffixLen(x, tag) = o
<1> DEFINE m == OverlapSuffixLen(x, tag)
<1>1. /\ m \in 0..(Len(tag) - 1) /\ EndsWith(x, tag, m)
      /\ \A k \in 1..(Len(tag) - 1) : EndsWith(x, tag, k) => k <= m
  BY OverlapIs
<1> HIDE DEF m
<1>2. Len(tag) \in Nat
  BY DEF Word
<1>3. ~(o < m)
  BY <1>1, <1>2
<1>4. ~(m < o)
  BY <1>1, <1>2
<1>5. m = o
  BY <1>1, <1>2, <1>3, <1>4
<1> QED BY <1>5 DEF m

\* A tag that was found is found at the same place when the text grows.
LEMMA FoundGrown ==
    ASSUME NEW x \in Word, NEW y \in Word, NEW tag \in Word, Len(tag) > 0, Find(x, tag) # 0
    PROVE  Find(x \o y, tag) = Find(x, tag)
<1> DEFINE k == Find(x, tag)
           xy == x \o y
<1>1. Len(x) \in Nat /\ Len(tag) \in Nat /\ Len(y) \in Nat
  BY DEF Word
<1>2. /\ xy \in Word /\ Len(xy) = Len(x) + Len(y)
      /\ \A i \in 1..(Len(x) + Len(y)) : xy[i] = IF i <= Len(x) THEN x[i] ELSE y[i - Len(x)]
  BY ConcatProperties DEF Word
<1>3. /\ k \in 1..Len(x) /\ Occurs(x, tag, k)
      /\ \A j \in 1..Len(x) : Occurs(x, tag, j) => k <= j
  BY FindIs
<1> HIDE DEF k, xy
<1>4. ASSUME NEW j \in 1..k
      PROVE  Occurs(xy, tag, j) <=> Occurs(x, tag, j)
  <2>1. k + Len(tag) - 1 <= Len(x)
    BY <1>3 DEF Occurs
  <2>2. j + Len(tag) - 1 <= Len(x) /\ j + Len(tag) - 1 <= Len(xy)
    BY <1>1, <1>2, <1>3, <2>1
  <2>3. ASSUME NEW i \in 1..Len(tag) PROVE xy[j + i - 1] = x[j + i - 1]
    <3>1. j + i - 1 \in 1..(Len(x) + Len(y)) /\ j + i - 1 <= Len(x)
      BY <1>1, <1>3, <2>2
    <3> QED BY <1>2, <3>1
  <2> QED BY <2>2, <2>3 DEF Occurs
<1>5. Occurs(xy, tag, k) /\ k \in 1..Len(xy)
  BY <1>1, <1>2, <1>3, <1>4
<1>6. \A j \in 1..(k - 1) : ~Occurs(xy, tag, j)
  BY <1>1, <1>3, <1>4
<1>7. Find(xy, tag) = k
  BY <1>2, <1>5, <1>6, FoundAt
<1> QED BY <1>7 DEF k, xy

\* Where no tag begins in the first of two texts, the tag is found in the second.
LEMMA FindBehind ==
    ASSUME NEW a \in Word, NEW w \in Word, NEW tag \in Word, Len(tag) > 0,
           \A k \in 1..Len(a) : ~Occurs(a \o w, tag, k)
    PROVE  Find(a \o w, tag) = IF Find(w, tag) = 0 THEN 0 ELSE Len(a) + Find(w, tag)
<1> DEFINE aw == a \o w
           f == Find(w, tag)
           g == Find(aw, tag)
<1>1. Len(a) \in Nat /\ Len(tag) \in Nat /\ Len(w) \in Nat
  BY DEF Word
<1>2. /\ aw \in Word /\ Len(aw) = Len(a) + Len(w)
      /\ \A i \in 1..(Len(a) + Len(w)) : aw[i] = IF i <= Len(a) THEN a[i] ELSE w[i - Len(a)]
  BY ConcatProperties DEF Word
<1>3. \A k \in 1..Len(a) : ~Occurs(aw, tag, k)
  OBVIOUS
<1>4. /\ f \in 0..Len(w) /\ (f # 0 => Occurs(w, tag, f))
      /\ \A k \in 1..Len(w) : Occurs(w, tag, k) => f # 0 /\ f <= k
  BY FindIs
<1> HIDE DEF aw
<1>5. /\ g \in 0..Len(aw) /\ (g # 0 => Occurs(aw, tag, g))
      /\ \A k \in 1..Len(aw) : Occurs(aw, tag, k) => g # 0 /\ g <= k
  BY <1>2, FindIs
<1> HIDE DEF f, g
<1>6. ASSUME NEW k \in 1..Len(w)
      PROVE  Occurs(aw, tag, Len(a) + k) <=> Occurs(w, tag, k)
  <2>1. Len(a) + k + Len(tag) - 1 <= Len(aw) <=> k + Len(tag) - 1 <= Len(w)
    BY <1>1, <1>2
  <2>2. ASSUME k + Len(tag) - 1 <= Len(w), NEW i \in 1..Len(tag)
        PROVE  aw[Len(a) + k + i - 1] = w[k + i - 1]
    <3>1. /\ Len(a) + k + i - 1 \in 1..(Len(a) + Len(w)) /\ ~(Len(a) + k + i - 1 <= Len(a))
          /\ Len(a) + k + i - 1 - Len(a) = k + i - 1
      BY <1>1, <2>2
    <3> QED BY <1>2, <3>1
  <2> QED BY <2>1, <2>2 DEF Occurs
<1>7. ASSUME g # 0 PROVE f # 0 /\ g >= Len(a) + f
  <2>1. g - Len(a) \in 1..Len(w) /\ Len(a) + (g - Len(a)) = g
    BY <1>1, <1>2, <1>3, <1>5, <1>7
  <2>2. Occurs(w, tag, g - Len(a))
    BY <1>5, <1>6, <1>7, <2>1
  <2>3. f # 0 /\ f <= g - Len(a)
    BY <1>4, <2>1, <2>2
  <2> QED BY <1>1, <1>4, <1>5, <2>3
<1>8. ASSUME f # 0 PROVE g # 0 /\ g <= Len(a) + f
  <2>1. f \in 1..Len(w) /\ Len(a) + f \in 1..Len(aw)
    BY <1>1, <1>2, <1>4, <1>8
  <2> QED BY <1>4, <1>5, <1>6, <1>8, <2>1
<1>9. g = IF f = 0 THEN 0 ELSE Len(a) + f
  <2>1. g \in Nat /\ f \in Nat
    BY <1>1, <1>2, <1>4, <1>5
  <2> QED BY <1>1, <1>7, <1>8, <2>1
<1> QED BY <1>9 DEF aw, f, g

\* What may be the beginning of a tag is the same when all of it lies in the second text.
LEMMA OverlapBehind ==
    ASSUME NEW a \in Word, NEW w \in Word, NEW tag \in Word, Len(tag) > 0,
           \A m \in (Len(w) + 1)..(Len(tag) - 1) : ~EndsWith(a \o w, tag, m)
    PROVE  OverlapSuffixLen(a \o w, tag) = OverlapSuffixLen(w, tag)
<1> DEFINE aw == a \o w
           o == OverlapSuffixLen(w, tag)
<1>1. Len(a) \in Nat /\ Len(tag) \in Nat /\ Len(w) \in Nat
  BY DEF Word
<1>2. /\ aw \in Word /\ Len(aw) = Len(a) + Len(w)
      /\ \A i \in 1..(Len(a) + Len(w)) : aw[i] = IF i <= Len(a) THEN a[i] ELSE w[i - Len(a)]
  BY ConcatProperties DEF Word
<1>3. \A m \in (Len(w) + 1)..(Len(tag) - 1) : ~EndsWith(aw, tag, m)
  OBVIOUS
<1>4. /\ o \in 0..(Len(tag) - 1) /\ o <= Len(w) /\ EndsWith(w, tag, o)
      /\ \A k \in 1..(Len(tag) - 1) : EndsWith(w, tag, k) => k <= o
  BY OverlapIs
<1> HIDE DEF aw, o
<1>5. ASSUME NEW m \in 0..Len(w)
      PROVE  EndsWith(aw, tag, m) <=> EndsWith(w, tag, m)
  <2>1. m <= Len(aw) /\ m <= Len(w)
    BY <1>1, <1>2
  <2>2. ASSUME NEW i \in 1..m PROVE aw[Len(aw) - m + i] = w[Len(w) - m + i]
    <3>1. /\ Len(aw) - m + i \in 1..(Len(a) + Len(w)) /\ ~(Len(aw) - m + i <= Len(a))
          /\ Len(aw) - m + i - Len(a) = Len(w) - m + i
      BY <1>1, <1>2, <2>1
    <3> QED BY <1>2, <3>1
  <2> QED BY <2>1, <2>2 DEF EndsWith
<1>6. EndsWith(aw, tag, o)
  BY <1>1, <1>4, <1>5
<1>7. ASSUME NEW k \in (o + 1)..(Len(tag) - 1) PROVE ~EndsWith(aw, tag, k)
  <2>1. k \in 1..(Len(tag) - 1) /\ ~(k <= o)
    BY <1>1, <1>4
  <2>2. CASE k <= Len(w)
    BY <1>1, <1>4, <1>5, <2>1, <2>2
  <2>3. CASE ~(k <= Len(w))
    <3>1. k \in (Len(w) + 1)..(Len(tag) - 1)
      BY <1>1, <2>1, <2>3
    <3> QED BY <1>3, <3>1
  <2> QED BY <2>2, <2>3
<1>8. OverlapSuffixLen(aw, tag) = o
  BY <1>2, <1>4, <1>6, <1>7, OverlapAt
<1> QED BY <1>8 DEF aw, o

\* The one search over a text that grows: when the tag is not in x and y is appended, it
\* is enough to look at y behind what x may have of the tag at its end.
LEMMA SearchGoesOn ==
    ASSUME NEW x \in Word, NEW y \in Word, NEW tag \in Word, Len(tag) > 0, Find(x, tag) = 0
    PROVE  LET c == Len(x) - OverlapSuffixLen(x, tag)
               w == From(x, c + 1) \o y
           IN /\ c \in 0..Len(x) /\ w \in Word
              /\ x \o y = SubSeq(x, 1, c) \o w
              /\ Find(x \o y, tag) = IF Find(w, tag) = 0 THEN 0 ELSE c + Find(w, tag)
              /\ OverlapSuffixLen(x \o y, tag) = OverlapSuffixLen(w, tag)
<1> DEFINE c == Len(x) - OverlapSuffixLen(x, tag)
           w == From(x, c + 1) \o y
           o == OverlapSuffixLen(x, tag)
           a == SubSeq(x, 1, c)
           xy == x \o y
<1>1. Len(x) \in Nat /\ Len(tag) \in Nat /\ Len(y) \in Nat
  BY DEF Word
<1>2. /\ xy \in Word /\ Len(xy) = Len(x) + Len(y)
      /\ \A i \in 1..(Len(x) + Len(y)) : xy[i] = IF i <= Len(x) THEN x[i] ELSE y[i - Len(x)]
  BY ConcatProperties DEF Word
<1>3. /\ o \in 0..(Len(tag) - 1) /\ o <= Len(x)
      /\ \A k \in 1..(Len(tag) - 1) : EndsWith(x, tag, k) => k <= o
  BY OverlapIs
<1>4. c = Len(x) - o
  OBVIOUS
<1> HIDE DEF c, o
<1>5. c \in 0..Len(x) /\ c + 1 \in 1..(Len(x) + 1)
  BY <1>1, <1>3, <1>4
<1>6. /\ a \in Word /\ Len(a) = c
  BY <1>5, CutIs DEF Word
<1>7. From(x, c + 1) \in Word /\ Len(From(x, c + 1)) = o
  <2>1. From(x, c + 1) \in Word /\ Len(From(x, c + 1)) = Len(x) - (c + 1) + 1
    BY <1>5, FromIs DEF Word
  <2> QED BY <1>1, <1>3, <1>4, <2>1
<1>8. w \in Word /\ Len(w) = o + Len(y)
  <2>1. w \in Word /\ Len(w) = Len(From(x, c + 1)) + Len(y)
    BY <1>7, Joined
  <2> QED BY <1>7, <2>1
<1>9. xy = a \o w
  BY <1>5, CutMoved
<1> HIDE DEF a, w, xy
<1>10. ASSUME NEW k \in 1..c PROVE ~Occurs(xy, tag, k)
  <2> SUFFICES ASSUME Occurs(xy, tag, k) PROVE FALSE
    OBVIOUS
  <2>1. CASE k + Len(tag) - 1 <= Len(x)
    <3>1. ASSUME NEW i \in 1..Len(tag) PROVE x[k + i - 1] = tag[i]
      <4>1. k + i - 1 \in 1..(Len(x) + Len(y)) /\ k + i - 1 <= Len(x)
        BY <1>1, <1>5, <2>1
      <4>2. xy[k + i - 1] = tag[i]
        BY DEF Occurs
      <4> QED BY <1>2, <4>1, <4>2
    <3>2. Occurs(x, tag, k) /\ k \in 1..Len(x)
      BY <1>1, <1>5, <2>1, <3>1 DEF Occurs
    <3> QED BY <3>2, FindIs
  <2>2. CASE ~(k + Len(tag) - 1 <= Len(x))
    <3> DEFINE m == Len(x) - k + 1
    <3>1. m \in 1..(Len(tag) - 1) /\ ~(m <= o) /\ m <= Len(x)
      BY <1>1, <1>3, <1>4, <1>5, <2>2
    <3>2. ASSUME NEW i \in 1..m PROVE x[Len(x) - m + i] = tag[i]
      <4>1. /\ Len(x) - m + i = k + i - 1 /\ k + i - 1 \in 1..(Len(x) + Len(y))
            /\ k + i - 1 <= Len(x) /\ i \in 1..Len(tag)
        BY <1>1, <1>5, <3>1
      <4>2. xy[k + i - 1] = tag[i]
        BY <4>1 DEF Occurs
      <4> QED BY <1>2, <4>1, <4>2
    <3> HIDE DEF m
    <3>3. EndsWith(x, tag, m)
      BY <3>1, <3>2 DEF EndsWith
    <3> QED BY <1>3, <3>1, <3>3
  <2> QED BY <2>1, <2>2
<1>11. ASSUME NEW m \in (Len(w) + 1)..(Len(tag) - 1) PROVE ~EndsWith(xy, tag, m)
  <2> SUFFICES ASSUME EndsWith(xy, tag, m) PROVE FALSE
    OBVIOUS
  <2> DEFINE j == m - Len(y)
  <2>1. m <= Len(xy)
    BY DEF EndsWith
  <2>2. j \in 1..(Len(tag) - 1) /\ ~(j <= o) /\ j <= Len(x)
    BY <1>1, <1>2, <1>3, <1>8, <2>1
  <2>3. ASSUME NEW i \in 1..j PROVE x[Len(x) - j + i] = tag[i]
    <3>1. /\ Len(x) - j + i = Len(xy) - m + i /\ Len(xy) - m + i \in 1..(Len(x) + Len(y))
          /\ Len(xy) - m + i <= Len(x) /\ i \in 1..m
      BY <1>1, <1>2, <2>1, <2>2
    <3>2. xy[Len(xy) - m + i] = tag[i]
      BY <3>1 DEF EndsWith
    <3> QED BY <1>2, <3>1, <3>2
  <2> HIDE DEF j
  <2>4. EndsWith(x, tag, j)
    BY <2>2, <2>3 DEF EndsWith
  <2> QED BY <1>3, <2>2, <2>4
<1>12. Find(a \o w, tag) = IF Find(w, tag) = 0 THEN 0 ELSE c + Find(w, tag)
  BY <1>6, <1>8, <1>9, <1>10, FindBehind
<1>13. OverlapSuffixLen(a \o w, tag) = OverlapSuffixLen(w, tag)
  BY <1>6, <1>8, <1>9, <1>11, OverlapBehind
<1> QED BY <1>5, <1>8, <1>9, <1>12, <1>13 DEF a, c, w, xy

----------------------------------------------------------------------------
(* think.go on plain texts *)

\* The states of a splitter, and what a push returns.
Splitter == [state : {"detecting", "inside", "afterClose", "passthrough"}, buf : Str]

Pushes == [filter : Splitter, reason : Str, content : Str]

\* A push on plain texts: where it leaves the splitter and what it lets through.
Split(state, buf, reason, content) ==
    [state |-> state, buf |-> buf, reason |-> reason, content |-> content]

\* The characters of a push.
Plain(p) == Split(p.filter.state, Chars(p.filter.buf), Chars(p.reason), Chars(p.content))

\* What a splitter that is inside the thought, or still detecting, makes of the text x.
PlainInside(x) ==
    LET i == Find(x, CloseTag)
        rest == TrimLeft(From(x, i + Len(CloseTag)))
        cut == Len(x) - OverlapSuffixLen(x, CloseTag)
    IN IF i = 0 THEN Split("inside", From(x, cut + 1), SubSeq(x, 1, cut), <<>>)
       ELSE Split(IF rest = <<>> THEN "afterClose" ELSE "passthrough",
                  <<>>, SubSeq(x, 1, i - 1), rest)

PlainDetecting(x) ==
    LET t == TrimLeft(x)
    IN IF IsPrefix(OpenTag, t) THEN PlainInside(From(t, Len(OpenTag) + 1))
       ELSE IF IsPrefix(t, OpenTag) THEN Split("detecting", x, <<>>, <<>>)
       ELSE Split("passthrough", <<>>, <<>>, x)

\* Tags are texts of more than one character.
LEMMA TagsAre ==
    /\ OpenTag \in Word /\ Len(OpenTag) \in Nat /\ Len(OpenTag) > 1
    /\ CloseTag \in Word /\ Len(CloseTag) \in Nat /\ Len(CloseTag) > 1 /\ Len(CloseTag) > 0
BY TextAssumption DEF Word

\* The empty text.
LEMMA NoCharacters ==
    /\ <<>> \in Str /\ Chars(<<>>) = <<>> /\ <<>> \in Word
    /\ \A s \in Str : Chars(s) = <<>> <=> s = <<>>
<1>1. <<>> \in Str /\ <<>> \in Word
  BY DEF Str, Word
<1>2. ASSUME NEW s \in Str PROVE Chars(s) = <<>> <=> s = <<>>
  <2>1. Chars(s) \in Word /\ Len(Chars(s)) = Len(s)
    BY CharsIs
  <2>2. Chars(s) = <<>> <=> Len(Chars(s)) = 0
    BY <2>1, EmptySeq DEF Word
  <2>3. s = <<>> <=> Len(s) = 0
    BY EmptySeq DEF Str
  <2> QED BY <2>1, <2>2, <2>3
<1> QED BY <1>1, <1>2

LEMMA StrJoined ==
    ASSUME NEW s \in Str, NEW t \in Str
    PROVE  s \o t \in Str /\ Len(s \o t) = Len(s) + Len(t)
BY ConcatProperties DEF Str

\* A push without its pieces.
LEMMA PlainIs ==
    ASSUME NEW state \in {"detecting", "inside", "afterClose", "passthrough"},
           NEW buf \in Str, NEW reason \in Str, NEW content \in Str
    PROVE  /\ Pushed(state, buf, reason, content) \in Pushes
           /\ Plain(Pushed(state, buf, reason, content)) =
                Split(state, Chars(buf), Chars(reason), Chars(content))
BY DEF Pushed, Pushes, Splitter, Plain, Split

\* What a found tag leaves on its two sides.
LEMMA BehindTag ==
    ASSUME NEW x \in Word, NEW tag \in Word, Len(tag) > 0, Find(x, tag) # 0
    PROVE  /\ Find(x, tag) \in 1..Len(x)
           /\ Find(x, tag) - 1 \in 0..Len(x)
           /\ Find(x, tag) + Len(tag) \in 1..(Len(x) + 1)
<1>1. Len(x) \in Nat /\ Len(tag) \in Nat
  BY DEF Word
<1>2. Find(x, tag) \in 0..Len(x) /\ Occurs(x, tag, Find(x, tag))
  BY FindIs
<1>3. Find(x, tag) + Len(tag) - 1 <= Len(x)
  BY <1>2 DEF Occurs
<1> QED BY <1>1, <1>2, <1>3

\* feedInside and feedDetecting do not look at pieces.
LEMMA FeedInsideIs ==
    ASSUME NEW h \in Str, NEW s \in Str
    PROVE  /\ FeedInside(h, s) \in Pushes
           /\ Plain(FeedInside(h, s)) = PlainInside(Chars(h) \o Chars(s))
<1> DEFINE b == h \o s
           x == Chars(b)
           i == Find(x, CloseTag)
           r == TrimPieces(From(b, i + Len(CloseTag)))
           cut == Len(b) - OverlapSuffixLen(x, CloseTag)
<1>1. b \in Str /\ x = Chars(h) \o Chars(s)
  BY StrJoined, CharsConcat
<1> SUFFICES FeedInside(h, s) \in Pushes /\ Plain(FeedInside(h, s)) = PlainInside(x)
  BY <1>1
<1>2. FeedInside(h, s) = IF i = 0 THEN Pushed("inside", From(b, cut + 1), SubSeq(b, 1, cut), <<>>)
                         ELSE Pushed(IF r = <<>> THEN "afterClose" ELSE "passthrough",
                                     <<>>, SubSeq(b, 1, i - 1), r)
  BY DEF FeedInside
<1> HIDE DEF b
<1>3. x \in Word /\ Len(x) = Len(b) /\ Len(b) \in Nat
  <2>1. Len(b) \in Nat
    BY <1>1 DEF Str
  <2> QED BY <1>1, <2>1, CharsIs
<1> HIDE DEF x
<1>4. CASE i = 0
  <2>1. cut \in 0..Len(b) /\ cut + 1 \in 1..(Len(b) + 1)
    <3>1. OverlapSuffixLen(x, CloseTag) \in 0..(Len(CloseTag) - 1) /\ OverlapSuffixLen(x, CloseTag) <= Len(x)
      BY <1>3, TagsAre, OverlapIs
    <3> QED BY <1>3, <3>1, TagsAre
  <2>2. cut = Len(x) - OverlapSuffixLen(x, CloseTag)
    BY <1>3
  <2>3. PlainInside(x) = Split("inside", From(x, cut + 1), SubSeq(x, 1, cut), <<>>)
    BY <1>4, <2>2 DEF PlainInside
  <2> HIDE DEF cut, i
  <2>4. From(b, cut + 1) \in Str /\ Chars(From(b, cut + 1)) = From(x, cut + 1)
    BY <1>1, <2>1, CharsFrom DEF x
  <2>5. SubSeq(b, 1, cut) \in Str /\ Chars(SubSeq(b, 1, cut)) = SubSeq(x, 1, cut)
    BY <1>1, <2>1, CharsCut DEF x
  <2> DEFINE f == From(b, cut + 1)
             g == SubSeq(b, 1, cut)
  <2>6. FeedInside(h, s) = Pushed("inside", f, g, <<>>)
    BY <1>2, <1>4
  <2> HIDE DEF f, g
  <2>7. FeedInside(h, s) \in Pushes
        /\ Plain(FeedInside(h, s)) = Split("inside", Chars(f), Chars(g), Chars(<<>>))
    BY <2>4, <2>5, <2>6, NoCharacters, PlainIs DEF f, g
  <2> QED BY <2>3, <2>4, <2>5, <2>7, NoCharacters DEF f, g
<1>5. CASE i # 0
  <2> DEFINE q == TrimLeft(From(x, i + Len(CloseTag)))
  <2>1. PlainInside(x) = Split(IF q = <<>> THEN "afterClose" ELSE "passthrough",
                               <<>>, SubSeq(x, 1, i - 1), q)
    BY <1>5 DEF PlainInside
  <2>2. i - 1 \in 0..Len(b) /\ i + Len(CloseTag) \in 1..(Len(b) + 1)
    BY <1>3, <1>5, TagsAre, BehindTag
  <2> HIDE DEF i
  <2>3. From(b, i + Len(CloseTag)) \in Str /\ Chars(From(b, i + Len(CloseTag))) = From(x, i + Len(CloseTag))
    BY <1>1, <2>2, CharsFrom DEF x
  <2>4. r \in Str /\ Chars(r) = q
    BY <2>3, TrimPiecesIs
  <2>5. SubSeq(b, 1, i - 1) \in Str /\ Chars(SubSeq(b, 1, i - 1)) = SubSeq(x, 1, i - 1)
    BY <1>1, <2>2, CharsCut DEF x
  <2>6. r = <<>> <=> q = <<>>
    BY <2>4, NoCharacters
  <2> DEFINE g == SubSeq(b, 1, i - 1)
             state == IF r = <<>> THEN "afterClose" ELSE "passthrough"
  <2>7. FeedInside(h, s) = Pushed(state, <<>>, g, r)
    BY <1>2, <1>5
  <2>8. state \in {"detecting", "inside", "afterClose", "passthrough"}
    OBVIOUS
  <2>9. PlainInside(x) = Split(state, <<>>, SubSeq(x, 1, i - 1), q)
    BY <2>1, <2>6
  <2> HIDE DEF r, q, g, state
  <2>10. FeedInside(h, s) \in Pushes
         /\ Plain(FeedInside(h, s)) = Split(state, Chars(<<>>), Chars(g), Chars(r))
    BY <2>4, <2>5, <2>7, <2>8, NoCharacters, PlainIs DEF g
  <2> QED BY <2>4, <2>5, <2>9, <2>10, NoCharacters DEF g
<1> QED BY <1>4, <1>5

LEMMA FeedDetectingIs ==
    ASSUME NEW h \in Str, NEW s \in Str
    PROVE  /\ FeedDetecting(h, s) \in Pushes
           /\ Plain(FeedDetecting(h, s)) = PlainDetecting(Chars(h) \o Chars(s))
<1> DEFINE b == h \o s
           x == Chars(b)
           t == TrimPieces(b)
           w == TrimLeft(x)
<1>1. b \in Str /\ x = Chars(h) \o Chars(s)
  BY StrJoined, CharsConcat
<1> SUFFICES FeedDetecting(h, s) \in Pushes /\ Plain(FeedDetecting(h, s)) = PlainDetecting(x)
  BY <1>1
<1>2. t \in Str /\ Chars(t) = w
  BY <1>1, TrimPiecesIs
<1>3. FeedDetecting(h, s) = IF IsPrefix(OpenTag, w)
                            THEN FeedInside(<<>>, From(t, Len(OpenTag) + 1))
                            ELSE IF IsPrefix(w, OpenTag) THEN Pushed("detecting", b, <<>>, <<>>)
                            ELSE Pushed("passthrough", <<>>, <<>>, b)
  BY <1>2 DEF FeedDetecting
<1>4. PlainDetecting(x) = IF IsPrefix(OpenTag, w) THEN PlainInside(From(w, Len(OpenTag) + 1))
                          ELSE IF IsPrefix(w, OpenTag) THEN Split("detecting", x, <<>>, <<>>)
                          ELSE Split("passthrough", <<>>, <<>>, x)
  BY DEF PlainDetecting
<1>5. w \in Word /\ Len(w) = Len(t)
  BY <1>2, CharsIs
<1> HIDE DEF b, t, w
<1>6. CASE IsPrefix(OpenTag, w)
  <2>1. Len(OpenTag) <= Len(w)
    BY <1>5, <1>6, TagsAre, PrefixIs
  <2>2. Len(OpenTag) + 1 \in 1..(Len(t) + 1)
    BY <1>2, <1>5, <2>1, TagsAre DEF Str
  <2> DEFINE f == From(t, Len(OpenTag) + 1)
             g == From(w, Len(OpenTag) + 1)
  <2>3. f \in Str /\ Chars(f) = g
    BY <1>2, <2>2, CharsFrom
  <2>4. FeedDetecting(h, s) = FeedInside(<<>>, f) /\ PlainDetecting(x) = PlainInside(g)
    BY <1>3, <1>4, <1>6
  <2> HIDE DEF f, g
  <2>5. g \in Word /\ Chars(<<>>) \o Chars(f) = g
    BY <2>3, CharsIs, NoCharacters, JoinedNothing
  <2>6. FeedInside(<<>>, f) \in Pushes /\ Plain(FeedInside(<<>>, f)) = PlainInside(Chars(<<>>) \o Chars(f))
    BY <2>3, NoCharacters, FeedInsideIs
  <2> QED BY <2>4, <2>5, <2>6
<1>7. CASE ~IsPrefix(OpenTag, w) /\ IsPrefix(w, OpenTag)
  <2>1. FeedDetecting(h, s) = Pushed("detecting", b, <<>>, <<>>)
    BY <1>3, <1>7
  <2>2. Plain(Pushed("detecting", b, <<>>, <<>>)) = Split("detecting", Chars(b), Chars(<<>>), Chars(<<>>))
        /\ Pushed("detecting", b, <<>>, <<>>) \in Pushes
    BY ZenonT(60), <1>1, PlainIs, NoCharacters
  <2> QED BY <1>4, <1>7, <2>1, <2>2, NoCharacters
<1>8. CASE ~IsPrefix(OpenTag, w) /\ ~IsPrefix(w, OpenTag)
  <2>1. FeedDetecting(h, s) = Pushed("passthrough", <<>>, <<>>, b)
    BY <1>3, <1>8
  <2>2. Plain(Pushed("passthrough", <<>>, <<>>, b)) = Split("passthrough", Chars(<<>>), Chars(<<>>), Chars(b))
        /\ Pushed("passthrough", <<>>, <<>>, b) \in Pushes
    BY ZenonT(60), <1>1, PlainIs, NoCharacters
  <2> QED BY <1>4, <1>8, <2>1, <2>2, NoCharacters
<1> QED BY <1>6, <1>7, <1>8

\* A text in a thought that grows by y: the search for the closing tag goes on where it was,
\* with what was held back.
LEMMA InsideGoesOn ==
    ASSUME NEW z \in Word, NEW y \in Word, Find(z, CloseTag) = 0
    PROVE  LET d == PlainInside(z)
               e == PlainInside(d.buf \o y)
           IN /\ d.state = "inside" /\ d.content = <<>>
              /\ d.buf \in Word /\ d.reason \in Word /\ d.reason \o d.buf = z
              /\ PlainInside(z \o y) = Split(e.state, e.buf, d.reason \o e.reason, e.content)
<1> DEFINE c == Len(z) - OverlapSuffixLen(z, CloseTag)
           a == SubSeq(z, 1, c)
           b == From(z, c + 1)
           w == b \o y
           zy == z \o y
           f == Find(w, CloseTag)
<1>1. PlainInside(z) = Split("inside", b, a, <<>>)
  BY DEF PlainInside
<1>2. /\ c \in 0..Len(z) /\ w \in Word /\ zy = a \o w
      /\ Find(zy, CloseTag) = IF f = 0 THEN 0 ELSE c + f
      /\ OverlapSuffixLen(zy, CloseTag) = OverlapSuffixLen(w, CloseTag)
  <2>1. CloseTag \in Word /\ Len(CloseTag) > 0
    BY TagsAre
  <2> QED BY <2>1, SearchGoesOn, Zenon
<1>3. a \in Word /\ Len(a) = c /\ b \in Word /\ a \o b = z
  <2>1. c + 1 \in 1..(Len(z) + 1)
    BY <1>2 DEF Word
  <2>2. b \in Word
    BY <2>1, FromIs DEF Word
  <2>3. a \in Word /\ Len(a) = c
    BY <1>2, CutIs DEF Word
  <2>4. a \o b = z
    BY <1>2, CutAndRest DEF Word
  <2> QED BY <2>2, <2>3, <2>4
<1>4. zy \in Word /\ Len(zy) = c + Len(w) /\ Len(w) \in Nat /\ c \in Nat
  <2>1. zy \in Word /\ Len(zy) = Len(a) + Len(w)
    BY <1>2, <1>3, Joined
  <2>2. Len(w) \in Nat /\ Len(z) \in Nat
    BY <1>2 DEF Word
  <2> QED BY <1>2, <1>3, <2>1, <2>2
<1> HIDE DEF a, b, c, w, zy, f
<1>5. a \in Word /\ w \in Word
  BY <1>2, <1>3
<1>6. PlainInside(zy) = Split(PlainInside(w).state, PlainInside(w).buf,
                              a \o PlainInside(w).reason, PlainInside(w).content)
  <2>1. CASE f = 0
    <3> DEFINE o == OverlapSuffixLen(w, CloseTag)
               k == Len(w) - o
    <3>1. PlainInside(w) = Split("inside", From(w, k + 1), SubSeq(w, 1, k), <<>>)
      BY <2>1 DEF PlainInside, f
    <3>2. PlainInside(zy) = Split("inside", From(zy, Len(zy) - o + 1), SubSeq(zy, 1, Len(zy) - o), <<>>)
      BY <1>2, <2>1 DEF PlainInside
    <3>3. o \in 0..(Len(CloseTag) - 1) /\ o <= Len(w)
      BY <1>2, TagsAre, OverlapIs
    <3> HIDE DEF o
    <3>4. /\ k \in 0..Len(w) /\ k + 1 \in 1..(Len(w) + 1) /\ Len(zy) - o = c + k
          /\ Len(zy) - o + 1 = c + (k + 1)
      BY <1>4, <3>3, TagsAre
    <3> HIDE DEF k
    <3>5. From(a \o w, Len(a) + (k + 1)) = From(w, k + 1)
      BY <1>5, <3>4, FromBehind
    <3>6. SubSeq(a \o w, 1, Len(a) + k) = a \o SubSeq(w, 1, k)
      BY <1>5, <3>4, CutBehind
    <3>7. PlainInside(zy) = Split("inside", From(w, k + 1), a \o SubSeq(w, 1, k), <<>>)
      BY <1>2, <1>3, <3>2, <3>4, <3>5, <3>6
    <3> QED BY <3>1, <3>7 DEF Split
  <2>2. CASE f # 0
    <3> DEFINE q == TrimLeft(From(w, f + Len(CloseTag)))
               state == IF q = <<>> THEN "afterClose" ELSE "passthrough"
    <3>1. PlainInside(w) = Split(state, <<>>, SubSeq(w, 1, f - 1), q)
      BY <2>2 DEF PlainInside, f
    <3>2. /\ f - 1 \in 0..Len(w) /\ f + Len(CloseTag) \in 1..(Len(w) + 1) /\ f \in 1..Len(w)
      BY <1>2, <2>2, TagsAre, BehindTag DEF f
    <3> DEFINE g == Find(zy, CloseTag)
    <3>3. g # 0 /\ g + Len(CloseTag) = Len(a) + (f + Len(CloseTag)) /\ g - 1 = Len(a) + (f - 1)
      <4>1. g = c + f /\ c + f # 0
        BY <1>2, <1>4, <2>2, <3>2
      <4> HIDE DEF g
      <4> QED BY <1>3, <1>4, <3>2, <4>1, TagsAre
    <3>4. PlainInside(zy) = Split(IF TrimLeft(From(zy, g + Len(CloseTag))) = <<>>
                                  THEN "afterClose" ELSE "passthrough",
                                  <<>>, SubSeq(zy, 1, g - 1),
                                  TrimLeft(From(zy, g + Len(CloseTag))))
      BY <3>3 DEF PlainInside
    <3> HIDE DEF g
    <3>5. From(a \o w, Len(a) + (f + Len(CloseTag))) = From(w, f + Len(CloseTag))
      BY <1>5, <3>2, FromBehind
    <3>6. SubSeq(a \o w, 1, Len(a) + (f - 1)) = a \o SubSeq(w, 1, f - 1)
      BY <1>5, <3>2, CutBehind
    <3>7. PlainInside(zy) = Split(state, <<>>, a \o SubSeq(w, 1, f - 1), q)
      BY <1>2, <3>3, <3>4, <3>5, <3>6
    <3> QED BY <3>1, <3>7 DEF Split
  <2> QED BY <2>1, <2>2
<1>7. /\ PlainInside(z).state = "inside" /\ PlainInside(z).content = <<>>
      /\ PlainInside(z).buf = b /\ PlainInside(z).reason = a
  BY <1>1 DEF Split
<1> QED BY <1>3, <1>6, <1>7 DEF w, zy

\* After the closing tag: the thought stays what it is and what comes is text, from its
\* first character that is no blank.
LEMMA ClosedGoesOn ==
    ASSUME NEW z \in Word, NEW y \in Word, Find(z, CloseTag) # 0
    PROVE  LET d == PlainInside(z) IN
           /\ d.state \in {"afterClose", "passthrough"} /\ d.buf = <<>>
           /\ d.reason \in Word /\ d.content \in Word
           /\ d.state = "afterClose" <=> d.content = <<>>
           /\ d.state = "afterClose" =>
                PlainInside(z \o y) = Split(IF TrimLeft(y) = <<>> THEN "afterClose" ELSE "passthrough",
                                            <<>>, d.reason, TrimLeft(y))
           /\ d.state = "passthrough" =>
                PlainInside(z \o y) = Split("passthrough", <<>>, d.reason, d.content \o y)
<1> DEFINE i == Find(z, CloseTag)
           k == i + Len(CloseTag)
           a == SubSeq(z, 1, i - 1)
           q == From(z, k)
           zy == z \o y
<1>1. i # 0 /\ i - 1 \in 0..Len(z) /\ k \in 1..(Len(z) + 1)
  BY TagsAre, BehindTag
<1>2. Find(zy, CloseTag) = i
  BY TagsAre, FoundGrown
<1>3. PlainInside(z) = Split(IF TrimLeft(q) = <<>> THEN "afterClose" ELSE "passthrough",
                             <<>>, a, TrimLeft(q))
  BY DEF PlainInside
<1>4. PlainInside(zy) = Split(IF TrimLeft(From(zy, k)) = <<>> THEN "afterClose" ELSE "passthrough",
                              <<>>, SubSeq(zy, 1, i - 1), TrimLeft(From(zy, k)))
  BY <1>2 DEF PlainInside
<1> HIDE DEF i, k
<1>5. From(zy, k) = q \o y
  BY <1>1, FromGrown DEF Word
<1>6. SubSeq(zy, 1, i - 1) = a
  BY <1>1, CutGrown DEF Word
<1>7. q \in Word /\ a \in Word
  BY <1>1, FromIs, CutIs DEF Word
<1> HIDE DEF q, a, zy
<1>8. TrimLeft(q \o y) = IF TrimLeft(q) = <<>> THEN TrimLeft(y) ELSE TrimLeft(q) \o y
  BY <1>7, TrimGrown
<1>9. TrimLeft(q) \in Word
  BY <1>7, TrimLeftIs
<1>10. ASSUME TrimLeft(q) # <<>> PROVE TrimLeft(q) \o y # <<>>
  <2>1. Len(TrimLeft(q) \o y) = Len(TrimLeft(q)) + Len(y)
    BY <1>9, Joined
  <2>2. Len(TrimLeft(q)) \in Nat /\ Len(TrimLeft(q)) # 0 /\ Len(y) \in Nat
    BY <1>9, <1>10, EmptySeq DEF Word
  <2> QED BY <2>1, <2>2
<1>11. CASE TrimLeft(q) = <<>>
  <2>1. PlainInside(z) = Split("afterClose", <<>>, a, <<>>)
    BY <1>3, <1>11
  <2>2. PlainInside(zy) = Split(IF TrimLeft(y) = <<>> THEN "afterClose" ELSE "passthrough",
                                <<>>, a, TrimLeft(y))
    BY <1>4, <1>5, <1>6, <1>8, <1>11
  <2>3. <<>> \in Word
    BY NoCharacters
  <2> QED BY <1>7, <2>1, <2>2, <2>3 DEF Split, zy
<1>12. CASE TrimLeft(q) # <<>>
  <2>1. PlainInside(z) = Split("passthrough", <<>>, a, TrimLeft(q))
    BY <1>3, <1>12
  <2>2. PlainInside(zy) = Split("passthrough", <<>>, a, TrimLeft(q) \o y)
    BY <1>4, <1>5, <1>6, <1>8, <1>10, <1>12
  <2> QED BY <1>7, <1>9, <1>12, <2>1, <2>2 DEF Split, zy
<1> QED BY <1>11, <1>12

\* An opening tag at the beginning of the text stays there.
LEMMA OpenedGoesOn ==
    ASSUME NEW x \in Word, NEW y \in Word, IsPrefix(OpenTag, TrimLeft(x))
    PROVE  LET z == From(TrimLeft(x), Len(OpenTag) + 1) IN
           /\ z \in Word
           /\ PlainDetecting(x) = PlainInside(z)
           /\ PlainDetecting(x \o y) = PlainInside(z \o y)
<1> DEFINE w == TrimLeft(x)
           wy == TrimLeft(x \o y)
<1>1. w \in Word
  BY TrimLeftIs
<1>2. Len(OpenTag) <= Len(w) /\ \A i \in 1..Len(OpenTag) : OpenTag[i] = w[i]
  BY <1>1, TagsAre, PrefixIs
<1>3. Len(w) \in Nat /\ w # <<>>
  BY <1>1, <1>2, TagsAre, EmptySeq DEF Word
<1>4. wy = w \o y
  BY <1>3, TrimGrown
<1>5. PlainDetecting(x) = PlainInside(From(w, Len(OpenTag) + 1))
  BY DEF PlainDetecting
<1>6. PlainDetecting(x \o y) = IF IsPrefix(OpenTag, wy) THEN PlainInside(From(wy, Len(OpenTag) + 1))
                               ELSE IF IsPrefix(wy, OpenTag) THEN Split("detecting", x \o y, <<>>, <<>>)
                               ELSE Split("passthrough", <<>>, <<>>, x \o y)
  BY DEF PlainDetecting
<1> HIDE DEF w, wy
<1>7. /\ wy \in Word /\ Len(wy) = Len(w) + Len(y)
      /\ \A i \in 1..(Len(w) + Len(y)) : wy[i] = IF i <= Len(w) THEN w[i] ELSE y[i - Len(w)]
  BY <1>1, <1>4, ConcatProperties DEF Word
<1>8. IsPrefix(OpenTag, wy)
  <2>1. Len(y) \in Nat
    BY DEF Word
  <2>2. Len(OpenTag) <= Len(wy)
    BY <1>2, <1>3, <1>7, <2>1, TagsAre
  <2>3. ASSUME NEW i \in 1..Len(OpenTag) PROVE OpenTag[i] = wy[i]
    <3>1. i \in 1..(Len(w) + Len(y)) /\ i <= Len(w)
      BY <1>2, <1>3, <2>1, TagsAre
    <3> QED BY <1>2, <1>7, <3>1
  <2> QED BY <1>7, <2>2, <2>3, TagsAre, PrefixIs
<1>9. Len(OpenTag) + 1 \in 1..(Len(w) + 1)
  BY <1>2, <1>3, TagsAre
<1>10. From(wy, Len(OpenTag) + 1) = From(w, Len(OpenTag) + 1) \o y
  BY <1>1, <1>4, <1>9, FromGrown DEF Word
<1>11. From(w, Len(OpenTag) + 1) \in Word
  BY <1>1, <1>9, FromIs DEF Word
<1> QED BY <1>5, <1>6, <1>8, <1>10, <1>11 DEF w

\* A text that cannot begin with the tag any more never will.
LEMMA UntaggedGoesOn ==
    ASSUME NEW x \in Word, NEW y \in Word,
           ~IsPrefix(OpenTag, TrimLeft(x)), ~IsPrefix(TrimLeft(x), OpenTag)
    PROVE  /\ PlainDetecting(x) = Split("passthrough", <<>>, <<>>, x)
           /\ PlainDetecting(x \o y) = Split("passthrough", <<>>, <<>>, x \o y)
<1> DEFINE w == TrimLeft(x)
           wy == TrimLeft(x \o y)
           L == Len(OpenTag)
<1>1. w \in Word /\ Len(w) \in Nat /\ Len(y) \in Nat
  BY TrimLeftIs DEF Word
<1>2. w # <<>>
  <2> SUFFICES ASSUME w = <<>> PROVE FALSE
    OBVIOUS
  <2>1. Len(w) = 0
    OBVIOUS
  <2>2. IsPrefix(w, OpenTag)
    BY <1>1, <2>1, TagsAre, PrefixIs
  <2> QED BY <2>2
<1>3. wy = w \o y
  BY <1>2, TrimGrown
<1>4. PlainDetecting(x) = Split("passthrough", <<>>, <<>>, x)
  BY DEF PlainDetecting
<1>5. PlainDetecting(x \o y) = IF IsPrefix(OpenTag, wy) THEN PlainInside(From(wy, L + 1))
                               ELSE IF IsPrefix(wy, OpenTag) THEN Split("detecting", x \o y, <<>>, <<>>)
                               ELSE Split("passthrough", <<>>, <<>>, x \o y)
  BY DEF PlainDetecting
<1>6. ~IsPrefix(OpenTag, w) /\ ~IsPrefix(w, OpenTag)
  OBVIOUS
<1> HIDE DEF w, wy
<1>7. /\ wy \in Word /\ Len(wy) = Len(w) + Len(y)
      /\ \A i \in 1..(Len(w) + Len(y)) : wy[i] = IF i <= Len(w) THEN w[i] ELSE y[i - Len(w)]
  BY <1>1, <1>3, ConcatProperties DEF Word
<1>8. L \in Nat /\ \A i \in 1..Len(w) : wy[i] = w[i]
  BY <1>1, <1>7, TagsAre
<1> HIDE DEF L
<1>9. ~IsPrefix(wy, OpenTag)
  <2> SUFFICES ASSUME IsPrefix(wy, OpenTag) PROVE FALSE
    OBVIOUS
  <2>1. Len(wy) <= L /\ \A i \in 1..Len(wy) : wy[i] = OpenTag[i]
    BY <1>7, TagsAre, PrefixIs DEF L
  <2>2. Len(w) <= L /\ \A i \in 1..Len(w) : w[i] = OpenTag[i]
    BY <1>1, <1>7, <1>8, <2>1
  <2> QED BY <1>1, <1>6, <2>2, TagsAre, PrefixIs DEF L
<1>10. ~IsPrefix(OpenTag, wy)
  <2> SUFFICES ASSUME IsPrefix(OpenTag, wy) PROVE FALSE
    OBVIOUS
  <2>1. L <= Len(wy) /\ \A i \in 1..L : OpenTag[i] = wy[i]
    BY <1>7, TagsAre, PrefixIs DEF L
  <2>2. CASE L <= Len(w)
    <3>1. \A i \in 1..L : OpenTag[i] = w[i]
      BY <1>1, <1>8, <2>1, <2>2
    <3> QED BY <1>1, <1>6, <2>2, <3>1, TagsAre, PrefixIs DEF L
  <2>3. CASE ~(L <= Len(w))
    <3>1. Len(w) <= L /\ \A i \in 1..Len(w) : w[i] = OpenTag[i]
      BY <1>1, <1>8, <2>1, <2>3
    <3> QED BY <1>1, <1>6, <3>1, TagsAre, PrefixIs DEF L
  <2> QED BY <2>2, <2>3
<1> QED BY <1>4, <1>5, <1>9, <1>10

----------------------------------------------------------------------------
(* thinkSplitter and its whole text *)

\* A splitter f that has let through reason and content stands where it would stand if it
\* had been given the text x in one piece.  The blanks after the closing tag are the
\* exception: they stay in the buffer, and are dropped when something follows.
Follows(f, reason, content, x) ==
    LET d == PlainDetecting(x) IN
    /\ f \in Splitter
    /\ reason \in Word
    /\ content \in Word
    /\ f.state = d.state
    /\ reason = d.reason
    /\ content = d.content
    /\ IF d.state = "afterClose" THEN TrimLeft(Chars(f.buf)) = <<>> ELSE Chars(f.buf) = d.buf

\* The parts of a push.
LEMMA SplitIs ==
    ASSUME NEW a, NEW b, NEW c, NEW d
    PROVE  /\ Split(a, b, c, d).state = a /\ Split(a, b, c, d).buf = b
           /\ Split(a, b, c, d).reason = c /\ Split(a, b, c, d).content = d
BY DEF Split

LEMMA PushesAre ==
    ASSUME NEW p \in Pushes
    PROVE  /\ p.filter \in Splitter /\ p.filter.buf \in Str
           /\ Chars(p.reason) \in Word /\ Chars(p.content) \in Word
           /\ Plain(p).state = p.filter.state /\ Plain(p).buf = Chars(p.filter.buf)
           /\ Plain(p).reason = Chars(p.reason) /\ Plain(p).content = Chars(p.content)
<1>1. /\ p.filter \in Splitter /\ p.filter.buf \in Str /\ p.reason \in Str /\ p.content \in Str
  BY DEF Pushes, Splitter
<1>2. Chars(p.reason) \in Word /\ Chars(p.content) \in Word
  BY <1>1, CharsIs
<1> QED BY <1>1, <1>2 DEF Plain, Split

\* One push of a piece: where the splitter stood with the text before, it stands with the
\* text that has grown by the piece.
LEMMA PushFollows ==
    ASSUME NEW f, NEW reason, NEW content, NEW x \in Word, NEW s \in Str,
           Follows(f, reason, content, x)
    PROVE  LET p == ThinkPush(f, s) IN
           /\ p \in Pushes
           /\ Follows(p.filter, reason \o Chars(p.reason), content \o Chars(p.content),
                      x \o Chars(s))
<1> DEFINE y == Chars(s)
           d == PlainDetecting(x)
           e == PlainDetecting(x \o y)
           w == TrimLeft(x)
           z == From(w, Len(OpenTag) + 1)
           p == ThinkPush(f, s)
<1>1. y \in Word /\ w \in Word
  BY CharsIs, TrimLeftIs
<1>2. f \in Splitter /\ f.buf \in Str /\ f.state \in {"detecting", "inside", "afterClose", "passthrough"}
  BY DEF Follows, Splitter
<1>3. /\ f.state = d.state /\ reason = d.reason /\ content = d.content
      /\ reason \in Word /\ content \in Word
      /\ d.state = "afterClose" => TrimLeft(Chars(f.buf)) = <<>>
      /\ d.state # "afterClose" => Chars(f.buf) = d.buf
  BY DEF Follows
<1>4. SUFFICES /\ p \in Pushes
               /\ e.state = p.filter.state
               /\ e.reason = reason \o Chars(p.reason)
               /\ e.content = content \o Chars(p.content)
               /\ p.filter.state = "afterClose" => TrimLeft(Chars(p.filter.buf)) = <<>>
               /\ p.filter.state # "afterClose" => Chars(p.filter.buf) = e.buf
  <2>1. p.filter \in Splitter /\ Chars(p.reason) \in Word /\ Chars(p.content) \in Word
    BY <1>4, PushesAre
  <2>2. reason \o Chars(p.reason) \in Word /\ content \o Chars(p.content) \in Word
    BY <1>3, <2>1, Joined
  <2> QED BY <1>4, <2>1, <2>2 DEF Follows
<1>5. CASE IsPrefix(OpenTag, w)
  <2>1. z \in Word /\ d = PlainInside(z) /\ e = PlainInside(z \o y)
    BY <1>1, <1>5, OpenedGoesOn
  <2>2. CASE Find(z, CloseTag) = 0
    <3> DEFINE g == PlainInside(d.buf \o y)
    <3>1. /\ d.state = "inside" /\ d.content = <<>> /\ d.reason \in Word
          /\ e = Split(g.state, g.buf, d.reason \o g.reason, g.content)
      BY <1>1, <2>1, <2>2, InsideGoesOn
    <3>2. p = FeedInside(f.buf, s)
      BY <1>3, <3>1 DEF ThinkPush
    <3>3. p \in Pushes /\ Plain(p) = g
      <4>1. Chars(f.buf) = d.buf
        BY <1>3, <3>1
      <4> HIDE DEF p, d
      <4> QED BY <1>2, <3>2, <4>1, FeedInsideIs
    <3> HIDE DEF p, e, d, g
    <3>4. /\ g.state = p.filter.state /\ g.buf = Chars(p.filter.buf)
          /\ g.reason = Chars(p.reason) /\ g.content = Chars(p.content)
          /\ Chars(p.content) \in Word
      BY <3>3, PushesAre
    <3>5. content \o Chars(p.content) = Chars(p.content)
      BY <1>3, <3>1, <3>4, JoinedNothing
    <3>6. e = Split(p.filter.state, Chars(p.filter.buf), reason \o Chars(p.reason), content \o Chars(p.content))
      BY <1>3, <3>1, <3>4, <3>5
    <3>7. p.filter.state = "afterClose" => TrimLeft(Chars(p.filter.buf)) = <<>>
      <4> SUFFICES ASSUME g.state = "afterClose" PROVE TrimLeft(g.buf) = <<>>
        BY <3>4
      <4>1. g.buf = <<>>
        BY DEF g, PlainInside, Split
      <4>2. <<>> \in Word /\ Len(<<>>) = 0
        BY NoCharacters
      <4> QED BY <4>1, <4>2, TrimNothing
    <3>8. /\ e.state = p.filter.state /\ e.buf = Chars(p.filter.buf)
          /\ e.reason = reason \o Chars(p.reason) /\ e.content = content \o Chars(p.content)
      BY <3>6 DEF Split
    <3> QED BY <3>3, <3>7, <3>8
  <2>3. CASE Find(z, CloseTag) # 0
    <3>1. /\ d.state \in {"afterClose", "passthrough"} /\ d.buf = <<>>
          /\ d.state = "afterClose" <=> d.content = <<>>
          /\ d.state = "afterClose" =>
                e = Split(IF TrimLeft(y) = <<>> THEN "afterClose" ELSE "passthrough",
                          <<>>, d.reason, TrimLeft(y))
          /\ d.state = "passthrough" => e = Split("passthrough", <<>>, d.reason, d.content \o y)
      BY <1>1, <2>1, <2>3, ClosedGoesOn
    <3>2. CASE d.state = "afterClose"
      <4> DEFINE b == f.buf \o s
                 t == TrimPieces(b)
      <4>1. p = IF t = <<>> THEN Pushed("afterClose", b, <<>>, <<>>)
                ELSE Pushed("passthrough", <<>>, <<>>, t)
        BY <1>3, <3>2 DEF ThinkPush, FeedAfterClose
      <4>2. b \in Str /\ Chars(b) = Chars(f.buf) \o y
        BY <1>2, StrJoined, CharsConcat
      <4>3. t \in Str /\ Chars(t) = TrimLeft(Chars(b))
        BY <4>2, TrimPiecesIs
      <4>4. TrimLeft(Chars(b)) = TrimLeft(y)
        <5>1. Chars(f.buf) \in Word /\ TrimLeft(Chars(f.buf)) = <<>>
          BY <1>2, <1>3, <3>2, CharsIs
        <5> HIDE DEF y, b
        <5> QED BY <1>1, <4>2, <5>1, TrimGrown
      <4>5. t = <<>> <=> TrimLeft(y) = <<>>
        BY <4>3, <4>4, NoCharacters
      <4>6. content = <<>> /\ reason \o <<>> = reason
        BY <1>3, <3>1, <3>2, JoinedNothing
      <4> HIDE DEF p, e, d, b, t, y
      <4>7. CASE t = <<>>
        <5>1. p = Pushed("afterClose", b, <<>>, <<>>)
          BY <4>1, <4>7
        <5>2. /\ p \in Pushes
              /\ Plain(p) = Split("afterClose", Chars(b), <<>>, <<>>)
          <6>1. /\ Pushed("afterClose", b, <<>>, <<>>) \in Pushes
                /\ Plain(Pushed("afterClose", b, <<>>, <<>>)) =
                     Split("afterClose", Chars(b), Chars(<<>>), Chars(<<>>))
            BY <4>2, PlainIs, NoCharacters
          <6> QED BY <5>1, <6>1, NoCharacters
        <5>3. /\ p.filter.state = "afterClose" /\ Chars(p.filter.buf) = Chars(b)
              /\ Chars(p.reason) = <<>> /\ Chars(p.content) = <<>>
          BY <5>2, PushesAre, SplitIs
        <5>4. e = Split("afterClose", <<>>, reason, <<>>)
          BY <1>3, <3>1, <3>2, <4>5, <4>7
        <5>5. content \o <<>> = <<>>
          BY <4>6
        <5>6. TrimLeft(Chars(b)) = <<>>
          BY <4>4, <4>5, <4>7
        <5> QED BY <4>6, <5>2, <5>3, <5>4, <5>5, <5>6, SplitIs
      <4>8. CASE t # <<>>
        <5>1. p = Pushed("passthrough", <<>>, <<>>, t)
          BY <4>1, <4>8
        <5>2. /\ p \in Pushes
              /\ Plain(p) = Split("passthrough", <<>>, <<>>, TrimLeft(y))
          BY <4>3, <4>4, <5>1, PlainIs, NoCharacters
        <5>3. /\ p.filter.state = "passthrough" /\ Chars(p.filter.buf) = <<>>
              /\ Chars(p.reason) = <<>> /\ Chars(p.content) = TrimLeft(y)
          BY <5>2, PushesAre, SplitIs
        <5>4. e = Split("passthrough", <<>>, reason, TrimLeft(y))
          BY <1>3, <3>1, <3>2, <4>5, <4>8
        <5>5. content \o TrimLeft(y) = TrimLeft(y)
          BY <1>1, <4>6, TrimLeftIs, JoinedNothing
        <5> QED BY <4>6, <5>2, <5>3, <5>4, <5>5, SplitIs
      <4> QED BY <4>7, <4>8
    <3>3. CASE d.state = "passthrough"
      <4>1. p = Pushed("passthrough", f.buf, <<>>, s)
        BY <1>3, <3>3 DEF ThinkPush
      <4>2. e = Split("passthrough", <<>>, reason, content \o y)
        BY <1>3, <3>1, <3>3
      <4>3. Chars(f.buf) = <<>> /\ reason \o <<>> = reason
        BY <1>3, <3>1, <3>3, JoinedNothing
      <4> HIDE DEF p, e, d
      <4>4. p \in Pushes /\ Plain(p) = Split("passthrough", <<>>, <<>>, y)
        BY <1>2, <4>1, <4>3, PlainIs, NoCharacters
      <4>5. /\ p.filter.state = "passthrough" /\ Chars(p.filter.buf) = <<>>
            /\ Chars(p.reason) = <<>> /\ Chars(p.content) = y
        BY <4>4, PushesAre, SplitIs
      <4>6. /\ e.state = "passthrough" /\ e.buf = <<>> /\ e.reason = reason
            /\ e.content = content \o y
        BY <4>2 DEF Split
      <4> QED BY <4>3, <4>4, <4>5, <4>6
    <3> QED BY <3>1, <3>2, <3>3
  <2> QED BY <2>2, <2>3
<1>6. CASE ~IsPrefix(OpenTag, w) /\ IsPrefix(w, OpenTag)
  <2>1. d = Split("detecting", x, <<>>, <<>>)
    BY <1>6 DEF PlainDetecting
  <2>2. reason = <<>> /\ content = <<>> /\ f.state = "detecting" /\ Chars(f.buf) = x
    BY <1>3, <2>1, SplitIs
  <2>3. p = FeedDetecting(f.buf, s)
    BY <2>2 DEF ThinkPush
  <2>4. p \in Pushes /\ Plain(p) = e
    <3> HIDE DEF p
    <3> QED BY <1>2, <2>2, <2>3, FeedDetectingIs
  <2> HIDE DEF p, e, d
  <2>5. /\ e.state = p.filter.state /\ e.buf = Chars(p.filter.buf)
        /\ e.reason = Chars(p.reason) /\ e.content = Chars(p.content)
        /\ Chars(p.reason) \in Word /\ Chars(p.content) \in Word
    BY <2>4, PushesAre
  <2>6. reason \o Chars(p.reason) = Chars(p.reason) /\ content \o Chars(p.content) = Chars(p.content)
    BY <2>2, <2>5, JoinedNothing
  <2>7. p.filter.state = "afterClose" => TrimLeft(Chars(p.filter.buf)) = <<>>
    <3> SUFFICES ASSUME e.state = "afterClose" PROVE TrimLeft(e.buf) = <<>>
      BY <2>5
    <3>1. e.buf = <<>>
      BY DEF e, PlainDetecting, PlainInside, Split
    <3> QED BY <3>1, TrimNothing
  <2> QED BY <2>4, <2>5, <2>6, <2>7
<1>7. CASE ~IsPrefix(OpenTag, w) /\ ~IsPrefix(w, OpenTag)
  <2>1. /\ d = Split("passthrough", <<>>, <<>>, x)
        /\ e = Split("passthrough", <<>>, <<>>, x \o y)
    BY <1>1, <1>7, UntaggedGoesOn
  <2>2. reason = <<>> /\ content = x /\ f.state = "passthrough" /\ Chars(f.buf) = <<>>
    BY <1>3, <2>1, SplitIs
  <2>3. p = Pushed("passthrough", f.buf, <<>>, s)
    BY <2>2 DEF ThinkPush
  <2> HIDE DEF p, e, d
  <2>4. p \in Pushes /\ Plain(p) = Split("passthrough", <<>>, <<>>, y)
    BY <1>2, <2>2, <2>3, PlainIs, NoCharacters
  <2>5. /\ p.filter.state = "passthrough" /\ Chars(p.filter.buf) = <<>>
        /\ Chars(p.reason) = <<>> /\ Chars(p.content) = y
    BY <2>4, PushesAre, SplitIs
  <2>6. reason \o <<>> = reason
    BY <2>2, NoCharacters, JoinedNothing
  <2>7. /\ e.state = "passthrough" /\ e.buf = <<>> /\ e.reason = <<>> /\ e.content = x \o y
    BY <2>1 DEF Split
  <2> QED BY <2>2, <2>4, <2>5, <2>6, <2>7
<1> QED BY <1>5, <1>6, <1>7

\* At the end of a text the flush completes what a plain answer with that text is split into.
LEMMA FlushCompletes ==
    ASSUME NEW f, NEW reason, NEW content, NEW x \in Word, Follows(f, reason, content, x)
    PROVE  LET rest == ThinkFlush(f)
               plain == SplitInlineThink(x)
           IN /\ TrimSpace(reason \o Chars(rest.reason)) = plain.reason
              /\ content \o Chars(rest.content) = plain.content
<1> DEFINE d == PlainDetecting(x)
           w == TrimLeft(x)
           z == From(w, Len(OpenTag) + 1)
           i == Find(z, CloseTag)
           q == SplitInlineThink(x)
           rest == ThinkFlush(f)
<1>1. /\ f.state = d.state /\ reason = d.reason /\ content = d.content
      /\ reason \in Word /\ content \in Word
      /\ d.state # "afterClose" => Chars(f.buf) = d.buf
  BY DEF Follows
<1>2. q = IF ~IsPrefix(OpenTag, w) THEN [reason |-> <<>>, content |-> x]
          ELSE IF i = 0 THEN [reason |-> TrimSpace(z), content |-> <<>>]
          ELSE [reason |-> TrimSpace(SubSeq(z, 1, i - 1)),
                content |-> TrimLeft(From(z, i + Len(CloseTag)))]
  BY DEF SplitInlineThink
<1>3. /\ rest.reason = IF d.state = "inside" THEN f.buf ELSE <<>>
      /\ rest.content = IF d.state = "detecting" THEN f.buf ELSE <<>>
  BY <1>1 DEF ThinkFlush
<1>4. reason \o <<>> = reason /\ content \o <<>> = content /\ Chars(<<>>) = <<>>
  BY <1>1, JoinedNothing, NoCharacters
<1> HIDE DEF rest, q
<1>5. CASE IsPrefix(OpenTag, w)
  <2>1. z \in Word /\ d = PlainInside(z)
    BY <1>5, OpenedGoesOn
  <2>2. CASE i = 0
    <3>1. d.state = "inside" /\ d.content = <<>> /\ d.reason \o d.buf = z
      BY <2>1, <2>2, InsideGoesOn
    <3>2. Chars(rest.reason) = d.buf /\ Chars(rest.content) = <<>>
      BY <1>1, <1>3, <1>4, <3>1
    <3>3. q.reason = TrimSpace(z) /\ q.content = <<>>
      BY <1>2, <1>5, <2>2
    <3> HIDE DEF d, z
    <3> QED BY <1>1, <1>4, <3>1, <3>2, <3>3 DEF q, rest
  <2>3. CASE i # 0
    <3>1. d = Split(IF TrimLeft(From(z, i + Len(CloseTag))) = <<>> THEN "afterClose" ELSE "passthrough",
                    <<>>, SubSeq(z, 1, i - 1), TrimLeft(From(z, i + Len(CloseTag))))
      BY <2>1, <2>3 DEF PlainInside
    <3>2. q = [reason |-> TrimSpace(SubSeq(z, 1, i - 1)),
               content |-> TrimLeft(From(z, i + Len(CloseTag)))]
      BY <1>2, <1>5, <2>3
    <3> HIDE DEF d, z, i
    <3>3. /\ d.state \in {"afterClose", "passthrough"}
          /\ q.reason = TrimSpace(d.reason) /\ q.content = d.content
      BY <3>1, <3>2 DEF Split
    <3>4. rest.reason = <<>> /\ rest.content = <<>>
      BY <1>3, <3>3
    <3> QED BY <1>1, <1>4, <3>3, <3>4 DEF q, rest
  <2> QED BY <2>2, <2>3
<1>6. CASE ~IsPrefix(OpenTag, w) /\ IsPrefix(w, OpenTag)
  <2>1. d = Split("detecting", x, <<>>, <<>>)
    BY <1>6 DEF PlainDetecting
  <2>2. q.reason = <<>> /\ q.content = x
    BY <1>2, <1>6
  <2> HIDE DEF d
  <2>3. d.state = "detecting" /\ reason = <<>> /\ content = <<>> /\ Chars(f.buf) = x
    BY <1>1, <2>1 DEF Split
  <2>4. Chars(rest.reason) = <<>> /\ Chars(rest.content) = x
    BY <1>3, <1>4, <2>3
  <2>5. <<>> \o x = x
    BY JoinedNothing
  <2> QED BY <1>4, <2>2, <2>3, <2>4, <2>5, TrimNothing DEF q, rest
<1>7. CASE ~IsPrefix(OpenTag, w) /\ ~IsPrefix(w, OpenTag)
  <2>1. d = Split("passthrough", <<>>, <<>>, x)
    BY <1>7 DEF PlainDetecting
  <2>2. q.reason = <<>> /\ q.content = x
    BY <1>2, <1>7
  <2> HIDE DEF d
  <2>3. d.state = "passthrough" /\ reason = <<>> /\ content = x
    BY <1>1, <2>1 DEF Split
  <2>4. rest.reason = <<>> /\ rest.content = <<>>
    BY <1>3, <2>3
  <2> QED BY <1>4, <2>2, <2>3, <2>4, TrimNothing DEF q, rest
<1> QED BY <1>5, <1>6, <1>7

----------------------------------------------------------------------------
(* Text read character by character *)

\* What Scanning computes after i characters: the value it is at in a finite function.
ScanningTo(scan, g, s, k) ==
    scan = [i \in 0..k |-> IF i = 0 THEN g
                           ELSE IF scan[i - 1].done THEN scan[i - 1] ELSE Scan(scan[i - 1], s[i])]

\* Scanning goes from each character to the next, until it is done.
LEMMA ScanningIs ==
    ASSUME NEW g, NEW s, Len(s) \in Nat
    PROVE  /\ Scanning(g, s)[0] = g
           /\ \A i \in 1..Len(s) :
                 Scanning(g, s)[i] = IF Scanning(g, s)[i - 1].done THEN Scanning(g, s)[i - 1]
                                     ELSE Scan(Scanning(g, s)[i - 1], s[i])
<1> DEFINE S == {k \in Nat : \E scan : ScanningTo(scan, g, s, k)}
<1>1. 0 \in S
  <2>1. ScanningTo([i \in 0..0 |-> g], g, s, 0)
    BY DEF ScanningTo
  <2> QED BY <2>1
<1>2. ASSUME NEW k \in Nat, k \in S PROVE k + 1 \in S
  <2>1. PICK scan : ScanningTo(scan, g, s, k)
    BY <1>2
  <2> DEFINE last == IF scan[k].done THEN scan[k] ELSE Scan(scan[k], s[k + 1])
             more == [i \in 0..(k + 1) |-> IF i = k + 1 THEN last ELSE scan[i]]
  <2>2. \A i \in 0..k : scan[i] = IF i = 0 THEN g
                                  ELSE IF scan[i - 1].done THEN scan[i - 1] ELSE Scan(scan[i - 1], s[i])
    BY <2>1 DEF ScanningTo
  <2>3. \A i \in 0..k : more[i] = scan[i]
    OBVIOUS
  <2>4. more[k + 1] = last
    OBVIOUS
  <2> HIDE DEF more
  <2>5. ASSUME NEW i \in 0..(k + 1)
        PROVE  more[i] = IF i = 0 THEN g
                         ELSE IF more[i - 1].done THEN more[i - 1] ELSE Scan(more[i - 1], s[i])
    <3>1. CASE i = k + 1
      BY <2>3, <2>4, <3>1
    <3>2. CASE i # k + 1
      <4>1. i \in 0..k /\ (i # 0 => i - 1 \in 0..k)
        BY <3>2
      <4> QED BY <2>2, <2>3, <4>1
    <3> QED BY <3>1, <3>2
  <2>6. ScanningTo(more, g, s, k + 1)
    BY <2>5 DEF ScanningTo, more
  <2> QED BY <2>6
<1> HIDE DEF S
<1>3. Len(s) \in S
  BY <1>1, <1>2, Induction
<1>4. \E scan : ScanningTo(scan, g, s, Len(s))
  BY <1>3 DEF S
<1>5. Scanning(g, s) = CHOOSE scan : ScanningTo(scan, g, s, Len(s))
  BY DEF Scanning, ScanningTo
<1>6. ScanningTo(Scanning(g, s), g, s, Len(s))
  BY <1>4, <1>5
<1> DEFINE f == Scanning(g, s)
<1>7. f = [i \in 0..Len(s) |-> IF i = 0 THEN g
                               ELSE IF f[i - 1].done THEN f[i - 1] ELSE Scan(f[i - 1], s[i])]
  BY <1>6 DEF ScanningTo
<1> HIDE DEF f
<1>8. \A i \in 0..Len(s) : f[i] = IF i = 0 THEN g
                                  ELSE IF f[i - 1].done THEN f[i - 1] ELSE Scan(f[i - 1], s[i])
  BY <1>7
<1>9. f[0] = g /\ \A i \in 1..Len(s) : f[i] = IF f[i - 1].done THEN f[i - 1] ELSE Scan(f[i - 1], s[i])
  BY <1>8
<1> QED BY <1>9 DEF f

\* The gate before a character does not depend on what follows it.
LEMMA ScanningGrown ==
    ASSUME NEW g, NEW s \in Word, NEW t \in Word, NEW j \in 0..Len(s)
    PROVE  Scanning(g, s \o t)[j] = Scanning(g, s)[j]
<1> DEFINE f == Scanning(g, s)
           h == Scanning(g, s \o t)
           S == {k \in Nat : k <= Len(s) => h[k] = f[k]}
<1>1. Len(s) \in Nat /\ Len(t) \in Nat /\ Len(s \o t) = Len(s) + Len(t)
  BY Joined DEF Word
<1>2. \A i \in 1..Len(s) : (s \o t)[i] = s[i]
  <2>1. \A i \in 1..(Len(s) + Len(t)) : (s \o t)[i] = IF i <= Len(s) THEN s[i] ELSE t[i - Len(s)]
    BY ConcatProperties DEF Word
  <2> QED BY <1>1, <2>1
<1>3. f[0] = g /\ \A i \in 1..Len(s) : f[i] = IF f[i - 1].done THEN f[i - 1] ELSE Scan(f[i - 1], s[i])
  BY <1>1, ScanningIs
<1>4. h[0] = g /\ \A i \in 1..(Len(s) + Len(t)) :
                     h[i] = IF h[i - 1].done THEN h[i - 1] ELSE Scan(h[i - 1], (s \o t)[i])
  <2>1. Len(s \o t) \in Nat
    BY <1>1
  <2> DEFINE st == s \o t
  <2>2. Len(st) \in Nat /\ Len(st) = Len(s) + Len(t) /\ h = Scanning(g, st)
    BY <1>1, <2>1
  <2> HIDE DEF h, st
  <2>3. h[0] = g /\ \A i \in 1..Len(st) :
                       h[i] = IF h[i - 1].done THEN h[i - 1] ELSE Scan(h[i - 1], st[i])
    BY <2>2, ScanningIs
  <2> QED BY <2>2, <2>3 DEF st
<1> HIDE DEF f, h
<1>5. 0 \in S
  BY <1>3, <1>4
<1>6. ASSUME NEW k \in Nat, k \in S PROVE k + 1 \in S
  <2> SUFFICES ASSUME k + 1 <= Len(s) PROVE h[k + 1] = f[k + 1]
    OBVIOUS
  <2>1. k + 1 \in 1..Len(s) /\ k + 1 \in 1..(Len(s) + Len(t)) /\ k + 1 - 1 = k /\ h[k] = f[k]
    BY <1>1, <1>6
  <2>2. f[k + 1] = IF f[k].done THEN f[k] ELSE Scan(f[k], s[k + 1])
    BY <1>3, <2>1
  <2>3. h[k + 1] = IF h[k].done THEN h[k] ELSE Scan(h[k], (s \o t)[k + 1])
    BY <1>4, <2>1
  <2> QED BY <1>2, <2>1, <2>2, <2>3
<1> HIDE DEF S
<1>7. j \in S
  BY <1>5, <1>6, Induction
<1> QED BY <1>1, <1>7 DEF S, f, h

\* A second text is scanned from where the first has left the gate.
LEMMA ScanningBehind ==
    ASSUME NEW g, NEW s \in Word, NEW t \in Word, NEW j \in 0..Len(t)
    PROVE  Scanning(g, s \o t)[Len(s) + j] = Scanning(Scanning(g, s)[Len(s)], t)[j]
<1> DEFINE m == Scanning(g, s)[Len(s)]
           f == Scanning(m, t)
           h == Scanning(g, s \o t)
           S == {k \in Nat : k <= Len(t) => h[Len(s) + k] = f[k]}
<1>1. Len(s) \in Nat /\ Len(t) \in Nat /\ Len(s \o t) = Len(s) + Len(t)
  BY Joined DEF Word
<1>2. \A i \in 1..Len(t) : (s \o t)[Len(s) + i] = t[i]
  <2>1. \A i \in 1..(Len(s) + Len(t)) : (s \o t)[i] = IF i <= Len(s) THEN s[i] ELSE t[i - Len(s)]
    BY ConcatProperties DEF Word
  <2>2. ASSUME NEW i \in 1..Len(t) PROVE (s \o t)[Len(s) + i] = t[i]
    <3>1. Len(s) + i \in 1..(Len(s) + Len(t)) /\ ~(Len(s) + i <= Len(s)) /\ Len(s) + i - Len(s) = i
      BY <1>1
    <3> QED BY <2>1, <3>1
  <2> QED BY <2>2
<1>3. h[Len(s)] = m
  BY <1>1, ScanningGrown
<1> HIDE DEF m
<1>4. f[0] = m /\ \A i \in 1..Len(t) : f[i] = IF f[i - 1].done THEN f[i - 1] ELSE Scan(f[i - 1], t[i])
  BY <1>1, ScanningIs
<1>5. \A i \in 1..(Len(s) + Len(t)) :
         h[i] = IF h[i - 1].done THEN h[i - 1] ELSE Scan(h[i - 1], (s \o t)[i])
  <2>1. Len(s \o t) \in Nat
    BY <1>1
  <2> DEFINE st == s \o t
  <2>2. Len(st) \in Nat /\ Len(st) = Len(s) + Len(t) /\ h = Scanning(g, st)
    BY <1>1, <2>1
  <2> HIDE DEF h, st
  <2>3. h[0] = g /\ \A i \in 1..Len(st) :
                       h[i] = IF h[i - 1].done THEN h[i - 1] ELSE Scan(h[i - 1], st[i])
    BY <2>2, ScanningIs
  <2> QED BY <2>2, <2>3 DEF st
<1> HIDE DEF f, h
<1>6. 0 \in S
  BY <1>1, <1>3, <1>4
<1>7. ASSUME NEW k \in Nat, k \in S PROVE k + 1 \in S
  <2> SUFFICES ASSUME k + 1 <= Len(t) PROVE h[Len(s) + (k + 1)] = f[k + 1]
    OBVIOUS
  <2>1. /\ k + 1 \in 1..Len(t) /\ Len(s) + (k + 1) \in 1..(Len(s) + Len(t))
        /\ k + 1 - 1 = k /\ Len(s) + (k + 1) - 1 = Len(s) + k /\ h[Len(s) + k] = f[k]
    BY <1>1, <1>7
  <2>2. f[k + 1] = IF f[k].done THEN f[k] ELSE Scan(f[k], t[k + 1])
    BY <1>4, <2>1
  <2>3. h[Len(s) + (k + 1)] = IF h[Len(s) + k].done THEN h[Len(s) + k]
                              ELSE Scan(h[Len(s) + k], (s \o t)[Len(s) + (k + 1)])
    BY <1>5, <2>1
  <2> QED BY <1>2, <2>1, <2>2, <2>3
<1> HIDE DEF S
<1>8. j \in S
  BY <1>6, <1>7, Induction
<1> QED BY <1>1, <1>8 DEF S, f, h, m

\* A gate that is done stays as it is.
LEMMA ScanningDone ==
    ASSUME NEW g, NEW s \in Word, NEW i \in 0..Len(s), NEW j \in i..Len(s), Scanning(g, s)[i].done
    PROVE  Scanning(g, s)[j] = Scanning(g, s)[i]
<1> DEFINE f == Scanning(g, s)
           S == {k \in Nat : i + k <= Len(s) => f[i + k] = f[i]}
<1>1. Len(s) \in Nat /\ f[i].done
  BY DEF Word
<1>2. \A k \in 1..Len(s) : f[k] = IF f[k - 1].done THEN f[k - 1] ELSE Scan(f[k - 1], s[k])
  BY <1>1, ScanningIs
<1> HIDE DEF f
<1>3. 0 \in S
  BY <1>1
<1>4. ASSUME NEW k \in Nat, k \in S PROVE k + 1 \in S
  <2> SUFFICES ASSUME i + (k + 1) <= Len(s) PROVE f[i + (k + 1)] = f[i]
    OBVIOUS
  <2>1. i + (k + 1) \in 1..Len(s) /\ i + (k + 1) - 1 = i + k /\ f[i + k] = f[i]
    BY <1>1, <1>4
  <2> QED BY <1>1, <1>2, <2>1
<1> HIDE DEF S
<1>5. j - i \in Nat /\ i + (j - i) = j /\ j <= Len(s)
  BY <1>1
<1>6. j - i \in S
  BY <1>3, <1>4, <1>5, Induction
<1> QED BY <1>5, <1>6 DEF S, f

\* The states of a gate.
Gates == [mode : {"undecided", "plain", "encoded"}, depth : Int, started : BOOLEAN,
          done : BOOLEAN, inString : BOOLEAN, escaped : BOOLEAN, pending : Str]

\* The characters the filters look for are different ones.
LEMMA Characters ==
    /\ Blank # Quote /\ Blank \notin Opening /\ Blank \notin Closing
    /\ Quote \notin Opening /\ Quote \notin Closing
    /\ Brace # Quote /\ Brace # Blank /\ Brace \in Opening
    /\ Backslash # Quote /\ \A c \in Opening : c \notin Closing
<1>1. Blank # Quote /\ Blank \notin Opening /\ Blank \notin Closing
  BY Zenon DEF Blank, Quote, Opening, Closing, Brace
<1>2. Quote \notin Opening /\ Quote \notin Closing
  BY Zenon DEF Quote, Opening, Closing, Brace
<1>3. Brace # Quote /\ Brace # Blank
  BY Zenon DEF Quote, Brace, Blank
<1>4. Brace \in Opening
  BY Zenon DEF Opening
<1>5. Backslash # Quote
  BY Zenon DEF Backslash, Quote
<1>6. \A c \in Opening : c \notin Closing
  BY Zenon DEF Opening, Closing, Brace
<1> QED BY <1>1, <1>2, <1>3, <1>4, <1>5, <1>6

\* Scanning counts brackets; the mode and what is pending are not its business.
LEMMA ScanIs ==
    ASSUME NEW g \in Gates, NEW c
    PROVE  /\ Scan(g, c) \in Gates
           /\ Scan(g, c).mode = g.mode /\ Scan(g, c).pending = g.pending
<1>1. /\ g.mode \in {"undecided", "plain", "encoded"} /\ g.depth \in Int
      /\ g.started \in BOOLEAN /\ g.done \in BOOLEAN /\ g.inString \in BOOLEAN
      /\ g.escaped \in BOOLEAN /\ g.pending \in Str
      /\ g = [mode |-> g.mode, depth |-> g.depth, started |-> g.started, done |-> g.done,
              inString |-> g.inString, escaped |-> g.escaped, pending |-> g.pending]
  BY DEF Gates
<1>2. /\ g.depth + 1 \in Int /\ g.depth - 1 \in Int
      /\ (g.started /\ g.depth - 1 <= 0) \in BOOLEAN
      /\ (c = Backslash) \in BOOLEAN /\ (c # Quote) \in BOOLEAN
  BY <1>1
<1>3. CASE g.inString /\ g.escaped
  BY <1>1, <1>3 DEF Scan, Gates
<1>4. CASE g.inString /\ ~g.escaped
  BY <1>1, <1>2, <1>4 DEF Scan, Gates
<1>5. CASE ~g.inString /\ c = Quote
  <2>1. Quote \notin Opening /\ Quote \notin Closing
    BY Characters
  <2> QED BY <1>1, <1>5, <2>1 DEF Scan, Gates
<1>6. CASE ~g.inString /\ c # Quote /\ c \in Opening
  BY <1>1, <1>2, <1>6 DEF Scan, Gates
<1>7. CASE ~g.inString /\ c # Quote /\ c \notin Opening /\ c \in Closing
  BY <1>1, <1>2, <1>7 DEF Scan, Gates
<1>8. CASE ~g.inString /\ c # Quote /\ c \notin Opening /\ c \notin Closing
  BY <1>1, <1>8 DEF Scan, Gates
<1> QED BY <1>3, <1>4, <1>5, <1>6, <1>7, <1>8

\* What one character does to the count.
LEMMA ScanFields ==
    ASSUME NEW g \in Gates, NEW c
    PROVE  LET h == Scan(g, c) IN
           /\ g.inString /\ g.escaped =>
                /\ h.depth = g.depth /\ h.started = g.started /\ h.done = g.done
                /\ h.inString /\ ~h.escaped
           /\ g.inString /\ ~g.escaped =>
                /\ h.depth = g.depth /\ h.started = g.started /\ h.done = g.done
                /\ h.inString <=> c # Quote
                /\ h.escaped <=> c = Backslash
           /\ ~g.inString => h.escaped = g.escaped /\ (h.inString <=> c = Quote)
           /\ ~g.inString /\ c \in Opening =>
                h.depth = g.depth + 1 /\ h.started /\ h.done = g.done
           /\ ~g.inString /\ c \in Closing =>
                /\ h.depth = g.depth - 1 /\ h.started = g.started
                /\ h.done <=> g.started /\ g.depth - 1 <= 0
           /\ ~g.inString /\ c \notin Opening /\ c \notin Closing =>
                h.depth = g.depth /\ h.started = g.started /\ h.done = g.done
<1> DEFINE h == Scan(g, c)
<1>1. /\ g.mode \in {"undecided", "plain", "encoded"} /\ g.depth \in Int
      /\ g.started \in BOOLEAN /\ g.done \in BOOLEAN /\ g.inString \in BOOLEAN
      /\ g.escaped \in BOOLEAN /\ g.pending \in Str
      /\ g = [mode |-> g.mode, depth |-> g.depth, started |-> g.started, done |-> g.done,
              inString |-> g.inString, escaped |-> g.escaped, pending |-> g.pending]
  BY DEF Gates
<1>2. Quote \notin Opening /\ Quote \notin Closing /\ \A a \in Opening : a \notin Closing
  BY Characters
<1>3. CASE g.inString /\ g.escaped
  BY <1>1, <1>3 DEF Scan
<1>4. CASE g.inString /\ ~g.escaped
  BY <1>1, <1>4 DEF Scan
<1>5. CASE ~g.inString /\ c = Quote
  BY <1>1, <1>2, <1>5 DEF Scan
<1>6. CASE ~g.inString /\ c # Quote /\ c \in Opening
  BY <1>1, <1>2, <1>6 DEF Scan
<1>7. CASE ~g.inString /\ c # Quote /\ c \notin Opening /\ c \in Closing
  BY <1>1, <1>2, <1>7 DEF Scan
<1>8. CASE ~g.inString /\ c # Quote /\ c \notin Opening /\ c \notin Closing
  BY <1>1, <1>2, <1>8 DEF Scan
<1> QED BY <1>3, <1>4, <1>5, <1>6, <1>7, <1>8

LEMMA ScanningTypes ==
    ASSUME NEW g \in Gates, NEW s \in Word, NEW j \in 0..Len(s)
    PROVE  /\ Scanning(g, s)[j] \in Gates
           /\ Scanning(g, s)[j].mode = g.mode /\ Scanning(g, s)[j].pending = g.pending
<1> DEFINE f == Scanning(g, s)
           S == {k \in Nat : k <= Len(s) => f[k] \in Gates /\ f[k].mode = g.mode
                                            /\ f[k].pending = g.pending}
<1>1. Len(s) \in Nat
  BY DEF Word
<1>2. f[0] = g /\ \A k \in 1..Len(s) : f[k] = IF f[k - 1].done THEN f[k - 1] ELSE Scan(f[k - 1], s[k])
  BY <1>1, ScanningIs
<1> HIDE DEF f
<1>3. 0 \in S
  BY <1>2
<1>4. ASSUME NEW k \in Nat, k \in S PROVE k + 1 \in S
  <2> SUFFICES ASSUME k + 1 <= Len(s)
               PROVE  /\ f[k + 1] \in Gates /\ f[k + 1].mode = g.mode
                      /\ f[k + 1].pending = g.pending
    OBVIOUS
  <2>1. /\ k + 1 \in 1..Len(s) /\ k + 1 - 1 = k
        /\ f[k] \in Gates /\ f[k].mode = g.mode /\ f[k].pending = g.pending
    BY <1>1, <1>4
  <2>2. f[k + 1] = f[k] \/ f[k + 1] = Scan(f[k], s[k + 1])
    BY <1>2, <2>1
  <2> QED BY <2>1, <2>2, ScanIs
<1> HIDE DEF S
<1>5. j \in S
  BY <1>3, <1>4, Induction
<1> QED BY <1>1, <1>5 DEF S, f

\* The same for the string literals of encoding/json.
ReadingTo(read, s, k) ==
    read = [i \in 0..k |-> IF i = 0 THEN [closed |-> FALSE, escaped |-> FALSE, str |-> <<>>]
                           ELSE Read(read[i - 1], s[i])]

LEMMA ReadingIs ==
    ASSUME NEW s, Len(s) \in Nat
    PROVE  /\ Reading(s)[0] = [closed |-> FALSE, escaped |-> FALSE, str |-> <<>>]
           /\ \A i \in 1..Len(s) : Reading(s)[i] = Read(Reading(s)[i - 1], s[i])
<1> DEFINE g == [closed |-> FALSE, escaped |-> FALSE, str |-> <<>>]
           S == {k \in Nat : \E read : ReadingTo(read, s, k)}
<1>1. 0 \in S
  <2>1. ReadingTo([i \in 0..0 |-> g], s, 0)
    BY DEF ReadingTo
  <2> QED BY <2>1
<1>2. ASSUME NEW k \in Nat, k \in S PROVE k + 1 \in S
  <2>1. PICK read : ReadingTo(read, s, k)
    BY <1>2
  <2> DEFINE last == Read(read[k], s[k + 1])
             more == [i \in 0..(k + 1) |-> IF i = k + 1 THEN last ELSE read[i]]
  <2> HIDE DEF g
  <2>2. \A i \in 0..k : read[i] = IF i = 0 THEN g ELSE Read(read[i - 1], s[i])
    BY <2>1 DEF ReadingTo, g
  <2>3. \A i \in 0..k : more[i] = read[i]
    OBVIOUS
  <2>4. more[k + 1] = last
    OBVIOUS
  <2> HIDE DEF more
  <2>5. ASSUME NEW i \in 0..(k + 1)
        PROVE  more[i] = IF i = 0 THEN g ELSE Read(more[i - 1], s[i])
    <3>1. CASE i = k + 1
      BY <2>3, <2>4, <3>1
    <3>2. CASE i # k + 1
      <4>1. i \in 0..k /\ (i # 0 => i - 1 \in 0..k)
        BY <3>2
      <4> QED BY <2>2, <2>3, <4>1
    <3> QED BY <3>1, <3>2
  <2>6. ReadingTo(more, s, k + 1)
    BY <2>5 DEF ReadingTo, more, g
  <2> QED BY <2>6
<1> HIDE DEF S
<1>3. Len(s) \in S
  BY <1>1, <1>2, Induction
<1>4. \E read : ReadingTo(read, s, Len(s))
  BY <1>3 DEF S
<1>5. Reading(s) = CHOOSE read : ReadingTo(read, s, Len(s))
  BY DEF Reading, ReadingTo
<1>6. ReadingTo(Reading(s), s, Len(s))
  BY <1>4, <1>5
<1> HIDE DEF g
<1> DEFINE f == Reading(s)
<1>7. f = [i \in 0..Len(s) |-> IF i = 0 THEN g ELSE Read(f[i - 1], s[i])]
  BY <1>6 DEF ReadingTo, g
<1> HIDE DEF f
<1>8. \A i \in 0..Len(s) : f[i] = IF i = 0 THEN g ELSE Read(f[i - 1], s[i])
  BY <1>7
<1>9. f[0] = g /\ \A i \in 1..Len(s) : f[i] = Read(f[i - 1], s[i])
  BY <1>8
<1> QED BY <1>9 DEF f, g

\* The states of a reader of string literals.
Readers == [closed : BOOLEAN, escaped : BOOLEAN, str : Word]

LEMMA ReadIs ==
    ASSUME NEW r \in Readers, NEW c \in Char
    PROVE  Read(r, c) \in Readers
<1>1. Append(r.str, c) \in Word
  BY AppendProperties DEF Readers, Word
<1> QED BY <1>1 DEF Read, Readers

LEMMA ReadingTypes ==
    ASSUME NEW s \in Word, NEW j \in 0..Len(s)
    PROVE  Reading(s)[j] \in Readers
<1> DEFINE f == Reading(s)
           S == {k \in Nat : k <= Len(s) => f[k] \in Readers}
<1>1. Len(s) \in Nat /\ \A k \in 1..Len(s) : s[k] \in Char
  BY DEF Word
<1>2. /\ f[0] = [closed |-> FALSE, escaped |-> FALSE, str |-> <<>>]
      /\ \A k \in 1..Len(s) : f[k] = Read(f[k - 1], s[k])
  BY <1>1, ReadingIs
<1> HIDE DEF f
<1>3. 0 \in S
  <2>1. <<>> \in Word
    BY NoCharacters
  <2>2. f[0] \in Readers
    BY <1>2, <2>1 DEF Readers
  <2> QED BY <2>2
<1>4. ASSUME NEW k \in Nat, k \in S PROVE k + 1 \in S
  <2> SUFFICES ASSUME k + 1 <= Len(s) PROVE f[k + 1] \in Readers
    OBVIOUS
  <2>1. k + 1 \in 1..Len(s) /\ k + 1 - 1 = k /\ f[k] \in Readers
    BY <1>1, <1>4
  <2>2. f[k + 1] = Read(f[k], s[k + 1]) /\ s[k + 1] \in Char
    BY <1>1, <1>2, <2>1
  <2> QED BY <2>1, <2>2, ReadIs
<1> HIDE DEF S
<1>5. j \in S
  BY <1>3, <1>4, Induction
<1> QED BY <1>1, <1>5 DEF S, f

\* Once the literal is closed nothing that follows changes it.
LEMMA ReadingGrown ==
    ASSUME NEW s \in Word, NEW t \in Word, Reading(s)[Len(s)].closed, NEW j \in 0..Len(t)
    PROVE  Reading(s \o t)[Len(s) + j] = Reading(s)[Len(s)]
<1> DEFINE f == Reading(s)
           h == Reading(s \o t)
           S == {k \in Nat : k <= Len(s) => h[k] = f[k]}
           T == {k \in Nat : k <= Len(t) => h[Len(s) + k] = f[Len(s)]}
<1>1. Len(s) \in Nat /\ Len(t) \in Nat /\ Len(s \o t) = Len(s) + Len(t) /\ f[Len(s)].closed
  BY Joined DEF Word
<1>2. \A i \in 1..Len(s) : (s \o t)[i] = s[i]
  <2>1. \A i \in 1..(Len(s) + Len(t)) : (s \o t)[i] = IF i <= Len(s) THEN s[i] ELSE t[i - Len(s)]
    BY ConcatProperties DEF Word
  <2> QED BY <1>1, <2>1
<1>3. f[0] = h[0] /\ \A i \in 1..Len(s) : f[i] = Read(f[i - 1], s[i])
  <2>1. Len(s \o t) \in Nat
    BY <1>1
  <2> QED BY <1>1, <2>1, ReadingIs
<1>4. \A i \in 1..(Len(s) + Len(t)) : h[i] = Read(h[i - 1], (s \o t)[i])
  <2>1. Len(s \o t) \in Nat
    BY <1>1
  <2> QED BY <1>1, <2>1, ReadingIs
<1> HIDE DEF f, h
<1>5. 0 \in S
  BY <1>3
<1>6. ASSUME NEW k \in Nat, k \in S PROVE k + 1 \in S
  <2> SUFFICES ASSUME k + 1 <= Len(s) PROVE h[k + 1] = f[k + 1]
    OBVIOUS
  <2>1. k + 1 \in 1..Len(s) /\ k + 1 \in 1..(Len(s) + Len(t)) /\ k + 1 - 1 = k /\ h[k] = f[k]
    BY <1>1, <1>6
  <2>2. f[k + 1] = Read(f[k], s[k + 1]) /\ h[k + 1] = Read(h[k], (s \o t)[k + 1])
    BY <1>3, <1>4, <2>1
  <2> QED BY <1>2, <2>1, <2>2
<1> HIDE DEF S
<1>7. Len(s) \in S
  BY <1>1, <1>5, <1>6, Induction
<1>8. 0 \in T
  BY <1>1, <1>7 DEF S
<1>9. ASSUME NEW k \in Nat, k \in T PROVE k + 1 \in T
  <2> SUFFICES ASSUME k + 1 <= Len(t) PROVE h[Len(s) + (k + 1)] = f[Len(s)]
    OBVIOUS
  <2>1. /\ Len(s) + (k + 1) \in 1..(Len(s) + Len(t)) /\ Len(s) + (k + 1) - 1 = Len(s) + k
        /\ h[Len(s) + k] = f[Len(s)]
    BY <1>1, <1>9
  <2>2. h[Len(s) + (k + 1)] = Read(f[Len(s)], (s \o t)[Len(s) + (k + 1)])
    BY <1>4, <2>1
  <2> QED BY <1>1, <2>2 DEF Read
<1> HIDE DEF T
<1>10. j \in T
  BY <1>8, <1>9, Induction
<1> QED BY <1>1, <1>10 DEF T, f, h

----------------------------------------------------------------------------
(* tool_arguments.go on plain texts *)

\* A gate, and what it lets through.
Let(g, args) == [filter |-> g, args |-> args]

\* Where a value that is scanned from the gate g on has ended.
Ends(g, x) == {i \in 0..Len(x) : Scanning(g, x)[i].done}

\* What a gate in mode "plain" makes of x.
PlainValue(g, x) ==
    Let(Scanning(g, x)[Len(x)],
        IF Ends(g, x) = {} THEN x ELSE SubSeq(x, 1, Min(Ends(g, x))))

\* The value ends where scanning is done for the first time.
LEMMA EndsAt ==
    ASSUME NEW g, NEW x \in Word, NEW m \in 0..Len(x), Scanning(g, x)[m].done,
           \A i \in 0..(m - 1) : ~Scanning(g, x)[i].done
    PROVE  /\ Ends(g, x) # {} /\ Min(Ends(g, x)) = m
           /\ PlainValue(g, x) = Let(Scanning(g, x)[m], SubSeq(x, 1, m))
<1> DEFINE k == Min(Ends(g, x))
<1>1. Len(x) \in Nat
  BY DEF Word
<1>2. m \in Ends(g, x) /\ Ends(g, x) \in SUBSET Nat
  BY <1>1 DEF Ends
<1>3. k \in Ends(g, x) /\ \A i \in Ends(g, x) : k <= i
  BY <1>2, MinIs
<1>4. k \in 0..Len(x) /\ Scanning(g, x)[k].done /\ k <= m
  BY <1>2, <1>3 DEF Ends
<1> HIDE DEF k
<1>5. ~(k < m)
  BY <1>1, <1>4
<1>6. k = m
  BY <1>1, <1>4, <1>5
<1>7. Scanning(g, x)[Len(x)] = Scanning(g, x)[m]
  <2>1. Len(x) \in m..Len(x)
    BY <1>1
  <2> QED BY <2>1, ScanningDone
<1> QED BY <1>2, <1>6, <1>7 DEF PlainValue, k

\* As long as it is not done all of it belongs to the value.
LEMMA EndsNowhere ==
    ASSUME NEW g, NEW x \in Word
    PROVE  /\ Scanning(g, x)[Len(x)].done <=> Ends(g, x) # {}
           /\ ~Scanning(g, x)[Len(x)].done =>
                /\ \A i \in 0..Len(x) : ~Scanning(g, x)[i].done
                /\ PlainValue(g, x) = Let(Scanning(g, x)[Len(x)], x)
<1>1. Len(x) \in Nat /\ Len(x) \in 0..Len(x)
  BY DEF Word
<1>2. ASSUME NEW i \in 0..Len(x), Scanning(g, x)[i].done PROVE Scanning(g, x)[Len(x)].done
  <2>1. Len(x) \in i..Len(x)
    BY <1>1
  <2>2. Scanning(g, x)[Len(x)] = Scanning(g, x)[i]
    BY <1>2, <2>1, ScanningDone
  <2> QED BY <1>2, <2>2
<1>3. Scanning(g, x)[Len(x)].done <=> Ends(g, x) # {}
  BY <1>1, <1>2 DEF Ends
<1>4. ASSUME ~Scanning(g, x)[Len(x)].done
      PROVE  /\ \A i \in 0..Len(x) : ~Scanning(g, x)[i].done
             /\ PlainValue(g, x) = Let(Scanning(g, x)[Len(x)], x)
  <2>1. \A i \in 0..Len(x) : ~Scanning(g, x)[i].done
    BY <1>2, <1>4
  <2>2. Ends(g, x) = {}
    BY <1>3, <1>4
  <2> QED BY <2>1, <2>2 DEF PlainValue
<1> QED BY <1>3, <1>4

\* Where the value ends, if it does.
LEMMA EndsSomewhere ==
    ASSUME NEW g, NEW x \in Word, Scanning(g, x)[Len(x)].done
    PROVE  \E m \in 0..Len(x) : /\ Scanning(g, x)[m].done
                                /\ \A i \in 0..(m - 1) : ~Scanning(g, x)[i].done
<1>1. Len(x) \in Nat
  BY DEF Word
<1>2. Ends(g, x) # {} /\ Ends(g, x) \in SUBSET Nat
  BY <1>1, EndsNowhere DEF Ends
<1>3. PICK m \in Ends(g, x) : \A i \in Ends(g, x) : m <= i
  BY <1>2, LeastElement
<1>4. m \in 0..Len(x) /\ Scanning(g, x)[m].done
  BY <1>3 DEF Ends
<1>5. ASSUME NEW i \in 0..(m - 1) PROVE ~Scanning(g, x)[i].done
  <2>1. i \in 0..Len(x) /\ ~(m <= i)
    BY <1>1, <1>4
  <2> QED BY <1>3, <2>1 DEF Ends
<1> QED BY <1>4, <1>5

\* A value that has not ended goes on in what follows it.
LEMMA ValueGoesOn ==
    ASSUME NEW g, NEW x \in Word, NEW y \in Word, ~Scanning(g, x)[Len(x)].done
    PROVE  LET m == Scanning(g, x)[Len(x)] IN
           PlainValue(g, x \o y) = Let(PlainValue(m, y).filter, x \o PlainValue(m, y).args)
<1> DEFINE m == Scanning(g, x)[Len(x)]
           xy == x \o y
<1>1. Len(x) \in Nat /\ Len(y) \in Nat /\ xy \in Word /\ Len(xy) = Len(x) + Len(y)
  BY Joined DEF Word
<1>2. \A i \in 0..Len(x) : ~Scanning(g, x)[i].done
  BY EndsNowhere
<1>3. \A i \in 0..Len(x) : Scanning(g, xy)[i] = Scanning(g, x)[i]
  BY ScanningGrown
<1>4. \A i \in 0..Len(y) : Scanning(g, xy)[Len(x) + i] = Scanning(m, y)[i]
  BY ScanningBehind
<1> HIDE DEF m, xy
<1>5. CASE ~Scanning(m, y)[Len(y)].done
  <2>1. Scanning(g, xy)[Len(xy)] = Scanning(m, y)[Len(y)]
    BY <1>1, <1>4
  <2>2. PlainValue(g, xy) = Let(Scanning(g, xy)[Len(xy)], xy)
    BY <1>1, <1>5, <2>1, EndsNowhere
  <2>3. PlainValue(m, y) = Let(Scanning(m, y)[Len(y)], y)
    BY <1>5, EndsNowhere
  <2> QED BY <2>1, <2>2, <2>3 DEF Let, xy, m
<1>6. CASE Scanning(m, y)[Len(y)].done
  <2>1. PICK k \in 0..Len(y) : /\ Scanning(m, y)[k].done
                               /\ \A i \in 0..(k - 1) : ~Scanning(m, y)[i].done
    BY <1>6, EndsSomewhere
  <2>2. Len(x) + k \in 0..Len(xy) /\ Scanning(g, xy)[Len(x) + k] = Scanning(m, y)[k]
    BY <1>1, <1>4
  <2>3. ASSUME NEW i \in 0..(Len(x) + k - 1) PROVE ~Scanning(g, xy)[i].done
    <3>1. CASE i <= Len(x)
      <4>1. i \in 0..Len(x)
        BY <1>1, <3>1
      <4> QED BY <1>2, <1>3, <4>1
    <3>2. CASE ~(i <= Len(x))
      <4>1. i - Len(x) \in 0..(k - 1) /\ i - Len(x) \in 0..Len(y) /\ Len(x) + (i - Len(x)) = i
        BY <1>1, <3>2
      <4> QED BY <1>4, <2>1, <4>1
    <3> QED BY <3>1, <3>2
  <2>4. PlainValue(g, xy) = Let(Scanning(g, xy)[Len(x) + k], SubSeq(xy, 1, Len(x) + k))
    BY <1>1, <2>1, <2>2, <2>3, EndsAt
  <2>5. PlainValue(m, y) = Let(Scanning(m, y)[k], SubSeq(y, 1, k))
    BY <2>1, EndsAt
  <2>6. SubSeq(xy, 1, Len(x) + k) = x \o SubSeq(y, 1, k)
    BY CutBehind DEF xy
  <2>7. PlainValue(m, y).filter = Scanning(m, y)[k] /\ PlainValue(m, y).args = SubSeq(y, 1, k)
    BY <2>5 DEF Let
  <2>8. PlainValue(g, xy) = Let(PlainValue(m, y).filter, x \o PlainValue(m, y).args)
    BY <2>2, <2>4, <2>6, <2>7
  <2> QED BY <2>8 DEF xy, m
<1> QED BY <1>5, <1>6

\* A value that has ended stays what it is.
LEMMA ValueStays ==
    ASSUME NEW g, NEW x \in Word, NEW y \in Word, Scanning(g, x)[Len(x)].done
    PROVE  PlainValue(g, x \o y) = PlainValue(g, x)
<1> DEFINE xy == x \o y
<1>1. Len(x) \in Nat /\ Len(y) \in Nat /\ xy \in Word /\ Len(xy) = Len(x) + Len(y)
  BY Joined DEF Word
<1>2. PICK m \in 0..Len(x) : /\ Scanning(g, x)[m].done
                             /\ \A i \in 0..(m - 1) : ~Scanning(g, x)[i].done
  BY EndsSomewhere
<1>3. \A i \in 0..Len(x) : Scanning(g, xy)[i] = Scanning(g, x)[i]
  BY ScanningGrown
<1> HIDE DEF xy
<1>4. m \in 0..Len(xy) /\ Scanning(g, xy)[m] = Scanning(g, x)[m]
  BY <1>1, <1>3
<1>5. ASSUME NEW i \in 0..(m - 1) PROVE ~Scanning(g, xy)[i].done
  <2>1. i \in 0..Len(x)
    BY <1>1
  <2> QED BY <1>2, <1>3, <2>1
<1>6. PlainValue(g, xy) = Let(Scanning(g, xy)[m], SubSeq(xy, 1, m))
  BY <1>1, <1>2, <1>4, <1>5, EndsAt
<1>7. PlainValue(g, x) = Let(Scanning(g, x)[m], SubSeq(x, 1, m))
  BY <1>2, EndsAt
<1>8. SubSeq(xy, 1, m) = SubSeq(x, 1, m)
  BY CutGrown DEF Word, xy
<1> QED BY <1>4, <1>6, <1>7, <1>8 DEF xy

\* The gate g, but for its mode, for whether it is done and for what it holds back.
Gate(g, mode, done, pending) ==
    [mode |-> mode, depth |-> g.depth, started |-> g.started, done |-> done,
     inString |-> g.inString, escaped |-> g.escaped, pending |-> pending]

\* The arguments in the string literal x begins with.
Unwrapped(x) == NormalizeToolArguments(CHOOSE i \in DecodeString(x) : TRUE)

\* What a gate makes of x when it begins with a quote.
PlainEncoded(g, x) ==
    IF DecodeString(x) = {} THEN Let(Gate(g, "encoded", g.done, x), <<>>)
    ELSE Let(Gate(g, "encoded", TRUE, <<>>), Unwrapped(x))

\* A gate that has seen that its text does not.
PlainGate == Gate(NewGate, "plain", FALSE, <<>>)

\* What a new gate makes of x.
PlainFilter(x) ==
    LET t == TrimLeft(x)
    IN IF t = <<>> THEN Let(Gate(NewGate, "undecided", FALSE, x), <<>>)
       ELSE IF t[1] = Quote THEN PlainEncoded(NewGate, x)
       ELSE PlainValue(PlainGate, x)

\* What a gate is made of.
LEMMA GateTypes ==
    ASSUME NEW g \in Gates
    PROVE  /\ g.mode \in {"undecided", "plain", "encoded"} /\ g.depth \in Int
           /\ g.started \in BOOLEAN /\ g.done \in BOOLEAN /\ g.inString \in BOOLEAN
           /\ g.escaped \in BOOLEAN /\ g.pending \in Str
           /\ g = Gate(g, g.mode, g.done, g.pending)
  BY DEF Gates, Gate

\* What the three ways to change a gate make of it.
LEMMA GateChanges ==
    ASSUME NEW g \in Gates, NEW b \in Str
    PROVE  /\ [g EXCEPT !.pending = b] = Gate(g, g.mode, g.done, b)
           /\ [g EXCEPT !.mode = "encoded", !.pending = b] = Gate(g, "encoded", g.done, b)
           /\ [g EXCEPT !.mode = "encoded", !.pending = b, !.done = TRUE] = Gate(g, "encoded", TRUE, b)
           /\ [g EXCEPT !.mode = "plain", !.pending = b] = Gate(g, "plain", g.done, b)
           /\ \A mode \in {"undecided", "plain", "encoded"}, done \in BOOLEAN :
                 Gate(g, mode, done, b) \in Gates
<1>0. /\ g.mode \in {"undecided", "plain", "encoded"} /\ g.depth \in Int
      /\ g.started \in BOOLEAN /\ g.done \in BOOLEAN /\ g.inString \in BOOLEAN
      /\ g.escaped \in BOOLEAN /\ g.pending \in Str
      /\ g = [mode |-> g.mode, depth |-> g.depth, started |-> g.started, done |-> g.done,
              inString |-> g.inString, escaped |-> g.escaped, pending |-> g.pending]
  BY DEF Gates
<1>1. [g EXCEPT !.pending = b] = Gate(g, g.mode, g.done, b)
  BY <1>0 DEF Gate
<1>2. [g EXCEPT !.mode = "encoded", !.pending = b] = Gate(g, "encoded", g.done, b)
  <2> DEFINE h == [g EXCEPT !.mode = "encoded", !.pending = b]
  <2>1. h = [g EXCEPT !.mode = "encoded", !.pending = b]
    OBVIOUS
  <2> HIDE DEF h
  <2>2. h = Gate(g, "encoded", g.done, b)
    BY <1>0, <2>1 DEF Gate
  <2> QED BY <2>2 DEF h
<1>3. [g EXCEPT !.mode = "encoded", !.pending = b, !.done = TRUE] = Gate(g, "encoded", TRUE, b)
  <2> DEFINE h == [g EXCEPT !.mode = "encoded", !.pending = b, !.done = TRUE]
  <2>1. h = [g EXCEPT !.mode = "encoded", !.pending = b, !.done = TRUE]
    OBVIOUS
  <2> HIDE DEF h
  <2>2. h = Gate(g, "encoded", TRUE, b)
    BY <1>0, <2>1 DEF Gate
  <2> QED BY <2>2 DEF h
<1>4. [g EXCEPT !.mode = "plain", !.pending = b] = Gate(g, "plain", g.done, b)
  <2> DEFINE h == [g EXCEPT !.mode = "plain", !.pending = b]
  <2>1. h = [g EXCEPT !.mode = "plain", !.pending = b]
    OBVIOUS
  <2> HIDE DEF h
  <2>2. h = Gate(g, "plain", g.done, b)
    BY <1>0, <2>1 DEF Gate
  <2> QED BY <2>2 DEF h
<1>5. \A mode \in {"undecided", "plain", "encoded"}, done \in BOOLEAN :
         Gate(g, mode, done, b) \in Gates
  BY GateTypes DEF Gate, Gates
<1> QED BY <1>1, <1>2, <1>3, <1>4, <1>5

\* A new gate is undecided and holds nothing back.
LEMMA GatesAre ==
    /\ NewGate \in Gates /\ NewGate.mode = "undecided" /\ ~NewGate.done
    /\ NewGate.pending = <<>>
    /\ PlainGate \in Gates /\ PlainGate.mode = "plain" /\ ~PlainGate.done
    /\ PlainGate.pending = <<>>
<1>1. /\ NewGate \in Gates /\ NewGate.mode = "undecided" /\ ~NewGate.done
      /\ NewGate.pending = <<>>
  BY NoCharacters DEF NewGate, Gates
<1>2. PlainGate \in Gates
  BY <1>1, NoCharacters, GateChanges DEF PlainGate
<1>3. PlainGate.mode = "plain" /\ ~PlainGate.done /\ PlainGate.pending = <<>>
  BY DEF PlainGate, Gate
<1> QED BY <1>1, <1>2, <1>3

\* The first character that is no blank stays where it is.
LEMMA BeginningGrown ==
    ASSUME NEW x \in Word, NEW y \in Word, TrimLeft(x) # <<>>
    PROVE  TrimLeft(x \o y) # <<>> /\ TrimLeft(x \o y)[1] = TrimLeft(x)[1]
<1> DEFINE t == TrimLeft(x)
<1>1. t \in Word /\ TrimLeft(x \o y) = t \o y
  BY TrimLeftIs, TrimGrown
<1>2. t # <<>>
  OBVIOUS
<1> HIDE DEF t
<1>3. Len(t) \in Nat /\ Len(t) # 0 /\ Len(y) \in Nat
  BY <1>1, <1>2, EmptySeq DEF Word
<1>4. /\ Len(t \o y) = Len(t) + Len(y)
      /\ \A i \in 1..(Len(t) + Len(y)) : (t \o y)[i] = IF i <= Len(t) THEN t[i] ELSE y[i - Len(t)]
  BY <1>1, ConcatProperties DEF Word
<1>5. t \o y # <<>> /\ (t \o y)[1] = t[1]
  BY <1>3, <1>4
<1> QED BY <1>1, <1>5 DEF t

\* What a string literal says, and that it says the same however the text goes on.
LEMMA DecodeStringIs ==
    ASSUME NEW x \in Word
    PROVE  /\ DecodeString(x) \subseteq Word
           /\ \A i, j \in DecodeString(x) : i = j
           /\ DecodeString(x) # {} => TrimLeft(x) # <<>> /\ TrimLeft(x)[1] = Quote
<1> DEFINE t == TrimLeft(x)
           r == Reading(From(t, 2))[Len(t) - 1]
<1>1. DecodeString(x) = IF t # <<>> /\ t[1] = Quote /\ r.closed THEN {r.str} ELSE {}
  BY DEF DecodeString
<1>2. ASSUME t # <<>> PROVE r.str \in Word
  <2>1. t \in Word /\ Len(t) \in Nat /\ Len(t) # 0
    BY <1>2, TrimLeftIs, EmptySeq DEF Word
  <2> HIDE DEF t
  <2>2. 2 \in 1..(Len(t) + 1)
    BY <2>1
  <2>3. From(t, 2) \in Word /\ Len(From(t, 2)) = Len(t) - 2 + 1
    BY <2>1, <2>2, FromIs DEF Word
  <2>4. Len(t) - 1 \in 0..Len(From(t, 2))
    BY <2>1, <2>3
  <2>5. r \in Readers
    BY <2>3, <2>4, ReadingTypes
  <2> QED BY <2>5 DEF Readers
<1> HIDE DEF t, r
<1> QED BY <1>1, <1>2 DEF t

LEMMA DecodeStringGrown ==
    ASSUME NEW x \in Word, NEW y \in Word, DecodeString(x) # {}
    PROVE  DecodeString(x \o y) = DecodeString(x)
<1> DEFINE t == TrimLeft(x)
           u == TrimLeft(x \o y)
           v == From(t, 2)
<1>1. t # <<>> /\ t[1] = Quote /\ Reading(v)[Len(t) - 1].closed
      /\ DecodeString(x) = {Reading(v)[Len(t) - 1].str}
  BY DEF DecodeString
<1>2. t \in Word /\ u = t \o y /\ u # <<>> /\ u[1] = t[1]
  BY <1>1, TrimLeftIs, TrimGrown, BeginningGrown
<1>3. DecodeString(x \o y) = IF u # <<>> /\ u[1] = Quote /\ Reading(From(u, 2))[Len(u) - 1].closed
                             THEN {Reading(From(u, 2))[Len(u) - 1].str} ELSE {}
  BY DEF DecodeString
<1> HIDE DEF t, u, v
<1>4. Len(t) \in Nat /\ Len(t) # 0 /\ Len(y) \in Nat /\ Len(u) = Len(t) + Len(y)
  BY <1>1, <1>2, Joined, EmptySeq DEF Word
<1>5. 2 \in 1..(Len(t) + 1)
  BY <1>4
<1>6. v \in Word /\ Len(v) = Len(t) - 1 /\ From(u, 2) = v \o y
  <2>1. v \in Word /\ Len(v) = Len(t) - 2 + 1
    BY <1>2, <1>5, FromIs DEF Word, v
  <2>2. From(u, 2) = v \o y
    BY <1>2, <1>5, FromGrown DEF Word, v
  <2> QED BY <1>4, <2>1, <2>2
<1>7. Reading(v \o y)[Len(v) + Len(y)] = Reading(v)[Len(v)]
  <2>1. Len(y) \in 0..Len(y) /\ Reading(v)[Len(v)].closed
    BY <1>1, <1>4, <1>6
  <2> QED BY <1>6, <2>1, ReadingGrown
<1>8. Len(u) - 1 = Len(v) + Len(y)
  BY <1>4, <1>6
<1> QED BY <1>1, <1>2, <1>3, <1>6, <1>7, <1>8

\* What json.Marshal keeps is a text without blanks.
MarshalTo(solid, s, k) ==
    solid = [i \in 0..k |-> IF i = 0 THEN <<>>
                            ELSE IF s[i] = Blank THEN solid[i - 1] ELSE Append(solid[i - 1], s[i])]

LEMMA MarshalIs ==
    ASSUME NEW s \in Word
    PROVE  \E solid : /\ Marshal(s) = solid[Len(s)]
                      /\ solid[0] = <<>>
                      /\ \A i \in 1..Len(s) : solid[i] = IF s[i] = Blank THEN solid[i - 1]
                                                         ELSE Append(solid[i - 1], s[i])
<1> DEFINE S == {k \in Nat : \E solid : MarshalTo(solid, s, k)}
<1>1. 0 \in S
  <2>1. MarshalTo([i \in 0..0 |-> <<>>], s, 0)
    BY DEF MarshalTo
  <2> QED BY <2>1
<1>2. ASSUME NEW k \in Nat, k \in S PROVE k + 1 \in S
  <2>1. PICK solid : MarshalTo(solid, s, k)
    BY <1>2
  <2> DEFINE last == IF s[k + 1] = Blank THEN solid[k] ELSE Append(solid[k], s[k + 1])
             more == [i \in 0..(k + 1) |-> IF i = k + 1 THEN last ELSE solid[i]]
  <2>2. \A i \in 0..k : solid[i] = IF i = 0 THEN <<>>
                                   ELSE IF s[i] = Blank THEN solid[i - 1] ELSE Append(solid[i - 1], s[i])
    BY <2>1 DEF MarshalTo
  <2>3. \A i \in 0..k : more[i] = solid[i]
    OBVIOUS
  <2>4. more[k + 1] = last
    OBVIOUS
  <2> HIDE DEF more
  <2>5. ASSUME NEW i \in 0..(k + 1)
        PROVE  more[i] = IF i = 0 THEN <<>>
                         ELSE IF s[i] = Blank THEN more[i - 1] ELSE Append(more[i - 1], s[i])
    <3>1. CASE i = k + 1
      BY <2>3, <2>4, <3>1
    <3>2. CASE i # k + 1
      <4>1. i \in 0..k /\ (i # 0 => i - 1 \in 0..k)
        BY <3>2
      <4> QED BY <2>2, <2>3, <4>1
    <3> QED BY <3>1, <3>2
  <2>6. MarshalTo(more, s, k + 1)
    BY <2>5 DEF MarshalTo, more
  <2> QED BY <2>6
<1> HIDE DEF S
<1>3. Len(s) \in Nat
  BY DEF Word
<1>4. Len(s) \in S
  BY <1>1, <1>2, <1>3, Induction
<1>5. \E solid : MarshalTo(solid, s, Len(s))
  BY <1>4 DEF S
<1> DEFINE f == CHOOSE solid : MarshalTo(solid, s, Len(s))
<1>6. Marshal(s) = f[Len(s)]
  BY DEF Marshal, MarshalTo
<1>7. MarshalTo(f, s, Len(s))
  BY <1>5
<1> HIDE DEF f
<1>8. \A i \in 0..Len(s) : f[i] = IF i = 0 THEN <<>>
                                  ELSE IF s[i] = Blank THEN f[i - 1] ELSE Append(f[i - 1], s[i])
  BY <1>7 DEF MarshalTo
<1>9. f[0] = <<>> /\ \A i \in 1..Len(s) : f[i] = IF s[i] = Blank THEN f[i - 1]
                                                 ELSE Append(f[i - 1], s[i])
  BY <1>3, <1>8
<1> QED BY <1>6, <1>9

\* A function that makes every value but the first of the one before.
Recurs(f, Val, first, k, step) ==
    /\ f \in [0..k -> Val]
    /\ f[0] = first
    /\ \A i \in 1..k : f[i] = step[<<f[i - 1], i>>]

\* There is one, however far it is to go.
LEMMA Recursion ==
    ASSUME NEW Val, NEW first \in Val, NEW k \in Nat, NEW step \in [Val \X (1..k) -> Val]
    PROVE  \E f : Recurs(f, Val, first, k, step)
<1> DEFINE S == {j \in Nat : j <= k => \E f \in [0..j -> Val] :
                                /\ f[0] = first
                                /\ \A i \in 1..j : f[i] = step[<<f[i - 1], i>>]}
<1>1. 0 \in S
  <2> DEFINE f == [i \in 0..0 |-> first]
  <2>1. f \in [0..0 -> Val] /\ f[0] = first
    OBVIOUS
  <2>2. \A i \in 1..0 : f[i] = step[<<f[i - 1], i>>]
    OBVIOUS
  <2> HIDE DEF f
  <2> QED BY <2>1, <2>2
<1>2. ASSUME NEW j \in Nat, j \in S PROVE j + 1 \in S
  <2> SUFFICES ASSUME j + 1 <= k
               PROVE  \E f \in [0..(j + 1) -> Val] :
                         /\ f[0] = first
                         /\ \A i \in 1..(j + 1) : f[i] = step[<<f[i - 1], i>>]
    OBVIOUS
  <2>1. PICK f \in [0..j -> Val] : f[0] = first /\ \A i \in 1..j : f[i] = step[<<f[i - 1], i>>]
    BY <1>2
  <2> DEFINE last == step[<<f[j], j + 1>>]
             h == [i \in 0..(j + 1) |-> IF i = j + 1 THEN last ELSE f[i]]
  <2>2. last \in Val
    <3>1. f[j] \in Val /\ j + 1 \in 1..k
      BY <2>1
    <3> QED BY <3>1
  <2>3. (\A i \in 0..j : h[i] = f[i]) /\ h[j + 1] = last
    OBVIOUS
  <2>4. h \in [0..(j + 1) -> Val]
    BY <2>1, <2>2
  <2> HIDE DEF h
  <2>5. ASSUME NEW i \in 1..(j + 1) PROVE h[i] = step[<<h[i - 1], i>>]
    <3>1. CASE i = j + 1
      BY <2>3, <3>1
    <3>2. CASE i # j + 1
      <4>1. i \in 1..j /\ i \in 0..j /\ i - 1 \in 0..j
        BY <3>2
      <4> QED BY <2>1, <2>3, <4>1
    <3> QED BY <3>1, <3>2
  <2>6. h[0] = first
    BY <2>1, <2>3
  <2> QED BY <2>4, <2>5, <2>6
<1> HIDE DEF S
<1>3. k \in S
  BY <1>1, <1>2, Induction
<1>4. \E f \in [0..k -> Val] : f[0] = first /\ \A i \in 1..k : f[i] = step[<<f[i - 1], i>>]
  BY <1>3 DEF S
<1> QED BY <1>4 DEF Recurs

\* One character more in a string literal.
QuotedNext(q, c) ==
    CASE q = "no"     -> IF c = Quote THEN "yes" ELSE "no"
      [] q = "escape" -> "yes"
      [] q = "yes"    -> IF c = Backslash THEN "escape" ELSE IF c = Quote THEN "no" ELSE "yes"

QuotedTo(quoted, s, k) ==
    quoted = [i \in 0..k |-> IF i = 0 THEN "no" ELSE QuotedNext(quoted[i - 1], s[i])]

\* Quoted goes from each character to the next, as its definition says.
LEMMA QuotedIs ==
    ASSUME NEW s \in Word
    PROVE  /\ Quoted(s)[0] = "no"
           /\ \A i \in 0..Len(s) : Quoted(s)[i] \in {"no", "yes", "escape"}
           /\ \A i \in 1..Len(s) : Quoted(s)[i] = QuotedNext(Quoted(s)[i - 1], s[i])
<1> DEFINE Val == {"no", "yes", "escape"}
           step == [p \in Val \X (1..Len(s)) |-> QuotedNext(p[1], s[p[2]])]
<1>1. Len(s) \in Nat
  BY DEF Word
<1>2. \A q \in Val : \A c : QuotedNext(q, c) \in Val
  BY DEF QuotedNext
<1>3. step \in [Val \X (1..Len(s)) -> Val]
  <2> HIDE DEF Val
  <2> QED BY <1>2
<1>4. \A q \in Val, i \in 1..Len(s) : step[<<q, i>>] = QuotedNext(q, s[i])
  <2> HIDE DEF Val
  <2> QED OBVIOUS
<1>5. "no" \in Val
  OBVIOUS
<1> HIDE DEF step, Val
<1>0. PICK f : Recurs(f, Val, "no", Len(s), step)
  BY <1>1, <1>3, <1>5, Recursion
<1>6. /\ f \in [0..Len(s) -> Val] /\ f[0] = "no"
      /\ \A i \in 1..Len(s) : f[i] = step[<<f[i - 1], i>>]
  BY <1>0 DEF Recurs
<1>7. ASSUME NEW i \in 0..Len(s)
      PROVE  f[i] = IF i = 0 THEN "no" ELSE QuotedNext(f[i - 1], s[i])
  <2>1. CASE i = 0
    BY <1>6, <2>1
  <2>2. CASE i # 0
    <3>1. i \in 1..Len(s) /\ i - 1 \in 0..Len(s)
      BY <1>1, <2>2
    <3>2. f[i - 1] \in Val
      BY <1>6, <3>1
    <3> QED BY <1>4, <1>6, <2>2, <3>1, <3>2
  <2> QED BY <2>1, <2>2
<1>8. QuotedTo(f, s, Len(s))
  BY <1>6, <1>7 DEF QuotedTo
<1> DEFINE h == Quoted(s)
<1>9. h = CHOOSE quoted : QuotedTo(quoted, s, Len(s))
  BY DEF Quoted, QuotedTo, QuotedNext
<1>10. QuotedTo(h, s, Len(s))
  BY <1>8, <1>9
<1> HIDE DEF h
<1>11. \A i \in 0..Len(s) : h[i] = IF i = 0 THEN "no" ELSE QuotedNext(h[i - 1], s[i])
  BY <1>10 DEF QuotedTo
<1>12. h[0] = "no" /\ \A i \in 1..Len(s) : h[i] = QuotedNext(h[i - 1], s[i])
  BY <1>1, <1>11
<1> DEFINE S == {j \in Nat : j <= Len(s) => h[j] \in Val}
<1>13. 0 \in S
  BY <1>5, <1>12
<1>14. ASSUME NEW j \in Nat, j \in S PROVE j + 1 \in S
  <2> SUFFICES ASSUME j + 1 <= Len(s) PROVE h[j + 1] \in Val
    OBVIOUS
  <2>1. j + 1 \in 1..Len(s) /\ j + 1 - 1 = j /\ h[j] \in Val
    BY <1>1, <1>14
  <2> QED BY <1>2, <1>12, <2>1 DEF Val
<1> HIDE DEF S
<1>15. \A i \in 0..Len(s) : i \in S
  BY <1>1, <1>13, <1>14, Induction
<1> QED BY <1>12, <1>15 DEF S, h, Val

\* One character more, with so many brackets open and so far in a string literal.
NestingNext(v, q, c) ==
    CASE q = "no" /\ c \in Opening -> v + 1
      [] q = "no" /\ c \in Closing -> v - 1
      [] OTHER -> v

NestingTo(nesting, s, k) ==
    nesting = [i \in 0..k |-> IF i = 0 THEN 0
                              ELSE NestingNext(nesting[i - 1], Quoted(s)[i - 1], s[i])]

\* So does Nesting.
LEMMA NestingIs ==
    ASSUME NEW s \in Word
    PROVE  /\ Nesting(s)[0] = 0
           /\ \A i \in 0..Len(s) : Nesting(s)[i] \in Int
           /\ \A i \in 1..Len(s) :
                 Nesting(s)[i] = NestingNext(Nesting(s)[i - 1], Quoted(s)[i - 1], s[i])
<1> DEFINE step == [p \in Int \X (1..Len(s)) |-> NestingNext(p[1], Quoted(s)[p[2] - 1], s[p[2]])]
<1>1. Len(s) \in Nat
  BY DEF Word
<1>2. \A v \in Int : \A q, c : NestingNext(v, q, c) \in Int
  BY DEF NestingNext
<1>3. step \in [Int \X (1..Len(s)) -> Int]
  BY <1>2
<1>4. \A v \in Int, i \in 1..Len(s) : step[<<v, i>>] = NestingNext(v, Quoted(s)[i - 1], s[i])
  OBVIOUS
<1> HIDE DEF step
<1>0. PICK f : Recurs(f, Int, 0, Len(s), step)
  <2>1. 0 \in Int
    OBVIOUS
  <2> QED BY ONLY <1>1, <1>3, <2>1, Recursion
<1>5. /\ f \in [0..Len(s) -> Int] /\ f[0] = 0
      /\ \A i \in 1..Len(s) : f[i] = step[<<f[i - 1], i>>]
  BY <1>0 DEF Recurs
<1>6. ASSUME NEW i \in 0..Len(s)
      PROVE  f[i] = IF i = 0 THEN 0 ELSE NestingNext(f[i - 1], Quoted(s)[i - 1], s[i])
  <2>1. CASE i = 0
    BY <1>5, <2>1
  <2>2. CASE i # 0
    <3>1. i \in 1..Len(s) /\ i - 1 \in 0..Len(s)
      BY <1>1, <2>2
    <3>2. f[i - 1] \in Int
      BY <1>5, <3>1
    <3> QED BY <1>4, <1>5, <2>2, <3>1, <3>2
  <2> QED BY <2>1, <2>2
<1>7. NestingTo(f, s, Len(s))
  BY <1>5, <1>6 DEF NestingTo
<1> DEFINE h == Nesting(s)
<1>8. h = CHOOSE nesting : NestingTo(nesting, s, Len(s))
  BY DEF Nesting, NestingTo, NestingNext
<1>9. NestingTo(h, s, Len(s))
  BY <1>7, <1>8
<1> HIDE DEF h
<1>10. \A i \in 0..Len(s) :
          h[i] = IF i = 0 THEN 0 ELSE NestingNext(h[i - 1], Quoted(s)[i - 1], s[i])
  BY <1>9 DEF NestingTo
<1>11. h[0] = 0 /\ \A i \in 1..Len(s) : h[i] = NestingNext(h[i - 1], Quoted(s)[i - 1], s[i])
  BY <1>1, <1>10
<1> DEFINE S == {j \in Nat : j <= Len(s) => h[j] \in Int}
<1>12. 0 \in S
  BY <1>11
<1>13. ASSUME NEW j \in Nat, j \in S PROVE j + 1 \in S
  <2> SUFFICES ASSUME j + 1 <= Len(s) PROVE h[j + 1] \in Int
    OBVIOUS
  <2>1. j + 1 \in 1..Len(s) /\ j + 1 - 1 = j /\ h[j] \in Int
    BY <1>1, <1>13
  <2> QED BY <1>2, <1>11, <2>1
<1> HIDE DEF S
<1>14. \A i \in 0..Len(s) : i \in S
  BY <1>1, <1>12, <1>13, Induction
<1> QED BY <1>11, <1>14 DEF S, h

\* Whatever is decoded or normalized is an object.
LEMMA ObjectsAre ==
    /\ Object \subseteq Word
    /\ \A o \in Object : Marshal(o) \in Object
    /\ \A s : DecodeObject(s) \subseteq Object
    /\ \A s : FirstObject(s) \in Object
    /\ \A s : NormalizeToolArguments(s) \in Object
<1>1. Object \subseteq Word
  BY TextAssumption DEF Word
<1>2. EmptyObject \in Object /\ \A o \in Object : Marshal(o) \in Object
  BY ObjectAssumption
<1>3. \A s : DecodeObject(s) \subseteq Object
  BY DEF DecodeObject
<1>4. ASSUME NEW s PROVE FirstObject(s) \in Object
  <2>1. CASE DecodeObject(s) = {}
    BY <1>2, <2>1 DEF FirstObject
  <2>2. CASE DecodeObject(s) # {}
    <3>1. (CHOOSE o \in DecodeObject(s) : TRUE) \in Object
      BY <1>3, <2>2
    <3> QED BY <1>2, <2>2, <3>1 DEF FirstObject
  <2> QED BY <2>1, <2>2
<1>5. ASSUME NEW s PROVE NormalizeToolArguments(s) \in Object
  BY <1>4 DEF NormalizeToolArguments
<1> QED BY <1>1, <1>2, <1>3, <1>4, <1>5

\* The gate without the pieces its pending text came in.
Bare(g) == [g EXCEPT !.pending = Chars(@)]

\* What it has in common with the gate.
LEMMA GateFields ==
    ASSUME NEW g \in Gates
    PROVE  /\ Bare(g) = Gate(g, g.mode, g.done, Chars(g.pending))
           /\ Bare(g).mode = g.mode /\ Bare(g).done = g.done
           /\ Bare(g).pending = Chars(g.pending)
           /\ g.pending = <<>> => Bare(g) = g
           /\ \A mode, done, pending :
                 Gate(Bare(g), mode, done, pending) = Gate(g, mode, done, pending)
<1>1. Bare(g) = Gate(g, g.mode, g.done, Chars(g.pending))
  BY GateTypes DEF Bare, Gate
<1>2. ASSUME g.pending = <<>> PROVE Bare(g) = g
  <2>1. Chars(g.pending) = <<>>
    BY <1>2, NoCharacters
  <2> QED BY <1>1, <1>2, <2>1, GateTypes
<1>3. /\ Bare(g).mode = g.mode /\ Bare(g).done = g.done
      /\ Bare(g).pending = Chars(g.pending)
      /\ Bare(g).depth = g.depth /\ Bare(g).started = g.started
      /\ Bare(g).inString = g.inString /\ Bare(g).escaped = g.escaped
  BY <1>1 DEF Gate
<1>4. \A mode, done, pending : Gate(Bare(g), mode, done, pending) = Gate(g, mode, done, pending)
  BY <1>3 DEF Gate
<1> QED BY <1>1, <1>2, <1>3, <1>4

\* A plain value and a string literal are filtered without looking at pieces.
LEMMA FilterPlainIs ==
    ASSUME NEW g \in Gates, NEW s \in Str
    PROVE  LET p == FilterPlain(g, s)
               h == Gate(g, "plain", g.done, <<>>)
           IN
           /\ p.filter \in Gates /\ p.args \in Word
           /\ p.filter.pending = <<>>
           /\ Let(p.filter, p.args) = PlainValue(h, Chars(s))
<1> DEFINE x == Chars(s)
           h == Gate(g, "plain", g.done, <<>>)
           value == IF Ends(h, x) = {} THEN s ELSE SubSeq(s, 1, Min(Ends(h, x)))
           p == FilterPlain(g, s)
<1>1. x \in Word /\ Len(x) = Len(s)
  BY CharsIs
<1>2. h \in Gates /\ h.pending = <<>>
  BY ZenonT(60), NoCharacters, GateTypes, GateChanges DEF Gate
<1>0. h = [g EXCEPT !.mode = "plain", !.pending = <<>>]
  BY NoCharacters, GateChanges
<1> HIDE DEF h
<1>3. p = Passed(Scanning(h, x)[Len(x)], Chars(value), Frags(value))
  BY <1>0, <1>1 DEF FilterPlain, Ends
<1> HIDE DEF p
<1>4. Scanning(h, x)[Len(x)] \in Gates /\ Scanning(h, x)[Len(x)].pending = <<>>
  <2>1. Len(x) \in 0..Len(x)
    BY <1>1 DEF Word
  <2> HIDE DEF x
  <2>2. Scanning(h, x)[Len(x)] \in Gates /\ Scanning(h, x)[Len(x)].pending = h.pending
    BY <1>1, <1>2, <2>1, ScanningTypes
  <2> QED BY <1>2, <2>2
<1>5. Chars(value) = IF Ends(h, x) = {} THEN x ELSE SubSeq(x, 1, Min(Ends(h, x)))
  <2>1. CASE Ends(h, x) = {}
    BY <2>1
  <2>2. CASE Ends(h, x) # {}
    <3>1. Ends(h, x) \in SUBSET Nat /\ Ends(h, x) \subseteq 0..Len(s)
      BY <1>1 DEF Ends, Str
    <3>2. Min(Ends(h, x)) \in 0..Len(s)
      BY <2>2, <3>1, MinIs
    <3>3. Chars(SubSeq(s, 1, Min(Ends(h, x)))) = SubSeq(x, 1, Min(Ends(h, x)))
      BY <3>2, CharsCut
    <3> QED BY <2>2, <3>3
  <2> QED BY <2>1, <2>2
<1>6. Chars(value) \in Word
  <2>1. CASE Ends(h, x) = {}
    BY <1>1, <2>1
  <2>2. CASE Ends(h, x) # {}
    <3>1. Ends(h, x) \in SUBSET Nat /\ Ends(h, x) \subseteq 0..Len(x)
      BY <1>1 DEF Ends, Word
    <3>2. Min(Ends(h, x)) \in 0..Len(x)
      BY <2>2, <3>1, MinIs
    <3> HIDE DEF x
    <3>3. SubSeq(x, 1, Min(Ends(h, x))) \in Word
      BY <1>1, <3>2, CutIs DEF Word
    <3> QED BY <1>5, <2>2, <3>3
  <2> QED BY <2>1, <2>2
<1> HIDE DEF value
<1>7. p.filter = Scanning(h, x)[Len(x)] /\ p.args = Chars(value)
  BY <1>3 DEF Passed
<1>8. Let(p.filter, p.args) = PlainValue(h, x)
  BY <1>5, <1>7 DEF PlainValue
<1> QED BY <1>4, <1>6, <1>7, <1>8 DEF p, h

LEMMA FilterEncodedIs ==
    ASSUME NEW g \in Gates, NEW b \in Str
    PROVE  LET p == FilterEncodedString(g, b) IN
           /\ p.filter \in Gates /\ p.args \in Word
           /\ Let(Bare(p.filter), p.args) = PlainEncoded(Bare(g), Chars(b))
<1> DEFINE x == Chars(b)
           p == FilterEncodedString(g, b)
<1>1. x \in Word /\ <<>> \in Str /\ <<>> \in Word
  BY CharsIs, NoCharacters
<1>2. \A mode, done, pending : Gate(Bare(g), mode, done, pending) = Gate(g, mode, done, pending)
  BY GateFields
<1>3. CASE DecodeString(x) = {}
  <2> DEFINE q == Gate(g, "encoded", g.done, b)
  <2>1. p.filter = [g EXCEPT !.mode = "encoded", !.pending = b] /\ p.args = <<>>
    BY SMTT(40), <1>3 DEF FilterEncodedString, Passed
  <2>2. p.filter = q /\ q \in Gates
    BY <2>1, GateTypes, GateChanges
  <2>3. q.mode = "encoded" /\ q.done = g.done /\ q.pending = b
    BY DEF Gate
  <2>4. Bare(q) = Gate(q, "encoded", g.done, x)
    BY <2>2, <2>3, GateFields
  <2>5. Gate(q, "encoded", g.done, x) = Gate(g, "encoded", g.done, x)
    BY DEF Gate
  <2> HIDE DEF q
  <2>6. Bare(g).done = g.done
    BY GateFields
  <2>7. PlainEncoded(Bare(g), x) = Let(Gate(g, "encoded", g.done, x), <<>>)
    BY <1>2, <1>3, <2>6 DEF PlainEncoded
  <2> QED BY <1>1, <2>1, <2>2, <2>4, <2>5, <2>7
<1>4. CASE DecodeString(x) # {}
  <2> DEFINE q == Gate(g, "encoded", TRUE, <<>>)
  <2>1. /\ p.filter = [g EXCEPT !.mode = "encoded", !.pending = <<>>, !.done = TRUE]
        /\ p.args = Unwrapped(x)
    BY <1>4 DEF FilterEncodedString, Passed, Unwrapped
  <2>2. PlainEncoded(Bare(g), x) = Let(q, Unwrapped(x))
    BY <1>2, <1>4 DEF PlainEncoded
  <2>3. p.filter = q /\ q \in Gates
    BY <1>1, <2>1, GateTypes, GateChanges
  <2>4. q.pending = <<>>
    BY DEF Gate
  <2>5. p.args \in Word
    BY <2>1, ObjectsAre DEF Unwrapped
  <2>6. Bare(q) = q
    BY <2>3, <2>4, GateFields
  <2> QED BY <2>1, <2>2, <2>3, <2>5, <2>6
<1> QED BY <1>3, <1>4

\* The gate stands where a new gate would stand that had been given x at once, and has let
\* through what that one would have.
GateFollows(g, args, x) ==
    g \in Gates /\ args \in Word /\ Let(Bare(g), args) = PlainFilter(x)

\* A gate that knows no more than its mode and its pending text decides as a new one.
LEMMA EncodedAnew ==
    ASSUME NEW g \in Gates, NEW x, NEW mode, NEW pending,
           Bare(g) = Gate(NewGate, mode, FALSE, pending)
    PROVE  /\ g.mode = mode /\ ~g.done /\ Chars(g.pending) = pending
           /\ PlainEncoded(Bare(g), x) = PlainEncoded(NewGate, x)
           /\ \A m, d, q : Gate(g, m, d, q) = Gate(NewGate, m, d, q)
<1>1. g.mode = mode /\ g.done = FALSE /\ Chars(g.pending) = pending
  <2>1. /\ Bare(g).mode = g.mode /\ Bare(g).done = g.done
        /\ Bare(g).pending = Chars(g.pending)
    BY GateFields
  <2> DEFINE h == Gate(NewGate, mode, FALSE, pending)
  <2>2. h.mode = mode /\ h.done = FALSE /\ h.pending = pending
    BY DEF Gate
  <2>3. Bare(g) = h
    OBVIOUS
  <2> HIDE DEF h
  <2> QED BY <2>1, <2>2, <2>3
<1>2. \A m, d, q : Gate(Bare(g), m, d, q) = Gate(NewGate, m, d, q)
  <2> DEFINE h == Gate(NewGate, mode, FALSE, pending)
  <2>1. \A m, d, q : Gate(h, m, d, q) = Gate(NewGate, m, d, q)
    BY DEF Gate
  <2>2. Bare(g) = h
    OBVIOUS
  <2> HIDE DEF h
  <2> QED BY <2>1, <2>2
<1>3. \A m, d, q : Gate(Bare(g), m, d, q) = Gate(g, m, d, q)
  BY GateFields
<1>4. NewGate.done = FALSE /\ Bare(g).done = FALSE
  BY <1>1, GatesAre, GateFields DEF NewGate
<1>5. PlainEncoded(Bare(g), x) = PlainEncoded(NewGate, x)
  <2>1. CASE DecodeString(x) = {}
    BY <1>2, <1>4, <2>1 DEF PlainEncoded
  <2>2. CASE DecodeString(x) # {}
    BY <1>2, <2>2 DEF PlainEncoded
  <2> QED BY <2>1, <2>2
<1> QED BY ZenonT(60), <1>1, <1>2, <1>3, <1>5

\* Whatever the pieces of its text, the gate does what a new one does that is given them
\* together.
LEMMA GatePush ==
    ASSUME NEW g, NEW args, NEW x \in Word, NEW s \in Str, GateFollows(g, args, x)
    PROVE  LET p == GateFilter(g, s) IN
           p.args \in Word /\ GateFollows(p.filter, args \o p.args, x \o Chars(s))
<1> DEFINE y == Chars(s)
           xy == x \o y
           b == g.pending \o s
           p == GateFilter(g, s)
           t == TrimLeft(x)
           u == TrimLeft(xy)
<1>1. g \in Gates /\ args \in Word /\ Let(Bare(g), args) = PlainFilter(x)
  BY DEF GateFollows
<1>2. /\ y \in Word /\ xy \in Word /\ g.pending \in Str /\ b \in Str
      /\ Chars(b) = Chars(g.pending) \o y /\ Chars(b) \in Word /\ <<>> \in Word
  BY <1>1, CharsIs, CharsConcat, StrJoined, Joined, GateTypes, NoCharacters
<1>3. \A q \in Word : <<>> \o q = q /\ q \o <<>> = q
  BY JoinedNothing DEF Word
<1> DEFINE trimmed == TrimLeft(Chars(b))
<1>4. p = CASE g.done -> Passed(g, <<>>, <<>>)
            [] ~g.done /\ g.mode = "plain" -> FilterPlain(g, s)
            [] ~g.done /\ g.mode = "encoded" -> FilterEncodedString(g, b)
            [] ~g.done /\ g.mode = "undecided" ->
                 IF trimmed = <<>> THEN Passed([g EXCEPT !.pending = b], <<>>, <<>>)
                 ELSE IF trimmed[1] = Quote THEN FilterEncodedString(g, b)
                 ELSE FilterPlain(g, b)
  BY DEF GateFilter
<1>5. SUFFICES /\ p.filter \in Gates /\ p.args \in Word
               /\ Let(Bare(p.filter), args \o p.args) = PlainFilter(xy)
  BY <1>1, Joined DEF GateFollows, Word
<1> HIDE DEF p, b, y, xy
<1>6. /\ Bare(g) = PlainFilter(x).filter /\ args = PlainFilter(x).args
  BY <1>1 DEF Let
<1>7. ASSUME Bare(g) = Gate(NewGate, "encoded", FALSE, x) \/ Bare(g) = Gate(NewGate, "undecided", FALSE, x),
             p = FilterEncodedString(g, b), args = <<>>, u # <<>>, u[1] = Quote
      PROVE  /\ p.filter \in Gates /\ p.args \in Word
             /\ Let(Bare(p.filter), args \o p.args) = PlainFilter(xy)
  <2>1. Chars(g.pending) = x /\ PlainEncoded(Bare(g), xy) = PlainEncoded(NewGate, xy)
    <3>1. CASE Bare(g) = Gate(NewGate, "encoded", FALSE, x)
      <4>1. Chars(g.pending) = x
        BY ZenonT(60), <1>1, <3>1, EncodedAnew
      <4>2. PlainEncoded(Bare(g), xy) = PlainEncoded(NewGate, xy)
        BY ZenonT(60), <1>1, <3>1, EncodedAnew
      <4> QED BY <4>1, <4>2
    <3>2. CASE Bare(g) = Gate(NewGate, "undecided", FALSE, x)
      <4>1. Chars(g.pending) = x
        BY ZenonT(60), <1>1, <3>2, EncodedAnew
      <4>2. PlainEncoded(Bare(g), xy) = PlainEncoded(NewGate, xy)
        BY ZenonT(60), <1>1, <3>2, EncodedAnew
      <4> QED BY <4>1, <4>2
    <3> QED BY <1>7, <3>1, <3>2
  <2>2. Chars(b) = xy
    BY <1>2, <2>1 DEF xy
  <2>3. /\ p.filter \in Gates /\ p.args \in Word
        /\ Let(Bare(p.filter), p.args) = PlainEncoded(Bare(g), xy)
    BY <1>1, <1>2, <1>7, <2>2, FilterEncodedIs
  <2>4. PlainFilter(xy) = PlainEncoded(NewGate, xy)
    BY <1>7 DEF PlainFilter
  <2> QED BY <1>3, <1>7, <2>1, <2>3, <2>4
<1>8. CASE t = <<>>
  <2>1. Bare(g) = Gate(NewGate, "undecided", FALSE, x) /\ args = <<>>
    BY <1>6, <1>8 DEF PlainFilter, Let
  <2>2. g.mode = "undecided" /\ ~g.done /\ Chars(g.pending) = x
    BY ZenonT(60), <1>1, <2>1, EncodedAnew
  <2>3. \A m, d, q : Gate(g, m, d, q) = Gate(NewGate, m, d, q)
    BY <1>1, <2>1, EncodedAnew
  <2>4. Chars(b) = xy /\ trimmed = u
    BY <1>2, <2>2 DEF xy
  <2>5. CASE u = <<>>
    <3> DEFINE q == Gate(g, "undecided", FALSE, b)
    <3>1. p = Passed([g EXCEPT !.pending = b], <<>>, <<>>)
      BY <1>4, <2>2, <2>4, <2>5
    <3>2. [g EXCEPT !.pending = b] = Gate(g, g.mode, g.done, b) /\ g.done = FALSE
      BY <1>1, <1>2, <2>2, GateChanges, GateTypes
    <3>3. p.filter = q /\ p.args = <<>>
      BY <2>2, <3>1, <3>2 DEF Passed
    <3>4. q \in Gates
      BY <1>1, <1>2, GateChanges
    <3>5. q.mode = "undecided" /\ q.done = FALSE /\ q.pending = b
      BY DEF Gate
    <3>6. Bare(q) = Gate(q, "undecided", FALSE, xy)
      BY <2>4, <3>4, <3>5, GateFields
    <3>7. Gate(q, "undecided", FALSE, xy) = Gate(g, "undecided", FALSE, xy)
      BY DEF Gate
    <3>8. PlainFilter(xy) = Let(Gate(NewGate, "undecided", FALSE, xy), <<>>)
      BY <2>5 DEF PlainFilter
    <3> HIDE DEF q
    <3> QED BY ZenonT(60), <1>2, <1>3, <2>1, <2>3, <3>3, <3>4, <3>6, <3>7, <3>8
  <2>6. CASE u # <<>> /\ u[1] = Quote
    <3>1. p = FilterEncodedString(g, b)
      BY <1>4, <2>2, <2>4, <2>6
    <3> QED BY <1>7, <2>1, <2>6, <3>1
  <2>7. CASE u # <<>> /\ u[1] # Quote
    <3>1. p = FilterPlain(g, b)
      BY <1>4, <2>2, <2>4, <2>7
    <3>2. Gate(g, "plain", g.done, <<>>) = PlainGate
      <4>1. g.done = FALSE
        BY <1>1, <2>2, GateTypes
      <4> QED BY <2>3, <4>1 DEF PlainGate
    <3>3. /\ p.filter \in Gates /\ p.args \in Word /\ p.filter.pending = <<>>
          /\ Let(p.filter, p.args) = PlainValue(PlainGate, xy)
      BY <1>1, <1>2, <2>4, <3>1, <3>2, FilterPlainIs
    <3>4. Bare(p.filter) = p.filter
      BY <3>3, GateFields
    <3>5. PlainFilter(xy) = PlainValue(PlainGate, xy)
      BY <2>7 DEF PlainFilter
    <3> QED BY <1>3, <2>1, <3>3, <3>4, <3>5
  <2> QED BY <2>5, <2>6, <2>7
<1>9. CASE t # <<>> /\ t[1] = Quote
  <2>1. u # <<>> /\ u[1] = Quote
    BY <1>2, <1>9, BeginningGrown DEF xy
  <2>2. PlainFilter(x) = PlainEncoded(NewGate, x) /\ PlainFilter(xy) = PlainEncoded(NewGate, xy)
    BY <1>9, <2>1 DEF PlainFilter
  <2>3. NewGate.done = FALSE
    BY DEF NewGate
  <2>4. CASE DecodeString(x) = {}
    <3>1. Bare(g) = Gate(NewGate, "encoded", FALSE, x) /\ args = <<>>
      <4> DEFINE h == Gate(NewGate, "encoded", FALSE, x)
      <4>1. PlainFilter(x) = Let(h, <<>>)
        <5>1. PlainEncoded(NewGate, x) = Let(h, <<>>)
          BY <2>3, <2>4 DEF PlainEncoded, Gate
        <5> HIDE DEF h
        <5> QED BY <2>2, <5>1
      <4> HIDE DEF h
      <4>2. Bare(g) = h /\ args = <<>>
        BY <1>6, <4>1 DEF Let
      <4> QED BY <4>2 DEF h
    <3>2. g.mode = "encoded" /\ ~g.done
      BY <1>1, <3>1, EncodedAnew
    <3>3. p = FilterEncodedString(g, b)
      BY <1>4, <3>2
    <3> QED BY <1>7, <2>1, <3>1, <3>3
  <2>5. CASE DecodeString(x) # {}
    <3>1. Bare(g) = Gate(NewGate, "encoded", TRUE, <<>>)
      <4> DEFINE h == Gate(NewGate, "encoded", TRUE, <<>>)
      <4>1. PlainFilter(x) = Let(h, Unwrapped(x))
        BY <2>2, <2>5 DEF PlainEncoded
      <4> HIDE DEF h
      <4>2. Bare(g) = h
        BY <1>6, <4>1 DEF Let
      <4> QED BY <4>2 DEF h
    <3>2. g.done
      <4>1. Bare(g).done = g.done
        BY <1>1, GateFields
      <4> DEFINE h == Gate(NewGate, "encoded", TRUE, <<>>)
      <4>2. h.done = TRUE
        BY DEF Gate
      <4>3. Bare(g) = h
        BY <3>1
      <4> HIDE DEF h
      <4> QED BY <4>1, <4>2, <4>3
    <3>3. p.filter = g /\ p.args = <<>>
      BY <1>4, <3>2 DEF Passed
    <3>4. DecodeString(xy) = DecodeString(x)
      BY <1>2, <2>5, DecodeStringGrown DEF xy
    <3>5. PlainEncoded(NewGate, xy) = PlainEncoded(NewGate, x)
      <4>1. Unwrapped(xy) = Unwrapped(x)
        BY <3>4 DEF Unwrapped
      <4> QED BY <2>5, <3>4, <4>1 DEF PlainEncoded
    <3> QED BY <1>1, <1>2, <1>3, <2>2, <3>3, <3>5
  <2> QED BY <2>4, <2>5
<1>10. CASE t # <<>> /\ t[1] # Quote
  <2> DEFINE m == Scanning(PlainGate, x)[Len(x)]
  <2>1. u # <<>> /\ u[1] # Quote
    BY <1>2, <1>10, BeginningGrown DEF xy
  <2>2. PlainFilter(x) = PlainValue(PlainGate, x) /\ PlainFilter(xy) = PlainValue(PlainGate, xy)
    BY <1>10, <2>1 DEF PlainFilter
  <2>3. Bare(g) = m
    BY <1>6, <2>2 DEF PlainValue, Let
  <2>4. m.mode = "plain" /\ m.pending = <<>>
    <3>1. Len(x) \in 0..Len(x)
      BY DEF Word
    <3> QED BY <3>1, ScanningTypes, GatesAre
  <2> HIDE DEF m
  <2>5. g.pending = <<>>
    <3>1. Chars(g.pending) = <<>>
      BY <1>1, <2>3, <2>4, GateFields
    <3>2. Len(g.pending) = Len(Chars(g.pending))
      BY <1>2, CharsIs
    <3> QED BY <1>2, <3>1, <3>2, EmptySeq DEF Str
  <2>6. g = m
    BY <1>1, <2>3, <2>5, GateFields
  <2>7. CASE g.done
    <3>1. p.filter = g /\ p.args = <<>>
      BY <1>4, <2>7 DEF Passed
    <3>2. PlainValue(PlainGate, xy) = PlainValue(PlainGate, x)
      BY <1>2, <2>6, <2>7, ValueStays DEF m, xy
    <3> QED BY <1>1, <1>2, <1>3, <2>2, <3>1, <3>2
  <2>8. CASE ~g.done
    <3>1. p = FilterPlain(g, s)
      BY <1>4, <2>4, <2>6, <2>8
    <3>2. Gate(g, "plain", g.done, <<>>) = g
      BY <1>1, <2>4, <2>5, <2>6, GateTypes
    <3>3. /\ p.filter \in Gates /\ p.args \in Word /\ p.filter.pending = <<>>
          /\ Let(p.filter, p.args) = PlainValue(g, y)
      BY <1>1, <3>1, <3>2, FilterPlainIs DEF y
    <3>4. Bare(p.filter) = p.filter
      BY <3>3, GateFields
    <3>5. args = x
      <4>1. PlainValue(PlainGate, x) = Let(m, x)
        BY <2>6, <2>8, EndsNowhere DEF m
      <4> QED BY <1>6, <2>2, <4>1 DEF Let
    <3>6. PlainValue(PlainGate, xy) = Let(PlainValue(g, y).filter, x \o PlainValue(g, y).args)
      BY <1>2, <2>6, <2>8, ValueGoesOn DEF m, xy
    <3>7. PlainValue(g, y).filter = p.filter /\ PlainValue(g, y).args = p.args
      BY <3>3 DEF Let
    <3> QED BY <2>2, <3>3, <3>4, <3>5, <3>6, <3>7
  <2> QED BY <2>7, <2>8
<1> QED BY <1>8, <1>9, <1>10

----------------------------------------------------------------------------
(* The arguments of a tool *)

\* Inside an object brackets are open, up to its last character, which closes one.
LEMMA ObjectIs ==
    ASSUME NEW o \in Object
    PROVE  /\ o \in Word /\ o # <<>> /\ o[1] = Brace
           /\ Len(o) \in Nat /\ Len(o) > 1
           /\ o[Len(o)] # Blank
           /\ \A i \in 1..Len(o) : Nesting(o)[i] = 0 <=> i = Len(o)
<1> DEFINE N == Nesting(o)
           Q == Quoted(o)
<1>1. /\ o \in Word /\ o # <<>> /\ o[1] = Brace /\ Len(o) \in Nat
      /\ \A i \in 1..Len(o) : N[i] = 0 <=> i = Len(o)
  BY ObjectAssumption, ObjectsAre DEF Word
<1>2. /\ N[0] = 0 /\ Q[0] = "no"
      /\ \A i \in 1..Len(o) : N[i] = NestingNext(N[i - 1], Q[i - 1], o[i])
  BY <1>1, NestingIs, QuotedIs
<1> HIDE DEF N, Q
<1>3. Len(o) # 0
  BY <1>1, EmptySeq DEF Word
<1>4. Len(o) # 1
  <2> SUFFICES ASSUME Len(o) = 1 PROVE FALSE
    OBVIOUS
  <2>1. N[1] = 0 /\ N[1] = NestingNext(0, "no", Brace)
    BY <1>1, <1>2
  <2>2. NestingNext(0, "no", Brace) = 1
    BY Characters DEF NestingNext
  <2> QED BY <2>1, <2>2
<1>5. Len(o) > 1
  BY <1>1, <1>3, <1>4
<1>6. o[Len(o)] # Blank
  <2>1. Len(o) \in 1..Len(o) /\ Len(o) - 1 \in 1..Len(o) /\ Len(o) - 1 # Len(o)
    BY <1>1, <1>5
  <2>2. N[Len(o)] = 0 /\ N[Len(o) - 1] # 0
    BY <1>1, <2>1
  <2>3. N[Len(o)] = NestingNext(N[Len(o) - 1], Q[Len(o) - 1], o[Len(o)])
    BY <1>2, <2>1
  <2>4. o[Len(o)] \in Opening \/ o[Len(o)] \in Closing
    BY <2>2, <2>3 DEF NestingNext
  <2> QED BY <2>4, Characters
<1> QED BY <1>1, <1>5, <1>6 DEF N

\* Scanning an object is done with its last character and not before.
LEMMA ObjectScanned ==
    ASSUME NEW o \in Object
    PROVE  /\ Scanning(PlainGate, o)[Len(o)].done
           /\ \A i \in 0..(Len(o) - 1) : ~Scanning(PlainGate, o)[i].done
<1> DEFINE N == Nesting(o)
           Q == Quoted(o)
           f == Scanning(PlainGate, o)
           Agree(i) == /\ f[i] \in Gates
                       /\ f[i].depth = N[i]
                       /\ f[i].inString <=> Q[i] # "no"
                       /\ f[i].escaped <=> Q[i] = "escape"
                       /\ f[i].done <=> i = Len(o)
                       /\ i > 0 => f[i].started
                       /\ i > 0 /\ i < Len(o) => N[i] >= 1
           S == {i \in Nat : i <= Len(o) => Agree(i)}
<1>1. /\ o \in Word /\ o[1] = Brace /\ Len(o) \in Nat /\ Len(o) > 1
      /\ \A i \in 1..Len(o) : N[i] = 0 <=> i = Len(o)
  BY ObjectIs
<1>2. /\ N[0] = 0 /\ \A i \in 0..Len(o) : N[i] \in Int
      /\ \A i \in 1..Len(o) : N[i] = NestingNext(N[i - 1], Q[i - 1], o[i])
  BY <1>1, NestingIs
<1>3. /\ Q[0] = "no" /\ \A i \in 0..Len(o) : Q[i] \in {"no", "yes", "escape"}
      /\ \A i \in 1..Len(o) : Q[i] = QuotedNext(Q[i - 1], o[i])
  BY <1>1, QuotedIs
<1>4. /\ f[0] = PlainGate
      /\ \A i \in 1..Len(o) : f[i] = IF f[i - 1].done THEN f[i - 1] ELSE Scan(f[i - 1], o[i])
  BY <1>1, ScanningIs
<1>5. \A i \in 0..Len(o) : f[i] \in Gates
  BY <1>1, ScanningTypes, GatesAre
<1> HIDE DEF N, Q, f
<1>6. 0 \in S
  <2>1. /\ PlainGate.depth = 0 /\ PlainGate.inString = FALSE /\ PlainGate.escaped = FALSE
        /\ PlainGate.done = FALSE
    BY DEF PlainGate, Gate, NewGate
  <2>2. Agree(0)
    BY <1>1, <1>2, <1>3, <1>4, <1>5, <2>1
  <2> QED BY <2>2
<1>7. ASSUME NEW k \in Nat, k \in S PROVE k + 1 \in S
  <2> DEFINE i == k + 1
             g == f[k]
             h == f[k + 1]
             c == o[k + 1]
             q == Q[k]
  <2> SUFFICES ASSUME k + 1 <= Len(o) PROVE Agree(k + 1)
    OBVIOUS
  <2>1. /\ k + 1 \in 1..Len(o) /\ k + 1 - 1 = k /\ k \in 0..Len(o) /\ k + 1 \in 0..Len(o)
        /\ k # Len(o) /\ Agree(k)
    BY <1>1, <1>7
  <2>2. /\ h = Scan(g, c) /\ g \in Gates /\ h \in Gates /\ ~g.done
        /\ g.depth = N[k] /\ N[k] \in Int /\ N[k + 1] \in Int
        /\ g.inString <=> q # "no"
        /\ g.escaped <=> q = "escape"
        /\ k > 0 => g.started /\ N[k] >= 1
        /\ q \in {"no", "yes", "escape"}
    BY <1>1, <1>2, <1>3, <1>4, <1>5, <2>1
  <2>3. N[k + 1] = NestingNext(N[k], q, c) /\ Q[k + 1] = QuotedNext(q, c)
    BY <1>2, <1>3, <2>1
  <2>4. N[k + 1] = 0 <=> k + 1 = Len(o)
    BY <1>1, <2>1
  <2>5. k = 0 => c = Brace /\ q = "no" /\ N[k] = 0
    BY <1>1, <1>2, <1>3
  <2>6. k \in Nat /\ (k > 0 \/ k = 0)
    OBVIOUS
  <2> HIDE DEF g, h, c, q, S
  <2>7. CASE q = "escape"
    <3>1. /\ h.depth = N[k] /\ h.started = g.started /\ ~h.done /\ h.inString /\ ~h.escaped
      BY <2>2, <2>7, ScanFields
    <3>2. N[k + 1] = N[k] /\ Q[k + 1] = "yes"
      BY <2>3, <2>7 DEF NestingNext, QuotedNext
    <3>3. k > 0
      BY <2>5, <2>6, <2>7
    <3> QED BY <1>1, <2>1, <2>2, <2>4, <3>1, <3>2, <3>3 DEF h
  <2>8. CASE q = "yes"
    <3>1. /\ h.depth = N[k] /\ h.started = g.started /\ ~h.done
          /\ h.inString <=> c # Quote
          /\ h.escaped <=> c = Backslash
      BY <2>2, <2>8, ScanFields
    <3>2. /\ N[k + 1] = N[k]
          /\ Q[k + 1] = IF c = Backslash THEN "escape" ELSE IF c = Quote THEN "no" ELSE "yes"
      BY <2>3, <2>8 DEF NestingNext, QuotedNext
    <3>3. (h.inString <=> Q[k + 1] # "no") /\ (h.escaped <=> Q[k + 1] = "escape")
      BY <3>1, <3>2, Characters
    <3>4. k > 0
      BY <2>5, <2>6, <2>8
    <3> QED BY <1>1, <2>1, <2>2, <2>4, <3>1, <3>2, <3>3, <3>4 DEF h
  <2>9. CASE q = "no"
    <3>1. ~g.inString /\ ~g.escaped
      BY <2>2, <2>9
    <3>2. Q[k + 1] = IF c = Quote THEN "yes" ELSE "no"
      BY <2>3, <2>9 DEF QuotedNext
    <3>3. ~h.escaped /\ (h.inString <=> c = Quote)
      BY <2>2, <3>1, ScanFields
    <3>4. (h.inString <=> Q[k + 1] # "no") /\ (h.escaped <=> Q[k + 1] = "escape")
      BY <3>2, <3>3
    <3>5. CASE c \in Opening
      <4>1. h.depth = N[k] + 1 /\ h.started /\ ~h.done
        BY <2>2, <3>1, <3>5, ScanFields
      <4>2. N[k + 1] = N[k] + 1
        BY <2>3, <2>9, <3>5, Characters DEF NestingNext
      <4>3. N[k + 1] >= 1
        BY <2>2, <2>5, <2>6, <4>2
      <4>4. k + 1 # Len(o)
        BY <2>2, <2>4, <4>3
      <4> QED BY <2>1, <2>2, <3>4, <4>1, <4>2, <4>3, <4>4 DEF h
    <3>6. CASE c \in Closing
      <4>1. h.depth = N[k] - 1 /\ h.started = g.started /\ (h.done <=> g.started /\ N[k] - 1 <= 0)
        BY <2>2, <3>1, <3>6, ScanFields
      <4>2. N[k + 1] = N[k] - 1
        BY <2>3, <2>9, <3>6, Characters DEF NestingNext
      <4>3. k > 0
        BY <2>5, <2>6, <3>6, Characters
      <4>4. g.started /\ N[k] >= 1
        BY <2>2, <4>3
      <4>5. (N[k] - 1 <= 0 <=> N[k + 1] = 0) /\ (N[k + 1] # 0 => N[k + 1] >= 1)
        BY <2>2, <4>2, <4>4
      <4> QED BY <1>1, <2>1, <2>2, <2>4, <3>4, <4>1, <4>2, <4>4, <4>5 DEF h
    <3>7. CASE c \notin Opening /\ c \notin Closing
      <4>1. h.depth = N[k] /\ h.started = g.started /\ ~h.done
        BY <2>2, <3>1, <3>7, ScanFields
      <4>2. N[k + 1] = N[k]
        BY <2>3, <3>7 DEF NestingNext
      <4>3. k > 0
        BY <2>5, <2>6, <3>7, Characters
      <4> QED BY <1>1, <2>1, <2>2, <2>4, <3>4, <4>1, <4>2, <4>3 DEF h
    <3> QED BY <3>5, <3>6, <3>7
  <2> QED BY <2>2, <2>7, <2>8, <2>9
<1>8. Len(o) \in S /\ \A i \in 0..(Len(o) - 1) : i \in S
  <2> HIDE DEF S
  <2> QED BY <1>1, <1>6, <1>7, Induction
<1> QED BY <1>1, <1>8 DEF f

\* What a prefix is followed by.
LEMMA PrefixOf ==
    ASSUME NEW s \in Word, NEW t \in Word
    PROVE  /\ IsPrefix(s, t) => \E r \in Word : t = s \o r
           /\ IsPrefix(s, s \o t)
<1>1. Len(s) \in Nat /\ Len(t) \in Nat
  BY DEF Word
<1>2. ASSUME IsPrefix(s, t) PROVE \E r \in Word : t = s \o r
  <2>1. Len(s) <= Len(t) /\ \A i \in 1..Len(s) : s[i] = t[i]
    BY <1>2, PrefixIs
  <2>2. Len(s) \in 0..Len(t) /\ Len(s) + 1 \in 1..(Len(t) + 1)
    BY <1>1, <2>1
  <2> DEFINE c == SubSeq(t, 1, Len(s))
  <2>3. c \in Word /\ Len(c) = Len(s) /\ \A i \in 1..Len(s) : c[i] = t[i]
    BY <2>2, CutIs DEF Word
  <2>4. From(t, Len(s) + 1) \in Word /\ c \o From(t, Len(s) + 1) = t
    BY <2>2, FromIs, CutAndRest DEF Word
  <2> HIDE DEF c
  <2>5. c = s
    BY <2>1, <2>3, SameText DEF Word
  <2> QED BY <2>4, <2>5
<1>3. IsPrefix(s, s \o t)
  <2> DEFINE st == s \o t
  <2>1. st \in Word /\ Len(st) = Len(s) + Len(t)
    BY Joined
  <2>2. \A i \in 1..(Len(s) + Len(t)) : st[i] = IF i <= Len(s) THEN s[i] ELSE t[i - Len(s)]
    BY ConcatProperties DEF Word
  <2> HIDE DEF st
  <2>3. Len(s) <= Len(st) /\ \A i \in 1..Len(s) : s[i] = st[i]
    BY <1>1, <2>1, <2>2
  <2>4. IsPrefix(s, st)
    BY <2>1, <2>3, PrefixIs
  <2> QED BY <2>4 DEF st
<1> QED BY <1>2, <1>3

\* The value a plain gate lets through is the object and the blanks before it.
LEMMA ObjectPassed ==
    ASSUME NEW o \in Object, NEW r \in Word, NEW b \in Word, \A k \in 1..Len(b) : b[k] = Blank
    PROVE  /\ PlainValue(PlainGate, o \o r).args = o
           /\ PlainValue(PlainGate, b \o (o \o r)).args = b \o o
<1>1. o \in Word /\ Len(o) \in Nat /\ Len(b) \in Nat
  BY ObjectIs DEF Word
<1>2. PlainValue(PlainGate, o \o r).args = o
  <2>1. /\ Scanning(PlainGate, o)[Len(o)].done /\ Len(o) \in 0..Len(o)
        /\ \A i \in 0..(Len(o) - 1) : ~Scanning(PlainGate, o)[i].done
    BY <1>1, ObjectScanned
  <2>2. PlainValue(PlainGate, o \o r) = PlainValue(PlainGate, o)
    BY <1>1, <2>1, ValueStays
  <2>3. PlainValue(PlainGate, o) = Let(Scanning(PlainGate, o)[Len(o)], SubSeq(o, 1, Len(o)))
    BY <1>1, <2>1, EndsAt
  <2>4. SubSeq(o, 1, Len(o)) = o
    BY <1>1, SubSeqProperties DEF Word
  <2> QED BY <2>2, <2>3, <2>4 DEF Let
<1>3. PlainValue(PlainGate, b \o (o \o r)).args = b \o o
  <2> DEFINE f == Scanning(PlainGate, b)
             S == {k \in Nat : k <= Len(b) => f[k] = PlainGate}
             x == o \o r
  <2>1. f[0] = PlainGate /\ \A k \in 1..Len(b) : f[k] = IF f[k - 1].done THEN f[k - 1]
                                                         ELSE Scan(f[k - 1], b[k])
    BY <1>1, ScanningIs
  <2>2. Scan(PlainGate, Blank) = PlainGate
    <3>1. PlainGate.inString = FALSE
      BY DEF PlainGate, Gate, NewGate
    <3> QED BY <3>1, Characters DEF Scan
  <2> HIDE DEF f
  <2>3. 0 \in S
    BY <2>1
  <2>4. ASSUME NEW k \in Nat, k \in S PROVE k + 1 \in S
    <3> SUFFICES ASSUME k + 1 <= Len(b) PROVE f[k + 1] = PlainGate
      OBVIOUS
    <3>1. k + 1 \in 1..Len(b) /\ k + 1 - 1 = k /\ f[k] = PlainGate /\ b[k + 1] = Blank
      BY <1>1, <2>4
    <3> QED BY <2>1, <2>2, <3>1
  <2> HIDE DEF S
  <2>5. Len(b) \in S
    BY <1>1, <2>3, <2>4, Induction
  <2>6. f[Len(b)] = PlainGate
    BY <2>5 DEF S
  <2>7. x \in Word
    BY <1>1, Joined
  <2> HIDE DEF x
  <2>8. PlainValue(PlainGate, b \o x) =
          Let(PlainValue(PlainGate, x).filter, b \o PlainValue(PlainGate, x).args)
    BY <2>6, <2>7, GatesAre, ValueGoesOn DEF f
  <2> QED BY <1>2, <2>8 DEF Let, x
<1> QED BY <1>2, <1>3

\* What a text that begins with an object decodes to: to that one alone.
LEMMA DecodesTo ==
    ASSUME NEW s \in Word
    PROVE  /\ \A o \in DecodeObject(s) : o \in Object /\ \E r \in Word : TrimLeft(s) = o \o r
           /\ \A o \in Object, r \in Word :
                 TrimLeft(s) = o \o r => DecodeObject(s) = {o} /\ FirstObject(s) = Marshal(o)
<1> DEFINE w == TrimLeft(s)
<1>1. w \in Word
  BY TrimLeftIs
<1>2. DecodeObject(s) = {o \in Object : IsPrefix(o, w)}
  BY DEF DecodeObject
<1> HIDE DEF w
<1>3. ASSUME NEW o \in DecodeObject(s)
      PROVE  o \in Object /\ \E r \in Word : w = o \o r
  BY <1>1, <1>2, PrefixOf, ObjectsAre
<1>4. ASSUME NEW o \in Object, NEW r \in Word, w = o \o r
      PROVE  DecodeObject(s) = {o} /\ FirstObject(s) = Marshal(o)
  <2>1. o \in DecodeObject(s)
    <3>1. o \in Word
      BY ObjectsAre
    <3> QED BY <1>2, <1>4, <3>1, PrefixOf
  <2>2. ASSUME NEW p \in DecodeObject(s) PROVE p = o
    <3>1. p \in Object /\ \E q \in Word : w = p \o q
      BY <1>3
    <3>2. PICK q \in Word : w = p \o q
      BY <3>1
    <3>3. PlainValue(PlainGate, p \o q).args = p /\ PlainValue(PlainGate, o \o r).args = o
      <4>1. <<>> \in Word /\ \A k \in 1..Len(<<>>) : <<>>[k] = Blank
        BY NoCharacters
      <4> QED BY <3>1, <4>1, ObjectPassed
    <3> QED BY <1>4, <3>2, <3>3
  <2>3. DecodeObject(s) = {o}
    BY <2>1, <2>2
  <2> QED BY <2>3 DEF FirstObject
<1> QED BY <1>3, <1>4 DEF w

\* json.Marshal leaves no blanks, and nothing but the blanks out.
LEMMA MarshalSolid ==
    ASSUME NEW s \in Word
    PROVE  /\ Marshal(s) \in Word
           /\ \A i \in 1..Len(Marshal(s)) : Marshal(s)[i] # Blank
<1>1. PICK f : /\ Marshal(s) = f[Len(s)] /\ f[0] = <<>>
               /\ \A i \in 1..Len(s) : f[i] = IF s[i] = Blank THEN f[i - 1]
                                              ELSE Append(f[i - 1], s[i])
  BY MarshalIs
<1>2. Len(s) \in Nat /\ \A k \in 1..Len(s) : s[k] \in Char
  BY DEF Word
<1> DEFINE S == {k \in Nat : k <= Len(s) => /\ f[k] \in Word
                                            /\ \A i \in 1..Len(f[k]) : f[k][i] # Blank}
<1>3. 0 \in S
  <2>1. <<>> \in Word /\ Len(<<>>) = 0
    BY NoCharacters
  <2> QED BY <1>1, <2>1
<1>4. ASSUME NEW k \in Nat, k \in S PROVE k + 1 \in S
  <2> DEFINE a == f[k]
             b == f[k + 1]
             c == s[k + 1]
  <2> SUFFICES ASSUME k + 1 <= Len(s)
               PROVE  b \in Word /\ \A i \in 1..Len(b) : b[i] # Blank
    OBVIOUS
  <2>1. /\ k + 1 \in 1..Len(s) /\ k + 1 - 1 = k
        /\ a \in Word /\ \A i \in 1..Len(a) : a[i] # Blank
    BY <1>2, <1>4
  <2>2. b = (IF c = Blank THEN a ELSE Append(a, c)) /\ c \in Char /\ Len(a) \in Nat
    BY <1>1, <1>2, <2>1 DEF Word
  <2> HIDE DEF a, b, c
  <2>3. CASE c = Blank
    BY <2>1, <2>2, <2>3
  <2>4. CASE c # Blank
    <3>1. /\ b = Append(a, c) /\ b \in Word /\ Len(b) = Len(a) + 1
          /\ \A i \in 1..Len(a) : b[i] = a[i]
          /\ b[Len(a) + 1] = c
      BY <2>1, <2>2, <2>4, AppendProperties DEF Word
    <3>2. ASSUME NEW i \in 1..Len(b) PROVE b[i] # Blank
      <4>1. CASE i = Len(a) + 1
        BY <2>4, <3>1, <4>1
      <4>2. CASE i # Len(a) + 1
        <5>1. i \in 1..Len(a)
          BY <2>2, <3>1, <4>2
        <5> QED BY <2>1, <3>1, <5>1
      <4> QED BY <4>1, <4>2
    <3> QED BY <3>1, <3>2
  <2> QED BY <2>3, <2>4
<1> HIDE DEF S
<1>5. Len(s) \in S
  BY <1>2, <1>3, <1>4, Induction
<1> QED BY <1>1, <1>2, <1>5 DEF S

\* What has no blanks is left as it is.
LEMMA MarshalSame ==
    ASSUME NEW s \in Word, \A i \in 1..Len(s) : s[i] # Blank
    PROVE  Marshal(s) = s
<1>1. PICK f : /\ Marshal(s) = f[Len(s)] /\ f[0] = <<>>
               /\ \A i \in 1..Len(s) : f[i] = IF s[i] = Blank THEN f[i - 1]
                                              ELSE Append(f[i - 1], s[i])
  BY MarshalIs
<1>2. Len(s) \in Nat /\ \A k \in 1..Len(s) : s[k] \in Char
  BY DEF Word
<1> DEFINE S == {k \in Nat : k <= Len(s) => /\ f[k] \in Word /\ Len(f[k]) = k
                                            /\ \A i \in 1..k : f[k][i] = s[i]}
<1>3. 0 \in S
  <2>1. <<>> \in Word /\ Len(<<>>) = 0
    BY NoCharacters
  <2> QED BY <1>1, <2>1
<1>4. ASSUME NEW k \in Nat, k \in S PROVE k + 1 \in S
  <2> DEFINE a == f[k]
             b == f[k + 1]
             c == s[k + 1]
  <2> SUFFICES ASSUME k + 1 <= Len(s)
               PROVE  b \in Word /\ Len(b) = k + 1 /\ \A i \in 1..(k + 1) : b[i] = s[i]
    OBVIOUS
  <2>1. /\ k + 1 \in 1..Len(s) /\ k + 1 - 1 = k
        /\ a \in Word /\ Len(a) = k /\ \A i \in 1..k : a[i] = s[i]
    BY <1>2, <1>4
  <2>2. b = Append(a, c) /\ c \in Char
    <3>1. c # Blank /\ c \in Char
      BY <1>2, <2>1
    <3>2. b = IF c = Blank THEN a ELSE Append(a, c)
      BY <1>1, <2>1
    <3> HIDE DEF a, b, c
    <3> QED BY <3>1, <3>2
  <2> HIDE DEF a, b
  <2>3. /\ b \in Word /\ Len(b) = k + 1
        /\ \A i \in 1..k : b[i] = a[i]
        /\ b[k + 1] = c
    BY <2>1, <2>2, AppendProperties DEF Word
  <2>4. ASSUME NEW i \in 1..(k + 1) PROVE b[i] = s[i]
    <3>1. CASE i = k + 1
      BY <2>3, <3>1
    <3>2. CASE i # k + 1
      <4>1. i \in 1..k
        BY <3>2
      <4> QED BY <2>1, <2>3, <4>1
    <3> QED BY <3>1, <3>2
  <2> QED BY <2>3, <2>4
<1> HIDE DEF S
<1>5. Len(s) \in S
  BY <1>2, <1>3, <1>4, Induction
<1>6. f[Len(s)] \in Word /\ Len(f[Len(s)]) = Len(s) /\ \A i \in 1..Len(s) : f[Len(s)][i] = s[i]
  BY <1>2, <1>5 DEF S
<1> QED BY <1>1, <1>6, SameText DEF Word

\* strings.TrimSpace takes nothing from an object in a text, whatever follows it.
LEMMA TrimKeepsObject ==
    ASSUME NEW s \in Word, NEW o \in Object, NEW r \in Word, TrimLeft(s) = o \o r
    PROVE  \E q \in Word : TrimSpace(s) = o \o q
<1> DEFINE b == Blanks(s)
           e == b + Len(o)
           m == Max(Solid(s))
           c == SubSeq(s, 1, e)
           z == SubSeq(s, 1, m)
<1>1. /\ o \in Word /\ o # <<>> /\ Len(o) \in Nat /\ Len(o) > 1 /\ o[Len(o)] # Blank
      /\ Len(s) \in Nat /\ Len(r) \in Nat
  BY ObjectIs DEF Word
<1>2. b \in 0..Len(s) /\ Len(o \o r) = Len(s) - b
  BY TrimLeftIs
<1>3. Len(o \o r) = Len(o) + Len(r)
  BY <1>1, Joined
<1>4. e \in 1..Len(s) /\ b + 1 \in 1..(Len(s) + 1)
  BY <1>1, <1>2, <1>3
<1>5. \A i \in 1..(Len(s) - b) : (o \o r)[i] = s[b + i]
  <2>1. From(s, b + 1) = o \o r
    BY DEF TrimLeft
  <2>2. \A i \in 1..(Len(s) - (b + 1) + 1) : From(s, b + 1)[i] = s[(b + 1) + i - 1]
    BY <1>4, FromIs DEF Word
  <2> HIDE DEF b
  <2>3. \A i \in 1..(Len(s) - b) : i \in 1..(Len(s) - (b + 1) + 1) /\ (b + 1) + i - 1 = b + i
    BY <1>1, <1>2
  <2> QED BY <2>1, <2>2, <2>3
<1>6. \A i \in 1..(Len(o) + Len(r)) : (o \o r)[i] = IF i <= Len(o) THEN o[i] ELSE r[i - Len(o)]
  BY <1>1, ConcatProperties DEF Word
<1> HIDE DEF b
<1>7. s[e] # Blank
  <2>1. Len(o) \in 1..(Len(s) - b) /\ Len(o) \in 1..(Len(o) + Len(r))
    BY <1>1, <1>2, <1>3
  <2> QED BY <1>1, <1>5, <1>6, <2>1
<1>8. e \in Solid(s) /\ Solid(s) \in SUBSET Nat /\ \A k \in Solid(s) : k <= Len(s)
  BY <1>4, <1>7 DEF Solid, Word
<1>9. m \in Solid(s) /\ e <= m
  BY <1>1, <1>8, MaxIs
<1>10. m \in 0..Len(s) /\ e \in 0..m /\ e \in 0..Len(s) /\ TrimRight(s) = z
  BY <1>4, <1>8, <1>9 DEF TrimRight
<1> HIDE DEF e, m
<1>11. z \in Word /\ Len(z) = m /\ c \in Word /\ Len(c) = e
  BY <1>10, CutIs DEF Word
<1>12. \E y \in Word : z = c \o y
  <2>1. SubSeq(s, 1, e) \o SubSeq(s, e + 1, m) = SubSeq(s, 1, m)
    <3>1. e \in 0..Len(s) /\ m \in e..Len(s)
      BY <1>1, <1>10
    <3> QED BY <3>1, ConcatAdjacentSubSeq DEF Word
  <2>2. SubSeq(s, e + 1, m) \in Word
    BY <1>1, <1>10, SubSeqProperties DEF Word
  <2> QED BY <2>1, <2>2
<1>13. TrimLeft(c) = o
  <2>1. Blanks(c) = b
    <3>1. \A i \in 1..e : c[i] = s[i]
      BY <1>10, CutIs DEF Word
    <3>2. (\A i \in 1..b : s[i] = Blank) /\ (b # Len(s) => s[b + 1] # Blank)
      BY BlanksIs DEF Word, b
    <3>3. b \in 0..Len(c) /\ b + 1 \in 1..e /\ b # Len(s) /\ \A i \in 1..b : i \in 1..e
      BY <1>1, <1>2, <1>3, <1>4, <1>11 DEF e
    <3> QED BY <1>11, <3>1, <3>2, <3>3, BlanksAre DEF Word
  <2>2. From(c, b + 1) \in Word /\ Len(From(c, b + 1)) = Len(o)
        /\ \A i \in 1..Len(o) : From(c, b + 1)[i] = c[b + i]
    <3>1. b + 1 \in 1..(Len(c) + 1) /\ Len(c) - (b + 1) + 1 = Len(o)
      BY <1>1, <1>2, <1>11 DEF e
    <3>2. /\ From(c, b + 1) \in Word /\ Len(From(c, b + 1)) = Len(c) - (b + 1) + 1
          /\ \A i \in 1..(Len(c) - (b + 1) + 1) : From(c, b + 1)[i] = c[(b + 1) + i - 1]
      BY <1>11, <3>1, FromIs DEF Word
    <3>3. \A i \in 1..Len(o) : (b + 1) + i - 1 = b + i
      BY <1>1, <1>2
    <3> QED BY <3>1, <3>2, <3>3
  <2>3. ASSUME NEW i \in 1..Len(o) PROVE From(c, b + 1)[i] = o[i]
    <3>1. /\ b + i \in 1..e /\ i \in 1..(Len(s) - b) /\ i \in 1..(Len(o) + Len(r))
          /\ i <= Len(o)
      BY <1>1, <1>2, <1>3 DEF e
    <3>2. c[b + i] = s[b + i]
      BY <1>10, <3>1, CutIs DEF Word
    <3> QED BY <1>5, <1>6, <2>2, <3>1, <3>2
  <2>4. From(c, b + 1) = o
    BY <1>1, <2>2, <2>3, SameText DEF Word
  <2> QED BY <2>1, <2>4 DEF TrimLeft
<1> HIDE DEF c, z
<1>14. PICK y \in Word : z = c \o y
  BY <1>12
<1>15. TrimLeft(z) = o \o y
  BY <1>1, <1>11, <1>13, <1>14, TrimGrown
<1> QED BY <1>10, <1>15 DEF TrimSpace

\* A text that decodes to an object is normalized to it.
LEMMA NormalizeIs ==
    ASSUME NEW s, DecodeObject(s) # {}
    PROVE  NormalizeToolArguments(s) = FirstObject(s)
BY DEF NormalizeToolArguments

\* An object begins with its brace, so that there is nothing to trim.
LEMMA TrimObject ==
    ASSUME NEW o \in Object
    PROVE  TrimLeft(o) = o /\ o \o <<>> = o
<1>1. o \in Word /\ o[1] = Brace /\ Len(o) \in Nat
  BY ObjectIs
<1>2. Blanks(o) = 0
  <2>1. 0 \in 0..Len(o) /\ \A k \in 1..0 : o[k] = Blank
    BY <1>1
  <2>2. o[0 + 1] # Blank
    BY <1>1, Characters
  <2> QED BY <1>1, <2>1, <2>2, BlanksAre DEF Word
<1>3. SubSeq(o, 1, Len(o)) = o
  BY <1>1, SubSeqProperties DEF Word
<1>4. From(o, 0 + 1) = o
  BY <1>3 DEF From
<1> QED BY <1>1, <1>2, <1>4, JoinedNothing DEF TrimLeft

\* At the end of a text that holds an object the gate has let through that object, which
\* is what the arguments of a plain answer are normalized to.
LEMMA ArgumentsComplete ==
    ASSUME NEW x \in Word, HoldsObject(x)
    PROVE  LET a == PlainFilter(x).args IN
           /\ TrimLeft(a) \in DecodeObject(a)
           /\ NormalizeToolArguments(a) = NormalizeToolArguments(x)
<1> DEFINE a == PlainFilter(x).args
           w == TrimLeft(x)
<1>1. CASE DecodeObject(x) # {}
  <2> DEFINE b == SubSeq(x, 1, Blanks(x))
  <2>1. PICK o \in Object, r \in Word : w = o \o r
    BY <1>1, DecodesTo
  <2>2. /\ o \in Word /\ o # <<>> /\ o[1] = Brace /\ Len(o) \in Nat /\ Len(o) > 1
        /\ Len(r) \in Nat
    BY ObjectIs DEF Word
  <2>3. w # <<>> /\ w[1] # Quote
    <3>1. /\ Len(o \o r) = Len(o) + Len(r)
          /\ \A i \in 1..(Len(o) + Len(r)) : (o \o r)[i] = IF i <= Len(o) THEN o[i] ELSE r[i - Len(o)]
      BY <2>2, ConcatProperties DEF Word
    <3> DEFINE z == o \o r
    <3>2. Len(z) > 0 /\ z[1] = Brace
      BY <2>2, <3>1
    <3>3. z \in Word /\ w = z
      BY <2>1, <2>2, Joined
    <3> HIDE DEF z, w
    <3>4. z # <<>>
      BY <3>2, <3>3, EmptySeq DEF Word
    <3> QED BY <3>2, <3>3, <3>4, Characters
  <2>4. b \in Word /\ (\A k \in 1..Len(b) : b[k] = Blank) /\ x = b \o w
    <3>1. Blanks(x) \in 0..Len(x) /\ \A k \in 1..Blanks(x) : x[k] = Blank
      BY BlanksIs DEF Word
    <3>2. /\ b \in Word /\ Len(b) = Blanks(x)
          /\ \A k \in 1..Blanks(x) : b[k] = x[k]
      BY <3>1, CutIs DEF Word
    <3>3. b \o From(x, Blanks(x) + 1) = x
      BY <3>1, CutAndRest DEF Word
    <3> HIDE DEF b
    <3> QED BY <3>1, <3>2, <3>3 DEF TrimLeft
  <2>5. a = b \o o
    <3>1. PlainFilter(x) = PlainValue(PlainGate, x)
      BY <2>3 DEF PlainFilter
    <3> HIDE DEF b, w
    <3>2. PlainValue(PlainGate, b \o (o \o r)).args = b \o o
      BY <2>4, ObjectPassed
    <3> QED BY <2>1, <2>4, <3>1, <3>2
  <2>6. TrimLeft(b) = <<>>
    <3> HIDE DEF b
    <3>1. Len(b) \in 0..Len(b)
      BY <2>4 DEF Word
    <3>2. Blanks(b) = Len(b)
      BY <2>4, <3>1, BlanksAre DEF Word
    <3> QED BY <2>4, <3>2, TrimLeftIs
  <2> HIDE DEF b, a, w
  <2>7. TrimLeft(a) = o /\ a \in Word /\ o = o \o <<>> /\ <<>> \in Word
    BY <2>2, <2>4, <2>5, <2>6, TrimGrown, TrimObject, Joined, NoCharacters
  <2>8. DecodeObject(a) = {o} /\ FirstObject(a) = Marshal(o)
    BY <2>7, DecodesTo
  <2>9. FirstObject(x) = Marshal(o)
    BY <2>1, DecodesTo DEF w
  <2>10. NormalizeToolArguments(a) = FirstObject(a) /\ NormalizeToolArguments(x) = FirstObject(x)
    BY <1>1, <2>8, NormalizeIs
  <2> QED BY <2>7, <2>8, <2>9, <2>10 DEF a
<1>2. CASE DecodeObject(x) = {}
  <2> DEFINE i == CHOOSE i \in DecodeString(x) : TRUE
  <2>1. PICK j \in DecodeString(x) : DecodeObject(j) # {}
    BY <1>2 DEF HoldsObject
  <2>2. /\ i \in DecodeString(x) /\ DecodeString(x) = {i} /\ DecodeString(x) # {}
        /\ i \in Word /\ DecodeObject(i) # {}
        /\ w # <<>> /\ w[1] = Quote
    BY <2>1, DecodeStringIs
  <2>3. a = NormalizeToolArguments(i)
    <3>1. PlainFilter(x) = PlainEncoded(NewGate, x)
      BY <2>2 DEF PlainFilter
    <3>2. PlainEncoded(NewGate, x).args = Unwrapped(x)
      BY <2>2 DEF PlainEncoded, Let
    <3> QED BY <3>1, <3>2 DEF Unwrapped
  <2> HIDE DEF a, w, i
  <2>4. PICK o \in Object, r \in Word : TrimLeft(i) = o \o r
    BY <2>2, DecodesTo
  <2>5. a = Marshal(o) /\ a \in Object /\ a \in Word
    <3>1. FirstObject(i) = Marshal(o)
      BY <2>2, <2>4, DecodesTo
    <3> QED BY <2>2, <2>3, <3>1, NormalizeIs, ObjectsAre
  <2>6. TrimLeft(a) = a
    BY <2>5, TrimObject
  <2>7. DecodeObject(a) = {a} /\ FirstObject(a) = Marshal(a)
    <3> DEFINE e == <<>>
    <3>1. TrimLeft(a) = a \o e /\ e \in Word
      BY <2>5, TrimObject, NoCharacters
    <3> HIDE DEF e
    <3> QED BY ZenonT(60), <2>5, <3>1, DecodesTo
  <2>8. Marshal(a) = a
    BY <2>5, ObjectsAre, MarshalSolid, MarshalSame
  <2>9. NormalizeToolArguments(a) = a
    BY <2>7, <2>8, NormalizeIs
  <2>10. NormalizeToolArguments(x) = a
    <3> DEFINE inner == {TrimSpace(c) : c \in DecodeString(x)}
               wrapped == {c \in inner : c # <<>> /\ c[1] = Brace}
               v == TrimSpace(i)
    <3>1. PICK q \in Word : v = o \o q
      BY <2>2, <2>4, TrimKeepsObject
    <3>2. /\ o \in Word /\ o[1] = Brace /\ Len(o) \in Nat /\ Len(o) > 1 /\ Len(q) \in Nat
      BY ObjectIs DEF Word
    <3>3. v \in Word /\ v # <<>> /\ v[1] = Brace
      <4>1. /\ Len(o \o q) = Len(o) + Len(q) /\ o \o q \in Word
            /\ \A k \in 1..(Len(o) + Len(q)) : (o \o q)[k] = IF k <= Len(o) THEN o[k] ELSE q[k - Len(o)]
        BY <3>2, ConcatProperties, Joined DEF Word
      <4> DEFINE z == o \o q
      <4>2. Len(z) > 0 /\ z[1] = Brace /\ z \in Word
        BY <3>2, <4>1
      <4> HIDE DEF z
      <4>3. z # <<>>
        BY <4>2, EmptySeq DEF Word
      <4> QED BY <3>1, <4>2, <4>3 DEF z
    <3>4. inner = {v}
      BY <2>2
    <3> HIDE DEF inner, v
    <3>5. wrapped = {v}
      BY <3>3, <3>4
    <3> HIDE DEF wrapped
    <3>6. NormalizeToolArguments(x) = FirstObject(CHOOSE c \in wrapped : TRUE)
      <4>1. NormalizeToolArguments(x) =
              IF DecodeObject(x) # {} \/ wrapped = {} THEN FirstObject(x)
              ELSE FirstObject(CHOOSE c \in wrapped : TRUE)
        BY DEF NormalizeToolArguments, wrapped, inner
      <4> QED BY <1>2, <3>5, <4>1
    <3>7. NormalizeToolArguments(x) = FirstObject(v)
      BY <3>5, <3>6
    <3>8. TrimLeft(v) = o \o q
      <4>1. o \o q \in Word /\ TrimLeft(o) = o /\ o # <<>>
        BY <3>2, Joined, TrimObject, ObjectIs
      <4>2. TrimLeft(o \o q) = o \o q
        BY <3>2, <4>1, TrimGrown
      <4> QED BY <3>1, <4>2
    <3>9. FirstObject(v) = Marshal(o)
      BY <3>3, <3>8, DecodesTo
    <3> QED BY <2>5, <3>7, <3>9
  <2> QED BY <2>6, <2>7, <2>9, <2>10 DEF a
<1> QED BY <1>1, <1>2

----------------------------------------------------------------------------
(* A text in pieces *)

\* After every piece the filter stands where it would stand if all of them had come at once;
\* the other filter has let nothing through.
FilterFollows ==
    LET fed == SubSeq(text, 1, pos) IN
    \/ kind = "think" /\ Follows(filter, out.reason, out.content, fed) /\ out.args = <<>>
    \/ /\ kind = "args" /\ GateFollows(filter, out.args, fed)
       /\ out.reason = <<>> /\ out.content = <<>>

\* The inductive invariant.
Inductive ==
    /\ text \in Word
    /\ pos \in 0..Len(text)
    /\ n \in 0..MaxPieces
    /\ out \in [reason : Word, content : Word, args : Word]
    /\ FilterFollows

\* New filters have been given nothing.
LEMMA NewFollows ==
    /\ Follows(NewThink, <<>>, <<>>, <<>>)
    /\ GateFollows(NewGate, <<>>, <<>>)
<1>1. TrimLeft(<<>>) = <<>> /\ <<>> \in Word /\ <<>> \in Str /\ Chars(<<>>) = <<>>
  BY TrimNothing, NoCharacters
<1>2. ~IsPrefix(OpenTag, <<>>) /\ IsPrefix(<<>>, OpenTag)
  <2>1. Len(<<>>) = 0
    OBVIOUS
  <2> QED BY <1>1, <2>1, TagsAre, PrefixIs
<1>3. PlainDetecting(<<>>) = Split("detecting", <<>>, <<>>, <<>>)
  BY <1>1, <1>2 DEF PlainDetecting
<1>4. Follows(NewThink, <<>>, <<>>, <<>>)
  <2>1. /\ PlainDetecting(<<>>).state = "detecting" /\ PlainDetecting(<<>>).buf = <<>>
        /\ PlainDetecting(<<>>).reason = <<>> /\ PlainDetecting(<<>>).content = <<>>
    BY <1>3 DEF Split
  <2>2. NewThink \in Splitter /\ NewThink.state = "detecting" /\ NewThink.buf = <<>>
    BY <1>1 DEF NewThink, Splitter
  <2> QED BY <1>1, <2>1, <2>2 DEF Follows
<1>5. PlainFilter(<<>>) = Let(NewGate, <<>>)
  <2>1. Gate(NewGate, "undecided", FALSE, <<>>) = NewGate
    BY DEF Gate, NewGate
  <2> QED BY <1>1, <2>1 DEF PlainFilter
<1>6. GateFollows(NewGate, <<>>, <<>>)
  <2>1. Bare(NewGate) = NewGate
    BY GatesAre, GateFields
  <2> QED BY <1>1, <1>5, <2>1, GatesAre DEF GateFollows
<1> QED BY <1>4, <1>6

\* The invariant holds at the start.
LEMMA InductiveInit == Init => Inductive
<1> SUFFICES ASSUME Init PROVE Inductive
  OBVIOUS
<1>1. text \in Word /\ Len(text) \in Nat
  BY TextAssumption DEF Init, Word
<1>2. SubSeq(text, 1, 0) = <<>> /\ pos = 0 /\ n = 0
  BY <1>1, EmptySeq DEF Init, Word
<1>3. /\ out = [reason |-> <<>>, content |-> <<>>, args |-> <<>>]
      /\ out.reason = <<>> /\ out.content = <<>> /\ out.args = <<>>
  BY DEF Init
<1>4. FilterFollows
  BY <1>2, <1>3, NewFollows DEF Init, FilterFollows
<1>5. out \in [reason : Word, content : Word, args : Word]
  BY <1>3, NoCharacters
<1>6. n \in 0..MaxPieces /\ pos \in 0..Len(text)
  BY <1>1, <1>2, TextAssumption
<1> QED BY <1>1, <1>4, <1>5, <1>6 DEF Inductive

\* Every piece keeps it.
LEMMA InductivePush ==
    ASSUME Inductive, NEW k \in (pos + 1)..Len(text), Push(k)
    PROVE  Inductive'
<1> DEFINE s == SubSeq(text, pos + 1, k)
           piece == Mark(s, n + 1)
           fed == SubSeq(text, 1, pos)
           more == SubSeq(text, 1, k)
<1>1. /\ text \in Word /\ Len(text) \in Nat /\ pos \in 0..Len(text) /\ n \in 0..MaxPieces
      /\ MaxPieces \in Nat /\ k \in 0..Len(text)
  BY TextAssumption DEF Inductive, Word
<1>2. /\ out.reason \in Word /\ out.content \in Word /\ out.args \in Word
      /\ out = [reason |-> out.reason, content |-> out.content, args |-> out.args]
  BY DEF Inductive
<1>3. /\ n + 1 \in 1..MaxPieces /\ n + 1 \in 0..MaxPieces
      /\ pos' = k /\ n' = n + 1 /\ text' = text /\ kind' = kind
      /\ PushContent(piece) \/ PushArguments(piece)
  BY <1>1 DEF Push
<1>4. s \in Word /\ fed \in Word /\ more \in Word /\ fed \o s = more
  <2>1. fed \in Word /\ more \in Word
    BY <1>1, CutIs DEF Word
  <2>2. s \in Word
    BY <1>1, SubSeqProperties DEF Word
  <2>3. fed \o s = more
    BY <1>1, ConcatAdjacentSubSeq DEF Word
  <2> QED BY <2>1, <2>2, <2>3
<1> HIDE DEF s, fed, more
<1>5. piece \in Str /\ Chars(piece) = s
  BY <1>3, <1>4, MarkIs
<1> HIDE DEF piece
<1>6. CASE PushContent(piece)
  <2> DEFINE p == ThinkPush(filter, piece)
  <2>1. /\ kind = "think" /\ filter' = p.filter
        /\ out' = [out EXCEPT !.reason = @ \o Chars(p.reason), !.content = @ \o Chars(p.content)]
    BY <1>6 DEF PushContent
  <2>2. Follows(filter, out.reason, out.content, fed) /\ out.args = <<>>
    BY <2>1 DEF Inductive, FilterFollows, fed
  <2>3. /\ p \in Pushes
        /\ Follows(p.filter, out.reason \o Chars(p.reason), out.content \o Chars(p.content), more)
    BY <1>4, <1>5, <2>2, PushFollows
  <2> HIDE DEF p
  <2>4. /\ out'.reason = out.reason \o Chars(p.reason)
        /\ out'.content = out.content \o Chars(p.content)
        /\ out'.args = out.args
        /\ out' = [reason |-> out'.reason, content |-> out'.content, args |-> out'.args]
    BY <1>2, <2>1
  <2>5. FilterFollows'
    BY <1>3, <2>1, <2>2, <2>3, <2>4 DEF FilterFollows, more
  <2>6. out'.reason \in Word /\ out'.content \in Word /\ out'.args \in Word
    BY <1>2, <2>3, <2>4 DEF Follows
  <2>7. out' \in [reason : Word, content : Word, args : Word]
    BY <2>4, <2>6
  <2> QED BY <1>1, <1>3, <2>5, <2>7 DEF Inductive
<1>7. CASE PushArguments(piece)
  <2> DEFINE p == GateFilter(filter, piece)
  <2>1. /\ kind = "args" /\ filter' = p.filter
        /\ out' = [out EXCEPT !.args = @ \o p.args]
    BY <1>7 DEF PushArguments
  <2>2. /\ GateFollows(filter, out.args, fed)
        /\ out.reason = <<>> /\ out.content = <<>>
    BY <2>1 DEF Inductive, FilterFollows, fed
  <2>3. GateFollows(p.filter, out.args \o p.args, more)
    BY <1>4, <1>5, <2>2, GatePush
  <2> HIDE DEF p
  <2>4. /\ out'.reason = out.reason /\ out'.content = out.content
        /\ out'.args = out.args \o p.args
        /\ out' = [reason |-> out'.reason, content |-> out'.content, args |-> out'.args]
    BY <1>2, <2>1
  <2>5. FilterFollows'
    BY <1>3, <2>1, <2>2, <2>3, <2>4 DEF FilterFollows, more
  <2>6. out'.reason \in Word /\ out'.content \in Word /\ out'.args \in Word
    BY <1>2, <2>3, <2>4 DEF GateFollows
  <2>7. out' \in [reason : Word, content : Word, args : Word]
    BY <2>4, <2>6
  <2> QED BY <1>1, <1>3, <2>5, <2>7 DEF Inductive
<1> QED BY <1>3, <1>6, <1>7

\* The invariant holds throughout.
LEMMA InductiveAlways == Spec => []Inductive
<1>1. Inductive /\ [Next]_vars => Inductive'
  <2> SUFFICES ASSUME Inductive, [Next]_vars PROVE Inductive'
    OBVIOUS
  <2>1. CASE Next
    <3>1. PICK k \in (pos + 1)..Len(text) : Push(k)
      BY <2>1 DEF Next
    <3> QED BY <3>1, InductivePush
  <2>2. CASE UNCHANGED vars
    BY <2>2 DEF vars, Inductive, FilterFollows
  <2> QED BY <2>1, <2>2
<1> QED BY InductiveInit, <1>1, PTL DEF Spec

\* Every reachable state is well typed: the filters hold and let through nothing but
\* characters of the text.
THEOREM TypeCorrect == Spec => []TypeOK
<1>1. Inductive => TypeOK
  <2> SUFFICES ASSUME Inductive PROVE TypeOK
    OBVIOUS
  <2>1. CASE kind = "think"
    <3>1. filter \in Splitter
      BY <2>1 DEF Inductive, FilterFollows, Follows
    <3> QED BY <2>1, <3>1 DEF Inductive, TypeOK, Splitter, Str, Word
  <2>2. CASE kind = "args"
    <3>1. filter \in Gates
      BY <2>2 DEF Inductive, FilterFollows, GateFollows
    <3> QED BY <2>2, <3>1 DEF Inductive, TypeOK, Gates, Str, Word
  <2> QED BY <2>1, <2>2 DEF Inductive, FilterFollows
<1> QED BY InductiveAlways, <1>1, PTL

\* Where the upstream cuts a text has no influence on what think.go and tool_arguments.go
\* let through, nor on what they hold back.
THEOREM CutsAreInvisible == Spec => []CutsDoNotMatter
<1>1. Inductive => CutsDoNotMatter
  <2> SUFFICES ASSUME Inductive, n > 0 PROVE CutsDoNotMatter
    BY DEF CutsDoNotMatter
  <2> DEFINE x == SubSeq(text, 1, pos)
  <2>1. 1 \in 1..MaxPieces /\ x \in Word
    <3>1. MaxPieces \in Nat /\ n \in 0..MaxPieces /\ Len(text) \in Nat /\ text \in Word
      BY TextAssumption DEF Inductive, Word
    <3>2. x \in Word
      BY <3>1, CutIs DEF Word, Inductive
    <3> QED BY <3>1, <3>2
  <2>2. Fed \in Str /\ Chars(Fed) = x
    BY <2>1, MarkIs DEF Fed
  <2>3. \A q \in Word : <<>> \o q = q
    BY JoinedNothing DEF Word
  <2>4. <<>> \in Word
    BY NoCharacters
  <2>5. CASE kind = "think"
    <3> DEFINE whole == ThinkPush(NewThink, Fed)
    <3>1. /\ whole \in Pushes
          /\ Follows(whole.filter, <<>> \o Chars(whole.reason), <<>> \o Chars(whole.content),
                     <<>> \o Chars(Fed))
      BY <2>2, <2>4, NewFollows, PushFollows
    <3> HIDE DEF whole
    <3>2. Chars(whole.reason) \in Word /\ Chars(whole.content) \in Word
      BY <3>1, PushesAre
    <3>3. Follows(whole.filter, Chars(whole.reason), Chars(whole.content), x)
      BY <2>1, <2>2, <2>3, <3>1, <3>2
    <3>4. Follows(filter, out.reason, out.content, x)
      BY <2>5 DEF Inductive, FilterFollows
    <3>5. /\ out.reason = Chars(whole.reason) /\ out.content = Chars(whole.content)
          /\ filter.state = whole.filter.state
          /\ filter.state # "afterClose" => Chars(filter.buf) = Chars(whole.filter.buf)
      BY <3>3, <3>4 DEF Follows
    <3> QED BY <2>5, <3>5 DEF CutsDoNotMatter, whole
  <2>6. CASE kind = "args"
    <3> DEFINE whole == GateFilter(NewGate, Fed)
    <3>1. /\ whole.args \in Word
          /\ GateFollows(whole.filter, <<>> \o whole.args, <<>> \o Chars(Fed))
      BY <2>2, <2>4, NewFollows, GatePush
    <3> HIDE DEF whole
    <3>2. <<>> \o Chars(Fed) = x /\ <<>> \o whole.args = whole.args
      BY <2>1, <2>2, <2>3, <3>1
    <3>3. Let(Bare(whole.filter), whole.args) = PlainFilter(x)
      BY <3>1, <3>2 DEF GateFollows
    <3>4. Let(Bare(filter), out.args) = PlainFilter(x)
      BY <2>6 DEF Inductive, FilterFollows, GateFollows
    <3>5. out.args = whole.args /\ Bare(filter) = Bare(whole.filter)
      BY <3>3, <3>4 DEF Let
    <3> QED BY <2>6, <3>5 DEF CutsDoNotMatter, whole, Bare
  <2> QED BY <2>5, <2>6 DEF Inductive, FilterFollows
<1> QED BY InductiveAlways, <1>1, PTL

\* The client of a stream ends up with what the client of a plain answer gets: the thought
\* and the text splitInlineThink makes of the whole content, and the object
\* normalizeToolArguments makes of the whole arguments.
THEOREM AnswersAgree == Spec => []StreamAgreesWithPlain
<1>1. Inductive => StreamAgreesWithPlain
  <2> SUFFICES ASSUME Inductive, pos = Len(text) PROVE StreamAgreesWithPlain
    BY DEF StreamAgreesWithPlain, ThoughtAgrees, ArgumentsAgree
  <2>1. text \in Word /\ SubSeq(text, 1, pos) = text
    BY SubSeqProperties DEF Inductive, Word
  <2>2. ThoughtAgrees
    <3> SUFFICES ASSUME kind = "think" PROVE ThoughtAgrees
      BY DEF ThoughtAgrees
    <3>1. Follows(filter, out.reason, out.content, text)
      BY <2>1 DEF Inductive, FilterFollows
    <3> QED BY <2>1, <3>1, FlushCompletes DEF ThoughtAgrees
  <2>3. ArgumentsAgree
    <3> SUFFICES ASSUME kind = "args", HoldsObject(text) PROVE ArgumentsAgree
      BY DEF ArgumentsAgree
    <3>1. GateFollows(filter, out.args, text)
      BY <2>1 DEF Inductive, FilterFollows
    <3>2. out.args = PlainFilter(text).args
      BY <3>1 DEF GateFollows, Let
    <3> QED BY <2>1, <3>2, ArgumentsComplete DEF ArgumentsAgree
  <2> QED BY <2>2, <2>3 DEF StreamAgreesWithPlain
<1> QED BY InductiveAlways, <1>1, PTL

----------------------------------------------------------------------------
(* Pieces *)

\* The pieces of a text, piece by piece.
FragsTo(frags, s, k) ==
    frags = [i \in 0..k |-> IF i = 0 THEN <<>>
                            ELSE IF i # 1 /\ s[i].frag = s[i - 1].frag THEN frags[i - 1]
                            ELSE Append(frags[i - 1], s[i].frag)]

LEMMA FragsIs ==
    ASSUME NEW s \in Str
    PROVE  \E frags : /\ Frags(s) = frags[Len(s)]
                      /\ frags[0] = <<>>
                      /\ \A i \in 1..Len(s) :
                           frags[i] = IF i # 1 /\ s[i].frag = s[i - 1].frag THEN frags[i - 1]
                                      ELSE Append(frags[i - 1], s[i].frag)
<1> DEFINE S == {k \in Nat : \E frags : FragsTo(frags, s, k)}
<1>1. 0 \in S
  <2>1. FragsTo([i \in 0..0 |-> <<>>], s, 0)
    BY DEF FragsTo
  <2> QED BY <2>1
<1>2. ASSUME NEW k \in Nat, k \in S PROVE k + 1 \in S
  <2>1. PICK frags : FragsTo(frags, s, k)
    BY <1>2
  <2> DEFINE Next1(g, i) == IF i # 1 /\ s[i].frag = s[i - 1].frag THEN g ELSE Append(g, s[i].frag)
             last == Next1(frags[k], k + 1)
             more == [i \in 0..(k + 1) |-> IF i = k + 1 THEN last ELSE frags[i]]
  <2>2. \A i \in 0..k : frags[i] = IF i = 0 THEN <<>> ELSE Next1(frags[i - 1], i)
    BY <2>1 DEF FragsTo
  <2>3. \A i \in 0..k : more[i] = frags[i]
    OBVIOUS
  <2>4. more[k + 1] = last
    OBVIOUS
  <2> HIDE DEF more
  <2>5. ASSUME NEW i \in 0..(k + 1)
        PROVE  more[i] = IF i = 0 THEN <<>> ELSE Next1(more[i - 1], i)
    <3> HIDE DEF Next1
    <3>1. CASE i = k + 1
      BY <2>3, <2>4, <3>1
    <3>2. CASE i # k + 1
      <4>1. i \in 0..k /\ (i # 0 => i - 1 \in 0..k)
        BY <3>2
      <4> QED BY <2>2, <2>3, <4>1
    <3> QED BY <3>1, <3>2
  <2>6. more = [i \in 0..(k + 1) |-> IF i = 0 THEN <<>> ELSE Next1(more[i - 1], i)]
    <3> HIDE DEF Next1
    <3> QED BY <2>5 DEF more
  <2>7. FragsTo(more, s, k + 1)
    BY <2>6 DEF FragsTo
  <2> QED BY <2>7
<1> HIDE DEF S
<1>3. Len(s) \in Nat
  BY DEF Str
<1>4. Len(s) \in S
  BY <1>1, <1>2, <1>3, Induction
<1>5. \E frags : FragsTo(frags, s, Len(s))
  BY <1>4 DEF S
<1> DEFINE f == CHOOSE frags : FragsTo(frags, s, Len(s))
<1>6. Frags(s) = f[Len(s)]
  BY DEF Frags, FragsTo
<1>7. FragsTo(f, s, Len(s))
  BY <1>5
<1> HIDE DEF f
<1>8. \A i \in 0..Len(s) : f[i] = IF i = 0 THEN <<>>
                                  ELSE IF i # 1 /\ s[i].frag = s[i - 1].frag THEN f[i - 1]
                                  ELSE Append(f[i - 1], s[i].frag)
  BY <1>7 DEF FragsTo
<1>9. f[0] = <<>> /\ \A i \in 1..Len(s) :
                        f[i] = IF i # 1 /\ s[i].frag = s[i - 1].frag THEN f[i - 1]
                               ELSE Append(f[i - 1], s[i].frag)
  BY <1>3, <1>8
<1> QED BY <1>6, <1>9

\* All characters of a text came in piece f, or none did.
AllOf(s, f) == \A k \in 1..Len(s) : s[k].frag = f

NoneOf(s, f) == \A k \in 1..Len(s) : s[k].frag # f

\* What comes in a new piece adds that piece.
LEMMA FragsAdded ==
    ASSUME NEW s \in Str, NEW t \in Str, NEW f, t # <<>>, NoneOf(s, f), AllOf(t, f)
    PROVE  Frags(s \o t) = Append(Frags(s), f)
<1> DEFINE u == s \o t
           l == Len(s)
<1>1. /\ u \in Str /\ l \in Nat /\ Len(t) \in Nat /\ Len(t) # 0 /\ Len(u) = l + Len(t)
      /\ \A i \in 1..l : u[i] = s[i]
      /\ \A i \in 1..Len(t) : u[l + i] = t[i]
  BY ConcatProperties, EmptySeq DEF Str
<1>2. PICK a : /\ Frags(s) = a[l] /\ a[0] = <<>>
               /\ \A i \in 1..l : a[i] = IF i # 1 /\ s[i].frag = s[i - 1].frag THEN a[i - 1]
                                         ELSE Append(a[i - 1], s[i].frag)
  BY FragsIs
<1> HIDE DEF u
<1>3. PICK b : /\ Frags(u) = b[Len(u)] /\ b[0] = <<>>
               /\ \A i \in 1..Len(u) : b[i] = IF i # 1 /\ u[i].frag = u[i - 1].frag THEN b[i - 1]
                                              ELSE Append(b[i - 1], u[i].frag)
  <2>1. u \in Str
    BY <1>1
  <2> QED BY Zenon, <2>1, FragsIs
<1>4. \A i \in 1..l : u[i].frag = s[i].frag /\ u[i].frag # f
  BY <1>1 DEF NoneOf
<1>5. \A i \in (l + 1)..Len(u) : u[i].frag = f
  <2>1. ASSUME NEW i \in (l + 1)..Len(u) PROVE u[i].frag = f
    <3>1. i - l \in 1..Len(t) /\ l + (i - l) = i
      BY <1>1
    <3> QED BY <1>1, <3>1 DEF AllOf
  <2> QED BY <2>1
<1> HIDE DEF l
<1> DEFINE S == {j \in Nat : j <= Len(u) => b[j] = IF j <= l THEN a[j] ELSE Append(a[l], f)}
<1>6. 0 \in S
  BY <1>1, <1>2, <1>3
<1>7. ASSUME NEW j \in Nat, j \in S PROVE j + 1 \in S
  <2> SUFFICES ASSUME j + 1 <= Len(u)
               PROVE  b[j + 1] = IF j + 1 <= l THEN a[j + 1] ELSE Append(a[l], f)
    OBVIOUS
  <2>1. /\ b[j] = IF j <= l THEN a[j] ELSE Append(a[l], f)
        /\ j + 1 \in 1..Len(u) /\ (j + 1) - 1 = j
    BY <1>1, <1>7
  <2>2. b[j + 1] = IF j + 1 # 1 /\ u[j + 1].frag = u[j].frag THEN b[j]
                   ELSE Append(b[j], u[j + 1].frag)
    BY <1>3, <2>1
  <2>3. CASE j + 1 <= l
    <3>1. j + 1 \in 1..l /\ (j # 0 => j \in 1..l)
      BY <1>1, <2>3
    <3>2. a[j + 1] = IF j + 1 # 1 /\ s[j + 1].frag = s[j].frag THEN a[j]
                     ELSE Append(a[j], s[j + 1].frag)
      BY <1>2, <2>1, <3>1
    <3> QED BY <1>1, <1>4, <2>1, <2>2, <2>3, <3>1, <3>2
  <2>4. CASE j = l
    <3>1. j + 1 \in (l + 1)..Len(u) /\ (j # 0 => j \in 1..l)
      BY <1>1, <2>1, <2>4
    <3>2. u[j + 1].frag = f /\ (j # 0 => u[j].frag # f)
      BY <1>4, <1>5, <3>1
    <3>3. b[j] = a[l]
      BY <1>1, <2>1, <2>4
    <3> QED BY <1>1, <2>2, <2>4, <3>2, <3>3
  <2>5. CASE j > l
    <3>1. j + 1 \in (l + 1)..Len(u) /\ j \in (l + 1)..Len(u) /\ j + 1 # 1
      BY <1>1, <2>1, <2>5
    <3>2. u[j + 1].frag = u[j].frag
      BY <1>5, <3>1
    <3> QED BY <1>1, <2>1, <2>2, <2>5, <3>1, <3>2
  <2> QED BY <1>1, <2>3, <2>4, <2>5
<1> HIDE DEF S
<1>8. Len(u) \in S
  <2>1. Len(u) \in Nat
    BY <1>1
  <2> QED BY <1>6, <1>7, <2>1, Induction
<1>9. b[Len(u)] = Append(a[l], f)
  <2>1. Len(u) <= Len(u) => b[Len(u)] = IF Len(u) <= l THEN a[Len(u)] ELSE Append(a[l], f)
    BY <1>8 DEF S
  <2>2. Len(u) \in Nat /\ ~(Len(u) <= l)
    BY <1>1
  <2> QED BY <2>1, <2>2
<1> QED BY <1>2, <1>3, <1>9 DEF u, l

\* Nothing has no pieces, and what came in one piece has one.
LEMMA FragsOf ==
    /\ Frags(<<>>) = <<>>
    /\ \A t \in Str : \A f : AllOf(t, f) /\ t # <<>> => Frags(t) = <<f>>
<1>1. <<>> \in Str /\ Len(<<>>) = 0
  BY NoCharacters
<1>2. Frags(<<>>) = <<>>
  BY <1>1, FragsIs
<1>3. ASSUME NEW t \in Str, NEW f, AllOf(t, f), t # <<>> PROVE Frags(t) = <<f>>
  <2>1. NoneOf(<<>>, f)
    BY <1>1 DEF NoneOf
  <2>2. Frags(<<>> \o t) = Append(Frags(<<>>), f)
    BY <1>1, <1>3, <2>1, FragsAdded
  <2>3. <<>> \o t = t
    BY ConcatEmptySeq DEF Str
  <2>4. Append(<<>>, f) = <<f>>
    OBVIOUS
  <2> QED BY <1>2, <2>2, <2>3, <2>4
<1> QED BY <1>2, <1>3

\* The end of a text came in the pieces the text came in.
LEMMA AllOfFrom ==
    ASSUME NEW s \in Str, NEW f, AllOf(s, f), NEW k \in 1..(Len(s) + 1)
    PROVE  From(s, k) \in Str /\ AllOf(From(s, k), f)
<1>1. /\ From(s, k) \in Str /\ Len(From(s, k)) = Len(s) - k + 1
      /\ \A i \in 1..(Len(s) - k + 1) : From(s, k)[i] = s[k + i - 1]
  BY FromIs DEF Str
<1>2. ASSUME NEW i \in 1..(Len(s) - k + 1) PROVE From(s, k)[i].frag = f
  <2>1. k + i - 1 \in 1..Len(s)
    BY DEF Str
  <2> QED BY <1>1, <2>1 DEF AllOf
<1> QED BY <1>1, <1>2 DEF AllOf

\* Text that was held back, followed by a piece, and cut anywhere.
LEMMA Sides ==
    ASSUME NEW h \in Str, NEW s \in Str, NEW f, NoneOf(h, f), AllOf(s, f), s # <<>>,
           NEW c \in 0..Len(h \o s)
    PROVE  LET b == h \o s IN
           /\ b \in Str /\ Len(b) = Len(h) + Len(s) /\ Frags(b) = Append(Frags(h), f)
           /\ c = 0 => SubSeq(b, 1, c) = <<>> /\ From(b, c + 1) = b
           /\ c = Len(h) => SubSeq(b, 1, c) = h
           /\ c > Len(h) => Frags(SubSeq(b, 1, c)) = Append(Frags(h), f)
           /\ c >= Len(h) => /\ From(b, c + 1) \in Str /\ AllOf(From(b, c + 1), f)
                             /\ From(b, c + 1) = <<>> <=> c = Len(b)
<1> DEFINE b == h \o s
<1>1. /\ b \in Str /\ Len(b) = Len(h) + Len(s) /\ Frags(b) = Append(Frags(h), f)
      /\ Len(h) \in Nat /\ Len(s) \in Nat /\ Len(s) # 0
  <2>1. b \in Str /\ Len(b) = Len(h) + Len(s)
    BY StrJoined
  <2>2. Len(h) \in Nat /\ Len(s) \in Nat /\ Len(s) # 0
    BY EmptySeq DEF Str
  <2> QED BY <2>1, <2>2, FragsAdded
<1>2. ASSUME c = 0 PROVE SubSeq(b, 1, c) = <<>> /\ From(b, c + 1) = b
  <2>1. SubSeq(b, 1, 0) = <<>>
    <3>1. 0 \in 0..Len(b)
      BY <1>1
    <3>2. SubSeq(b, 1, 0) \in Str /\ Len(SubSeq(b, 1, 0)) = 0
      BY <1>1, <3>1, CutIs DEF Str
    <3> HIDE DEF b
    <3> QED BY <3>2, EmptySeq DEF Str
  <2>2. From(b, 1) = b
    BY <1>1, SubSeqFull DEF From, Str
  <2> QED BY <1>2, <2>1, <2>2
<1>3. ASSUME c >= Len(h)
      PROVE  LET k == c - Len(h) IN
             /\ k \in 0..Len(s) /\ SubSeq(b, 1, c) = h \o SubSeq(s, 1, k)
             /\ From(b, c + 1) = From(s, k + 1)
  <2> DEFINE k == c - Len(h)
  <2>1. k \in 0..Len(s) /\ Len(h) + k = c /\ k + 1 \in 1..(Len(s) + 1) /\ Len(h) + (k + 1) = c + 1
    BY <1>1, <1>3
  <2> HIDE DEF k
  <2>2. SubSeq(b, 1, Len(h) + k) = h \o SubSeq(s, 1, k)
    BY <2>1, CutSecond DEF Str
  <2>3. From(b, Len(h) + (k + 1)) = From(s, k + 1)
    BY <2>1, FromSecond DEF Str
  <2> QED BY <2>1, <2>2, <2>3 DEF k
<1>4. ASSUME c = Len(h) PROVE SubSeq(b, 1, c) = h
  <2>1. SubSeq(b, 1, c) = h \o SubSeq(s, 1, 0)
    BY <1>1, <1>3, <1>4
  <2>2. SubSeq(s, 1, 0) = <<>>
    <3>1. 0 \in 0..Len(s)
      BY <1>1
    <3>2. SubSeq(s, 1, 0) \in Str /\ Len(SubSeq(s, 1, 0)) = 0
      BY <3>1, CutIs DEF Str
    <3> QED BY <3>2, EmptySeq DEF Str
  <2>3. h \o <<>> = h
    BY ConcatEmptySeq DEF Str
  <2> QED BY <2>1, <2>2, <2>3
<1>5. ASSUME c > Len(h) PROVE Frags(SubSeq(b, 1, c)) = Append(Frags(h), f)
  <2> DEFINE k == c - Len(h)
             t == SubSeq(s, 1, k)
  <2>1. k \in 1..Len(s) /\ k \in 0..Len(s) /\ SubSeq(b, 1, c) = h \o t
    BY <1>1, <1>3, <1>5
  <2> HIDE DEF k
  <2>2. t \in Str /\ Len(t) = k /\ \A i \in 1..k : t[i] = s[i]
    BY <2>1, CutIs DEF Str
  <2> HIDE DEF t
  <2>3. t # <<>> /\ AllOf(t, f)
    <3>1. Len(<<>>) = 0
      OBVIOUS
    <3>2. \A i \in 1..Len(t) : i \in 1..Len(s)
      BY <1>1, <2>1, <2>2
    <3> QED BY <1>1, <2>1, <2>2, <3>1, <3>2 DEF AllOf
  <2> QED BY <2>1, <2>2, <2>3, FragsAdded
<1>6. ASSUME c >= Len(h)
      PROVE  /\ From(b, c + 1) \in Str /\ AllOf(From(b, c + 1), f)
             /\ From(b, c + 1) = <<>> <=> c = Len(b)
  <2> DEFINE k == c - Len(h)
             t == From(s, k + 1)
  <2>1. k \in 0..Len(s) /\ k + 1 \in 1..(Len(s) + 1) /\ From(b, c + 1) = t
    BY <1>1, <1>3, <1>6
  <2>2. k = Len(s) <=> c = Len(b)
    BY <1>1
  <2> HIDE DEF k
  <2>3. t \in Str /\ AllOf(t, f) /\ Len(t) = Len(s) - (k + 1) + 1
    <3>1. Len(t) = Len(s) - (k + 1) + 1
      BY <2>1, FromIs DEF Str
    <3> QED BY <2>1, <3>1, AllOfFrom
  <2> HIDE DEF t, b
  <2>4. t = <<>> <=> Len(t) = 0
    BY <2>3, EmptySeq DEF Str
  <2> QED BY <1>1, <2>1, <2>2, <2>3, <2>4
<1> QED BY <1>1, <1>2, <1>4, <1>5, <1>6

----------------------------------------------------------------------------
(* The splitter of StreamInput *)

\* A splitter and a push as StreamInput sees them.
ThinkOf(f) ==
    [state |-> f.state,
     held |-> IF f.state \in {"detecting", "inside"} THEN Frags(f.buf) ELSE <<>>]

SplitOf(p) == [think |-> ThinkOf(p.filter), reason |-> Frags(p.reason), text |-> Frags(p.content)]

LEMMA SplitOfPushed ==
    ASSUME NEW buf, NEW reason, NEW content
    PROVE  /\ SplitOf(Pushed("inside", buf, reason, content)) =
                Fragments!Split("inside", Frags(buf), Frags(reason), Frags(content))
           /\ SplitOf(Pushed("detecting", buf, reason, content)) =
                Fragments!Split("detecting", Frags(buf), Frags(reason), Frags(content))
           /\ SplitOf(Pushed("afterClose", buf, reason, content)) =
                Fragments!Split("afterClose", <<>>, Frags(reason), Frags(content))
           /\ SplitOf(Pushed("passthrough", buf, reason, content)) =
                Fragments!Split("passthrough", <<>>, Frags(reason), Frags(content))
BY DEF SplitOf, ThinkOf, Pushed, Fragments!Split

\* The beginning of a tag and no more.
StartOf(w, tag) == Len(w) < Len(tag) /\ \A i \in 1..Len(w) : w[i] = tag[i]

\* In a text that follows the beginning of a closing tag, a closing tag begins there or later.
LEMMA TagBegins ==
    ASSUME NEW h \in Str, NEW s \in Str, StartOf(Chars(h), CloseTag),
           NEW j \in 1..Len(h \o s), Chars(h \o s)[j] = CloseTag[1]
    PROVE  j = 1 \/ j > Len(h)
<1>1. /\ h \o s \in Str /\ Len(h \o s) = Len(h) + Len(s) /\ Len(h) \in Nat /\ Len(s) \in Nat
      /\ Chars(h) \in Word /\ Len(Chars(h)) = Len(h)
      /\ Chars(s) \in Word /\ Len(Chars(s)) = Len(s)
      /\ Chars(h \o s) = Chars(h) \o Chars(s)
  BY StrJoined, CharsIs, CharsConcat DEF Str
<1> SUFFICES ASSUME j # 1, j <= Len(h) PROVE FALSE
  BY <1>1
<1>2. j \in 1..Len(Chars(h))
  BY <1>1
<1>3. (Chars(h) \o Chars(s))[j] = Chars(h)[j]
  BY <1>1, <1>2, ConcatProperties DEF Word
<1>4. Chars(h)[j] = CloseTag[j] /\ Len(h) < Len(CloseTag)
  BY <1>1, <1>2 DEF StartOf
<1>5. j \in 2..Len(CloseTag)
  BY <1>1, <1>4, TagsAre
<1> QED BY <1>1, <1>3, <1>4, <1>5, TagAssumption

\* What a push inside the thought may come to in StreamInput.
LEMMA InsideOutcomes ==
    ASSUME NEW held, NEW f
    PROVE  LET buf == Append(held, f)
               all == Fragments!FeedInside(held, f)
           IN
           /\ Fragments!Split("inside", <<>>, buf, <<>>) \in all
           /\ Fragments!Split("inside", <<f>>, buf, <<>>) \in all
           /\ Fragments!Split("inside", <<f>>, held, <<>>) \in all
           /\ Fragments!Split("inside", buf, <<>>, <<>>) \in all
           /\ \A r \in {<<>>, held, buf} :
                /\ Fragments!Split("afterClose", <<>>, r, <<>>) \in all
                /\ Fragments!Split("passthrough", <<>>, r, <<f>>) \in all
<1> DEFINE buf == Append(held, f)
           all == Fragments!FeedInside(held, f)
           O == {[emit |-> buf,  keep |-> <<>>], [emit |-> buf,  keep |-> <<f>>],
                 [emit |-> held, keep |-> <<f>>], [emit |-> <<>>, keep |-> buf]}
           split(a, b, c, d) == Fragments!Split(a, b, c, d)
<1>1. all = {split("inside", o.keep, o.emit, <<>>) : o \in O}
              \cup {split("afterClose", <<>>, r, <<>>) : r \in {<<>>, held, buf}}
              \cup {split("passthrough", <<>>, r, <<f>>) : r \in {<<>>, held, buf}}
  BY DEF Fragments!FeedInside
<1> HIDE DEF split, buf, all
<1>2. ASSUME NEW o \in O PROVE split("inside", o.keep, o.emit, <<>>) \in all
  BY <1>1
<1>3. \A r \in {<<>>, held, buf} : /\ split("afterClose", <<>>, r, <<>>) \in all
                                   /\ split("passthrough", <<>>, r, <<f>>) \in all
  BY <1>1
<1>4. \A e, k : [emit |-> e, keep |-> k] \in O => split("inside", k, e, <<>>) \in all
  <2>1. ASSUME NEW e, NEW k, [emit |-> e, keep |-> k] \in O
        PROVE  split("inside", k, e, <<>>) \in all
    <3> DEFINE o == [emit |-> e, keep |-> k]
    <3>1. o.keep = k /\ o.emit = e
      OBVIOUS
    <3>2. o \in O
      BY <2>1
    <3> HIDE DEF o
    <3> QED BY <1>2, <3>1, <3>2
  <2> QED BY <2>1
<1>5. /\ split("inside", <<>>, buf, <<>>) \in all
      /\ split("inside", <<f>>, buf, <<>>) \in all
      /\ split("inside", <<f>>, held, <<>>) \in all
      /\ split("inside", buf, <<>>, <<>>) \in all
  BY <1>4
<1> QED BY <1>3, <1>5 DEF split, buf, all

\* feedInside: what was held back is the beginning of a closing tag, in which no other one
\* begins, so that the tag and what is kept begin with the buffer, with the piece, or in it.
LEMMA InsideCovered ==
    ASSUME NEW h \in Str, NEW s \in Str, NEW f, NoneOf(h, f), AllOf(s, f), s # <<>>,
           StartOf(Chars(h), CloseTag)
    PROVE  SplitOf(FeedInside(h, s)) \in Fragments!FeedInside(Frags(h), f)
<1> DEFINE b == h \o s
           x == Chars(b)
           i == Find(x, CloseTag)
           r == TrimPieces(From(b, i + Len(CloseTag)))
           o == OverlapSuffixLen(x, CloseTag)
           cut == Len(b) - o
           all == Fragments!FeedInside(Frags(h), f)
           buf == Append(Frags(h), f)
           split(a, w, c, d) == Fragments!Split(a, w, c, d)
<1>1. /\ b \in Str /\ Len(b) = Len(h) + Len(s) /\ Len(h) \in Nat /\ Len(s) \in Nat /\ Len(s) # 0
      /\ x \in Word /\ Len(x) = Len(b)
  <2>1. b \in Str /\ Len(b) = Len(h) + Len(s)
    BY StrJoined
  <2>2. Len(h) \in Nat /\ Len(s) \in Nat /\ Len(s) # 0
    BY EmptySeq DEF Str
  <2> HIDE DEF b
  <2>3. x \in Word /\ Len(x) = Len(b)
    BY <2>1, CharsIs
  <2> QED BY <2>1, <2>2, <2>3
<1>2. /\ split("inside", <<>>, buf, <<>>) \in all
      /\ split("inside", <<f>>, buf, <<>>) \in all
      /\ split("inside", <<f>>, Frags(h), <<>>) \in all
      /\ split("inside", buf, <<>>, <<>>) \in all
      /\ \A q \in {<<>>, Frags(h), buf} :
           /\ split("afterClose", <<>>, q, <<>>) \in all
           /\ split("passthrough", <<>>, q, <<f>>) \in all
  BY InsideOutcomes
<1>3. ASSUME NEW c \in 0..Len(b)
      PROVE  /\ c = 0 => SubSeq(b, 1, c) = <<>> /\ From(b, c + 1) = b
             /\ c = Len(h) => SubSeq(b, 1, c) = h
             /\ c > Len(h) => Frags(SubSeq(b, 1, c)) = buf
             /\ c >= Len(h) => /\ From(b, c + 1) \in Str /\ AllOf(From(b, c + 1), f)
                               /\ From(b, c + 1) = <<>> <=> c = Len(b)
  BY Sides
<1>4. Frags(b) = buf /\ Frags(<<>>) = <<>>
  BY FragsAdded, FragsOf
<1>5. ASSUME NEW j \in 1..Len(b), x[j] = CloseTag[1] PROVE j = 1 \/ j > Len(h)
  BY <1>5, TagBegins
<1>6. FeedInside(h, s) = IF i = 0 THEN Pushed("inside", From(b, cut + 1), SubSeq(b, 1, cut), <<>>)
                         ELSE Pushed(IF r = <<>> THEN "afterClose" ELSE "passthrough",
                                     <<>>, SubSeq(b, 1, i - 1), r)
  BY DEF FeedInside
<1> HIDE DEF b, x, all, buf, split
<1>7. CASE i = 0
  <2>1. /\ o \in 0..(Len(CloseTag) - 1) /\ o <= Len(x) /\ EndsWith(x, CloseTag, o)
    BY <1>1, TagsAre, OverlapIs
  <2>2. cut \in 0..Len(b)
    BY <1>1, <2>1, TagsAre
  <2>3. cut = 0 \/ cut >= Len(h)
    <3> SUFFICES ASSUME cut # 0, cut < Len(h) PROVE FALSE
      BY <1>1, <2>2
    <3>1. o \in Nat /\ o >= 1 /\ cut + 1 \in 1..Len(b) /\ Len(x) - o + 1 = cut + 1
      BY <1>1, <2>1, <2>2, TagsAre
    <3>2. x[cut + 1] = CloseTag[1]
      <4>1. \A k \in 1..o : x[Len(x) - o + k] = CloseTag[k]
        BY <2>1 DEF EndsWith
      <4>2. 1 \in 1..o
        BY <3>1
      <4> QED BY <3>1, <4>1, <4>2
    <3>3. cut + 1 = 1 \/ cut + 1 > Len(h)
      BY <1>5, <3>1, <3>2
    <3> QED BY <1>1, <2>2, <3>3
  <2> HIDE DEF o, i
  <2> DEFINE k == From(b, cut + 1)
             e == SubSeq(b, 1, cut)
  <2>4. SplitOf(FeedInside(h, s)) = split("inside", Frags(k), Frags(e), <<>>)
    BY <1>4, <1>6, <1>7, SplitOfPushed DEF split
  <2>5. /\ cut = 0 => e = <<>> /\ k = b
        /\ cut = Len(h) => e = h
        /\ cut > Len(h) => Frags(e) = buf
        /\ cut >= Len(h) => k \in Str /\ AllOf(k, f) /\ (k = <<>> <=> cut = Len(b))
    BY <1>3, <2>2
  <2> HIDE DEF k, e, cut
  <2>6. cut >= Len(h) => IF cut = Len(b) THEN Frags(k) = <<>> ELSE Frags(k) = <<f>>
    BY <1>4, <2>5, FragsOf
  <2>7. CASE cut = 0
    BY <1>2, <1>4, <2>4, <2>5, <2>7 DEF all
  <2>8. CASE cut = Len(h) /\ cut # 0
    <3>1. cut # Len(b)
      BY <1>1, <2>8
    <3>2. Frags(e) = Frags(h) /\ Frags(k) = <<f>>
      BY <1>1, <2>5, <2>6, <2>8, <3>1
    <3> QED BY <1>2, <2>4, <3>2 DEF all
  <2>9. CASE cut > Len(h)
    <3>1. Frags(e) = buf /\ (Frags(k) = <<>> \/ Frags(k) = <<f>>)
      BY <1>1, <2>2, <2>5, <2>6, <2>9
    <3> QED BY <1>2, <2>4, <3>1 DEF all
  <2>10. cut = 0 \/ (cut = Len(h) /\ cut # 0) \/ cut > Len(h)
    BY <1>1, <2>2, <2>3
  <2> QED BY <2>7, <2>8, <2>9, <2>10
<1>8. CASE i # 0
  <2> DEFINE c == i - 1
             d == c + Len(CloseTag)
             e == SubSeq(b, 1, c)
             v == From(b, i + Len(CloseTag))
  <2>1. /\ i \in 1..Len(b) /\ c \in 0..Len(b) /\ i + Len(CloseTag) \in 1..(Len(b) + 1)
        /\ x[i] = CloseTag[1]
    <3>1. i \in 1..Len(x) /\ i - 1 \in 0..Len(x) /\ i + Len(CloseTag) \in 1..(Len(x) + 1)
      BY <1>1, <1>8, TagsAre, BehindTag
    <3>2. Occurs(x, CloseTag, i)
      BY <1>1, <1>8, TagsAre, FindIs
    <3>3. x[i + 1 - 1] = CloseTag[1] /\ i + 1 - 1 = i
      <4>1. 1 \in 1..Len(CloseTag)
        BY TagsAre
      <4> QED BY <3>1, <3>2, <4>1 DEF Occurs
    <3> QED BY <1>1, <3>1, <3>3
  <2>2. c = 0 \/ c >= Len(h)
    <3>1. i = 1 \/ i > Len(h)
      BY <1>5, <2>1
    <3> QED BY <1>1, <2>1, <3>1
  <2>3. Len(h) < Len(CloseTag) /\ Len(CloseTag) \in Nat
    <3>1. Len(Chars(h)) = Len(h)
      BY CharsIs
    <3> QED BY <3>1, TagsAre DEF StartOf
  <2>4. d \in 0..Len(b) /\ d >= Len(h) /\ d + 1 = i + Len(CloseTag)
    BY <1>1, <2>1, <2>3
  <2> HIDE DEF i
  <2>5. Frags(e) \in {<<>>, Frags(h), buf}
    <3>1. /\ c = 0 => e = <<>>
          /\ c = Len(h) => e = h
          /\ c > Len(h) => Frags(e) = buf
      BY <1>3, <2>1
    <3> HIDE DEF e, c
    <3>2. CASE c = 0
      BY <1>4, <3>1, <3>2
    <3>3. CASE c = Len(h)
      BY <3>1, <3>3
    <3>4. CASE c > Len(h)
      BY <3>1, <3>4
    <3> QED BY <1>1, <2>1, <2>2, <3>2, <3>3, <3>4
  <2>6. v \in Str /\ AllOf(v, f)
    BY <1>3, <2>4
  <2>7. r \in Str /\ AllOf(r, f)
    <3>1. Chars(v) \in Word /\ Len(Chars(v)) = Len(v) /\ Len(v) \in Nat
      BY <2>6, CharsIs DEF Str
    <3>2. Blanks(Chars(v)) + 1 \in 1..(Len(v) + 1)
      <4>1. Blanks(Chars(v)) \in 0..Len(Chars(v))
        BY <3>1, TrimLeftIs
      <4> QED BY <3>1, <4>1
    <3> HIDE DEF v
    <3>3. TrimPieces(v) \in Str /\ AllOf(TrimPieces(v), f)
      BY <2>6, <3>2, AllOfFrom DEF TrimPieces
    <3> QED BY <3>3 DEF v
  <2> HIDE DEF c, d, e, v, r
  <2>8. FeedInside(h, s) = Pushed(IF r = <<>> THEN "afterClose" ELSE "passthrough", <<>>, e, r)
    BY <1>6, <1>8 DEF e, c
  <2>9. CASE r = <<>>
    <3>1. SplitOf(FeedInside(h, s)) = split("afterClose", <<>>, Frags(e), <<>>)
      BY <1>4, <2>8, <2>9, SplitOfPushed DEF split
    <3> QED BY <1>2, <2>5, <3>1 DEF all
  <2>10. CASE r # <<>>
    <3>1. Frags(r) = <<f>>
      BY <2>7, <2>10, FragsOf
    <3>2. SplitOf(FeedInside(h, s)) = split("passthrough", <<>>, Frags(e), <<f>>)
      BY <2>8, <2>10, <3>1, SplitOfPushed DEF split
    <3> QED BY <1>2, <2>5, <3>2 DEF all
  <2> QED BY <2>9, <2>10
<1> QED BY <1>7, <1>8

\* The last m characters of a text came in piece f.
Fresh(v, m, f) == \A i \in 1..Len(v) : i > Len(v) - m => v[i].frag = f

LEMMA FreshIs ==
    ASSUME NEW v \in Str, NEW m \in Nat, NEW f, Fresh(v, m, f)
    PROVE  /\ Len(v) <= m => AllOf(v, f)
           /\ \A k \in 1..(Len(v) + 1) : Fresh(From(v, k), m, f)
<1>1. Len(v) \in Nat
  BY DEF Str
<1>2. ASSUME Len(v) <= m PROVE AllOf(v, f)
  BY <1>1, <1>2 DEF AllOf, Fresh
<1>3. ASSUME NEW k \in 1..(Len(v) + 1) PROVE Fresh(From(v, k), m, f)
  <2> DEFINE u == From(v, k)
  <2>1. /\ Len(u) = Len(v) - k + 1
        /\ \A i \in 1..(Len(v) - k + 1) : u[i] = v[k + i - 1]
    BY FromIs DEF Str
  <2> HIDE DEF u
  <2>2. ASSUME NEW i \in 1..Len(u), i > Len(u) - m PROVE u[i].frag = f
    <3>1. k + i - 1 \in 1..Len(v) /\ k + i - 1 > Len(v) - m
      BY <1>1, <2>1, <2>2
    <3>2. u[i] = v[k + i - 1]
      BY <2>1
    <3> QED BY <3>1, <3>2 DEF Fresh
  <2>3. Fresh(u, m, f)
    BY <2>2 DEF Fresh
  <2> QED BY <2>3 DEF u
<1> QED BY <1>2, <1>3

\* What is left of text that was held back and a piece, without its first blanks.
LEMMA FreshTrimmed ==
    ASSUME NEW h \in Str, NEW s \in Str, NEW f, AllOf(s, f)
    PROVE  LET t == TrimPieces(h \o s)
               w == TrimLeft(Chars(h))
           IN
           /\ t \in Str /\ Fresh(t, Len(s), f)
           /\ Chars(t) = TrimLeft(Chars(h \o s))
           /\ Len(t) <= Len(w) + Len(s)
<1> DEFINE b == h \o s
           x == Chars(b)
           t == TrimPieces(b)
           w == TrimLeft(Chars(h))
           y == Chars(s)
<1>1. /\ b \in Str /\ Len(b) = Len(h) + Len(s) /\ Len(h) \in Nat /\ Len(s) \in Nat
      /\ \A i \in 1..Len(s) : b[Len(h) + i] = s[i]
  BY ConcatProperties DEF Str
<1>2. x = Chars(h) \o y /\ y \in Word /\ Len(y) = Len(s) /\ Chars(h) \in Word
  BY CharsConcat, CharsIs
<1> HIDE DEF b, y
<1>3. x \in Word /\ Len(x) = Len(b) /\ t \in Str /\ Chars(t) = TrimLeft(x)
  BY <1>1, CharsIs, TrimPiecesIs
<1>4. Fresh(b, Len(s), f)
  <2>1. ASSUME NEW i \in 1..Len(b), i > Len(b) - Len(s) PROVE b[i].frag = f
    <3>1. i - Len(h) \in 1..Len(s) /\ Len(h) + (i - Len(h)) = i
      BY <1>1, <2>1
    <3> QED BY <1>1, <3>1 DEF AllOf
  <2> QED BY <2>1 DEF Fresh
<1>5. Fresh(t, Len(s), f)
  <2>1. Blanks(x) \in 0..Len(x)
    BY <1>3, TrimLeftIs
  <2>2. Blanks(x) + 1 \in 1..(Len(b) + 1)
    BY <1>1, <1>3, <2>1
  <2> QED BY <1>1, <1>4, <2>2, FreshIs DEF TrimPieces
<1>6. Len(t) = Len(TrimLeft(x))
  BY <1>3, CharsIs
<1>7. /\ w \in Word /\ Len(w) \in Nat
      /\ TrimLeft(x) = IF w = <<>> THEN TrimLeft(y) ELSE w \o y
      /\ TrimLeft(y) \in Word /\ Len(TrimLeft(y)) = Len(y) - Blanks(y) /\ Blanks(y) \in 0..Len(y)
  <2>1. w \in Word /\ Len(w) \in Nat
    BY <1>2, TrimLeftIs DEF Word
  <2>2. TrimLeft(x) = IF w = <<>> THEN TrimLeft(y) ELSE w \o y
    BY <1>2, TrimGrown
  <2>3. TrimLeft(y) \in Word /\ Len(TrimLeft(y)) = Len(y) - Blanks(y) /\ Blanks(y) \in 0..Len(y)
    BY <1>2, TrimLeftIs
  <2> QED BY <2>1, <2>2, <2>3
<1> HIDE DEF w, t, x
<1>8. Len(t) <= Len(w) + Len(s)
  <2>1. CASE w = <<>>
    BY <1>1, <1>2, <1>6, <1>7, <2>1
  <2>2. CASE w # <<>>
    <3>1. Len(w \o y) = Len(w) + Len(y)
      BY <1>2, <1>7, Joined
    <3> QED BY <1>1, <1>2, <1>6, <1>7, <2>2, <3>1
  <2> QED BY <2>1, <2>2
<1> QED BY <1>3, <1>5, <1>8 DEF t, w, x, b

\* A splitter inside the thought that is given nothing goes on holding nothing.
LEMMA InsideNothing == FeedInside(<<>>, <<>>) = Pushed("inside", <<>>, <<>>, <<>>)
<1>1. <<>> \in Str /\ Chars(<<>>) = <<>> /\ <<>> \in Word /\ Len(<<>>) = 0 /\ <<>> \o <<>> = <<>>
  BY NoCharacters, ConcatEmptySeq DEF Word
<1>2. Find(<<>>, CloseTag) = 0
  BY <1>1, TagsAre, FindIs
<1>3. OverlapSuffixLen(<<>>, CloseTag) = 0
  <2>1. /\ OverlapSuffixLen(<<>>, CloseTag) \in 0..(Len(CloseTag) - 1)
        /\ OverlapSuffixLen(<<>>, CloseTag) <= Len(<<>>)
    BY <1>1, TagsAre, OverlapIs
  <2> QED BY <1>1, <2>1, TagsAre
<1>4. SubSeq(<<>>, 1, 0) = <<>>
  BY <1>1, SubSeqFull DEF Word
<1>5. From(<<>>, 1) = <<>>
  BY <1>1, <1>4 DEF From
<1> DEFINE b == <<>> \o <<>>
           i == Find(Chars(b), CloseTag)
           cut == Len(b) - OverlapSuffixLen(Chars(b), CloseTag)
<1>6. FeedInside(<<>>, <<>>) =
        IF i = 0 THEN Pushed("inside", From(b, cut + 1), SubSeq(b, 1, cut), <<>>)
        ELSE Pushed(IF TrimPieces(From(b, i + Len(CloseTag))) = <<>> THEN "afterClose"
                    ELSE "passthrough",
                    <<>>, SubSeq(b, 1, i - 1), TrimPieces(From(b, i + Len(CloseTag))))
  BY DEF FeedInside
<1>7. b = <<>>
  BY <1>1
<1> HIDE DEF b
<1>8. i = 0 /\ cut = 0 /\ cut + 1 = 1
  BY <1>1, <1>2, <1>3, <1>7
<1> HIDE DEF i, cut
<1>9. FeedInside(<<>>, <<>>) = Pushed("inside", From(b, cut + 1), SubSeq(b, 1, cut), <<>>)
  BY <1>6, <1>8
<1>10. From(b, cut + 1) = <<>> /\ SubSeq(b, 1, cut) = <<>>
  BY <1>4, <1>5, <1>7, <1>8
<1> QED BY <1>9, <1>10

\* feedDetecting: what was held back is not yet an opening tag, so that the tag ends in the
\* piece.
LEMMA DetectingCovered ==
    ASSUME NEW h \in Str, NEW s \in Str, NEW f, NoneOf(h, f), AllOf(s, f), s # <<>>,
           IsPrefix(TrimLeft(Chars(h)), OpenTag), ~IsPrefix(OpenTag, TrimLeft(Chars(h)))
    PROVE  SplitOf(FeedDetecting(h, s)) \in Fragments!FeedDetecting(Frags(h), f)
<1> DEFINE b == h \o s
           t == TrimPieces(b)
           w == TrimLeft(Chars(h))
           u == From(t, Len(OpenTag) + 1)
           buf == Append(Frags(h), f)
           all == Fragments!FeedDetecting(Frags(h), f)
           split(a, c, d, e) == Fragments!Split(a, c, d, e)
<1>1. /\ split("detecting", buf, <<>>, <<>>) \in all
      /\ split("passthrough", <<>>, <<>>, buf) \in all
      /\ split("inside", <<>>, <<>>, <<>>) \in all
      /\ Fragments!FeedInside(<<>>, f) \subseteq all
  BY DEF Fragments!FeedDetecting
<1>2. /\ b \in Str /\ Frags(b) = buf /\ Frags(<<>>) = <<>>
      /\ t \in Str /\ Fresh(t, Len(s), f) /\ Len(t) <= Len(w) + Len(s)
      /\ Len(s) \in Nat
  <2>1. b \in Str /\ Frags(b) = buf /\ Frags(<<>>) = <<>> /\ Len(s) \in Nat
    BY StrJoined, FragsAdded, FragsOf DEF Str
  <2>2. t \in Str /\ Fresh(t, Len(s), f) /\ Len(t) <= Len(w) + Len(s)
    BY FreshTrimmed
  <2> QED BY <2>1, <2>2
<1>3. FeedDetecting(h, s) = IF IsPrefix(OpenTag, Chars(t)) THEN FeedInside(<<>>, u)
                            ELSE IF IsPrefix(Chars(t), OpenTag)
                            THEN Pushed("detecting", b, <<>>, <<>>)
                            ELSE Pushed("passthrough", <<>>, <<>>, b)
  BY DEF FeedDetecting
<1>4. w \in Word /\ Len(w) < Len(OpenTag) /\ Len(w) \in Nat
  <2>1. w \in Word /\ Len(w) \in Nat
    BY CharsIs, TrimLeftIs DEF Word
  <2> HIDE DEF w
  <2>2. Len(w) <= Len(OpenTag) /\ \A i \in 1..Len(w) : w[i] = OpenTag[i]
    BY <2>1, TagsAre, PrefixIs DEF w
  <2>3. Len(w) # Len(OpenTag)
    <3> SUFFICES ASSUME Len(w) = Len(OpenTag) PROVE IsPrefix(OpenTag, w)
      BY DEF w
    <3>1. Len(OpenTag) <= Len(w) /\ \A i \in 1..Len(OpenTag) : OpenTag[i] = w[i]
      BY <2>1, <2>2
    <3> QED BY <2>1, <3>1, TagsAre, PrefixIs
  <2> QED BY <2>1, <2>2, <2>3, TagsAre
<1> HIDE DEF b, t, w, u, buf, all
<1>5. CASE IsPrefix(OpenTag, Chars(t))
  <2>1. Chars(t) \in Word /\ Len(Chars(t)) = Len(t) /\ Len(t) \in Nat
    BY <1>2, CharsIs DEF Str
  <2>2. Len(OpenTag) <= Len(t)
    BY <1>5, <2>1, TagsAre, PrefixIs
  <2>3. Len(OpenTag) + 1 \in 1..(Len(t) + 1)
    BY <2>1, <2>2, TagsAre
  <2>4. u \in Str /\ Len(u) = Len(t) - (Len(OpenTag) + 1) + 1 /\ Fresh(u, Len(s), f)
    <3>1. u \in Str /\ Len(u) = Len(t) - (Len(OpenTag) + 1) + 1
      BY <1>2, <2>3, FromIs DEF Str, u
    <3> QED BY <1>2, <2>3, <3>1, FreshIs DEF u
  <2>5. Len(u) <= Len(s)
    BY <1>2, <1>4, <2>1, <2>4, TagsAre
  <2>6. AllOf(u, f)
    BY <1>2, <2>4, <2>5, FreshIs
  <2>7. FeedDetecting(h, s) = FeedInside(<<>>, u)
    BY <1>3, <1>5
  <2>8. CASE u = <<>>
    <3>1. SplitOf(FeedDetecting(h, s)) = split("inside", <<>>, <<>>, <<>>)
      BY <1>2, <2>7, <2>8, InsideNothing, SplitOfPushed
    <3> QED BY <1>1, <3>1 DEF all
  <2>9. CASE u # <<>>
    <3>1. <<>> \in Str /\ Chars(<<>>) = <<>> /\ Len(<<>>) = 0
      BY NoCharacters
    <3>2. NoneOf(<<>>, f) /\ StartOf(Chars(<<>>), CloseTag)
      BY <3>1, TagsAre DEF NoneOf, StartOf
    <3>3. SplitOf(FeedInside(<<>>, u)) \in Fragments!FeedInside(Frags(<<>>), f)
      BY <2>4, <2>6, <2>9, <3>1, <3>2, InsideCovered
    <3> QED BY <1>1, <1>2, <2>7, <3>3 DEF all
  <2> QED BY <2>8, <2>9
<1>6. CASE ~IsPrefix(OpenTag, Chars(t)) /\ IsPrefix(Chars(t), OpenTag)
  <2>1. SplitOf(FeedDetecting(h, s)) = split("detecting", buf, <<>>, <<>>)
    BY <1>2, <1>3, <1>6, SplitOfPushed
  <2> QED BY <1>1, <2>1 DEF all
<1>7. CASE ~IsPrefix(OpenTag, Chars(t)) /\ ~IsPrefix(Chars(t), OpenTag)
  <2>1. SplitOf(FeedDetecting(h, s)) = split("passthrough", <<>>, <<>>, buf)
    BY <1>2, <1>3, <1>7, SplitOfPushed
  <2> QED BY <1>1, <2>1 DEF all
<1> QED BY <1>5, <1>6, <1>7

\* feedAfterClose: what was held back is blank.
LEMMA AfterCloseCovered ==
    ASSUME NEW h \in Str, NEW s \in Str, NEW f, AllOf(s, f), TrimLeft(Chars(h)) = <<>>
    PROVE  SplitOf(FeedAfterClose(h, s)) \in Fragments!FeedAfterClose(f)
<1> DEFINE b == h \o s
           t == TrimPieces(b)
           w == TrimLeft(Chars(h))
<1>1. /\ t \in Str /\ Fresh(t, Len(s), f) /\ Len(t) <= Len(w) + Len(s)
      /\ Len(s) \in Nat /\ Len(w) = 0 /\ Len(t) \in Nat
  <2>1. t \in Str /\ Fresh(t, Len(s), f) /\ Len(t) <= Len(w) + Len(s)
    BY FreshTrimmed
  <2>2. Len(s) \in Nat /\ Len(w) = 0
    BY DEF Str
  <2> HIDE DEF t
  <2> QED BY <2>1, <2>2 DEF Str
<1>2. FeedAfterClose(h, s) = IF t = <<>> THEN Pushed("afterClose", b, <<>>, <<>>)
                             ELSE Pushed("passthrough", <<>>, <<>>, t)
  BY DEF FeedAfterClose
<1> HIDE DEF b, t, w
<1>3. AllOf(t, f)
  <2>1. Len(t) <= Len(s)
    BY <1>1
  <2> QED BY <1>1, <2>1, FreshIs
<1>4. /\ Fragments!Split("afterClose", <<>>, <<>>, <<>>) \in Fragments!FeedAfterClose(f)
      /\ Fragments!Split("passthrough", <<>>, <<>>, <<f>>) \in Fragments!FeedAfterClose(f)
  BY DEF Fragments!FeedAfterClose
<1>5. CASE t = <<>>
  <2>1. SplitOf(FeedAfterClose(h, s)) = Fragments!Split("afterClose", <<>>, <<>>, <<>>)
    BY <1>2, <1>5, FragsOf, SplitOfPushed
  <2> QED BY <1>4, <2>1
<1>6. CASE t # <<>>
  <2>1. Frags(t) = <<f>>
    BY <1>1, <1>3, <1>6, FragsOf
  <2>2. SplitOf(FeedAfterClose(h, s)) = Fragments!Split("passthrough", <<>>, <<>>, <<f>>)
    BY <1>2, <1>6, <2>1, FragsOf, SplitOfPushed
  <2> QED BY <1>4, <2>2
<1> QED BY <1>5, <1>6

\* What a splitter inside the thought holds back is the beginning of a closing tag.
LEMMA HeldInside ==
    ASSUME NEW x \in Word, PlainDetecting(x).state = "inside"
    PROVE  StartOf(PlainDetecting(x).buf, CloseTag)
<1> DEFINE t == TrimLeft(x)
           z == From(t, Len(OpenTag) + 1)
           o == OverlapSuffixLen(z, CloseTag)
           cut == Len(z) - o
           k == From(z, cut + 1)
<1>1. t \in Word /\ Len(t) \in Nat
  BY TrimLeftIs DEF Word
<1>2. IsPrefix(OpenTag, t) /\ PlainDetecting(x) = PlainInside(z)
  BY DEF PlainDetecting, Split
<1>3. Find(z, CloseTag) = 0
  BY <1>2 DEF PlainInside, Split
<1>4. PlainDetecting(x).buf = k
  BY <1>2, <1>3 DEF PlainInside, Split
<1>5. z \in Word /\ Len(z) \in Nat
  <2>1. Len(OpenTag) <= Len(t)
    BY <1>1, <1>2, TagsAre, PrefixIs
  <2>2. Len(OpenTag) + 1 \in 1..(Len(t) + 1)
    BY <1>1, <2>1, TagsAre
  <2>3. z \in Word
    BY <1>1, <2>2, FromIs DEF Word
  <2> QED BY <2>3 DEF Word
<1> HIDE DEF z
<1>6. o \in 0..(Len(CloseTag) - 1) /\ o <= Len(z) /\ EndsWith(z, CloseTag, o)
  BY <1>5, TagsAre, OverlapIs
<1> HIDE DEF o
<1>7. /\ cut + 1 \in 1..(Len(z) + 1) /\ Len(z) - (cut + 1) + 1 = o
      /\ o \in Nat /\ o < Len(CloseTag)
  BY <1>5, <1>6, TagsAre
<1>8. Len(k) = o /\ \A i \in 1..o : k[i] = z[(cut + 1) + i - 1]
  BY <1>5, <1>7, FromIs DEF Word
<1> HIDE DEF k
<1>9. ASSUME NEW i \in 1..o PROVE k[i] = CloseTag[i]
  <2>1. z[Len(z) - o + i] = CloseTag[i]
    BY <1>6 DEF EndsWith
  <2>2. (cut + 1) + i - 1 = Len(z) - o + i
    BY <1>5, <1>7
  <2> QED BY <1>8, <2>1, <2>2
<1>10. StartOf(k, CloseTag)
  BY <1>7, <1>8, <1>9 DEF StartOf
<1> QED BY <1>4, <1>10

\* Every push of a splitter is one StreamInput knows.
LEMMA PushCovered ==
    ASSUME NEW t, NEW reason, NEW content, NEW x \in Word, Follows(t, reason, content, x),
           NEW s \in Str, NEW f, NoneOf(t.buf, f), AllOf(s, f), s # <<>>
    PROVE  SplitOf(ThinkPush(t, s)) \in Fragments!ThinkPush(ThinkOf(t), f)
<1> DEFINE d == PlainDetecting(x)
           w == TrimLeft(x)
<1>1. /\ t.state \in {"detecting", "inside", "afterClose", "passthrough"} /\ t.buf \in Str
      /\ t.state = d.state
      /\ d.state = "afterClose" => TrimLeft(Chars(t.buf)) = <<>>
      /\ d.state # "afterClose" => Chars(t.buf) = d.buf
  BY DEF Follows, Splitter
<1>2. /\ ThinkOf(t).state = t.state
      /\ t.state \in {"detecting", "inside"} => ThinkOf(t).held = Frags(t.buf)
  BY DEF ThinkOf
<1>3. CASE t.state = "detecting"
  <2>1. d = Split("detecting", x, <<>>, <<>>) /\ IsPrefix(w, OpenTag) /\ ~IsPrefix(OpenTag, w)
    <3>1. ~IsPrefix(OpenTag, w)
      BY <1>1, <1>3 DEF PlainDetecting, PlainInside, Split
    <3>2. IsPrefix(w, OpenTag)
      BY <1>1, <1>3, <3>1 DEF PlainDetecting, Split
    <3> QED BY <3>1, <3>2 DEF PlainDetecting
  <2>2. Chars(t.buf) = x
    BY <1>1, <1>3, <2>1, SplitIs
  <2>3. SplitOf(FeedDetecting(t.buf, s)) \in Fragments!FeedDetecting(Frags(t.buf), f)
    BY <1>1, <2>1, <2>2, DetectingCovered
  <2>4. ThinkPush(t, s) = FeedDetecting(t.buf, s)
    BY <1>3 DEF ThinkPush
  <2>5. Fragments!ThinkPush(ThinkOf(t), f) = Fragments!FeedDetecting(Frags(t.buf), f)
    BY <1>2, <1>3 DEF Fragments!ThinkPush
  <2> QED BY <2>3, <2>4, <2>5
<1>4. CASE t.state = "inside"
  <2>1. StartOf(Chars(t.buf), CloseTag)
    BY <1>1, <1>4, HeldInside
  <2>2. SplitOf(FeedInside(t.buf, s)) \in Fragments!FeedInside(Frags(t.buf), f)
    BY <1>1, <2>1, InsideCovered
  <2>3. ThinkPush(t, s) = FeedInside(t.buf, s)
    BY <1>4 DEF ThinkPush
  <2>4. Fragments!ThinkPush(ThinkOf(t), f) = Fragments!FeedInside(Frags(t.buf), f)
    BY <1>2, <1>4 DEF Fragments!ThinkPush
  <2> QED BY <2>2, <2>3, <2>4
<1>5. CASE t.state = "afterClose"
  <2>1. SplitOf(FeedAfterClose(t.buf, s)) \in Fragments!FeedAfterClose(f)
    BY <1>1, <1>5, AfterCloseCovered
  <2>2. ThinkPush(t, s) = FeedAfterClose(t.buf, s)
    BY <1>5 DEF ThinkPush
  <2>3. Fragments!ThinkPush(ThinkOf(t), f) = Fragments!FeedAfterClose(f)
    BY <1>2, <1>5 DEF Fragments!ThinkPush
  <2> QED BY <2>1, <2>2, <2>3
<1>6. CASE t.state = "passthrough"
  <2>1. ThinkPush(t, s) = Pushed("passthrough", t.buf, <<>>, s)
    BY <1>6 DEF ThinkPush
  <2>2. SplitOf(ThinkPush(t, s)) = Fragments!Split("passthrough", <<>>, <<>>, <<f>>)
    BY <2>1, FragsOf, SplitOfPushed
  <2>3. Fragments!ThinkPush(ThinkOf(t), f) = {Fragments!Split("passthrough", <<>>, <<>>, <<f>>)}
    BY <1>2, <1>6 DEF Fragments!ThinkPush
  <2> QED BY <2>2, <2>3
<1> QED BY <1>1, <1>3, <1>4, <1>5, <1>6

----------------------------------------------------------------------------
(* The gate of StreamInput *)

\* A gate and what it does as StreamInput sees them.
GateOf(g) == [mode |-> g.mode, held |-> Frags(g.pending), done |-> g.done]

PassOf(p) == [gate |-> GateOf(p.filter), args |-> p.frags]

\* What StreamInput knows a gate may do.
LEMMA GateOutcomes ==
    ASSUME NEW g \in Gates, NEW f
    PROVE  LET held == Frags(g.pending)
               buf == Append(held, f)
               all == Fragments!GateFilter(GateOf(g), f)
               encoded == {Fragments!Pass("encoded", buf, FALSE, <<>>),
                           Fragments!Pass("encoded", <<>>, TRUE, buf)}
           IN
           /\ g.done => Fragments!Pass(g.mode, held, TRUE, <<>>) \in all
           /\ ~g.done /\ g.mode = "undecided" =>
                /\ Fragments!Pass("undecided", buf, FALSE, <<>>) \in all
                /\ \A done \in BOOLEAN : Fragments!Pass("plain", <<>>, done, buf) \in all
                /\ encoded \subseteq all
           /\ ~g.done /\ g.mode = "plain" =>
                \A done \in BOOLEAN : Fragments!Pass("plain", <<>>, done, <<f>>) \in all
           /\ ~g.done /\ g.mode = "encoded" => encoded \subseteq all
<1> DEFINE a == GateOf(g)
           all == Fragments!GateFilter(a, f)
           buf == Append(Frags(g.pending), f)
<1>1. a.mode = g.mode /\ a.held = Frags(g.pending) /\ a.done = g.done
  BY DEF GateOf
<1>2. g.done \in BOOLEAN
  BY GateTypes
<1> HIDE DEF a
<1>3. Fragments!FilterEncoded(buf) = {Fragments!Pass("encoded", buf, FALSE, <<>>),
                                      Fragments!Pass("encoded", <<>>, TRUE, buf)}
  BY DEF Fragments!FilterEncoded
<1>4. CASE g.done
  <2>1. all = {Fragments!Pass(g.mode, Frags(g.pending), TRUE, <<>>)}
    BY <1>1, <1>4 DEF Fragments!GateFilter
  <2> QED BY <1>4, <2>1 DEF a
<1>5. CASE ~g.done /\ g.mode = "undecided"
  <2>1. all = {Fragments!Pass("undecided", buf, FALSE, <<>>)}
                \cup {Fragments!Pass("plain", <<>>, done, buf) : done \in BOOLEAN}
                \cup Fragments!FilterEncoded(buf)
    BY <1>1, <1>5 DEF Fragments!GateFilter
  <2> QED BY <1>3, <1>5, <2>1 DEF a
<1>6. CASE ~g.done /\ g.mode = "plain"
  <2>1. all = {Fragments!Pass("plain", <<>>, done, <<f>>) : done \in BOOLEAN}
    BY <1>1, <1>6 DEF Fragments!GateFilter
  <2> QED BY <1>6, <2>1 DEF a
<1>7. CASE ~g.done /\ g.mode = "encoded"
  <2>1. all = Fragments!FilterEncoded(buf)
    BY <1>1, <1>7 DEF Fragments!GateFilter
  <2> QED BY <1>3, <1>7, <2>1 DEF a
<1>8. g.mode \in {"undecided", "plain", "encoded"}
  BY GateTypes
<1> QED BY <1>2, <1>4, <1>5, <1>6, <1>7, <1>8

\* Blanks leave a new gate as it is.
LEMMA BlanksScanned ==
    ASSUME NEW x \in Word, TrimLeft(x) = <<>>, NEW j \in 0..Len(x)
    PROVE  Scanning(PlainGate, x)[j] = PlainGate
<1> DEFINE f == Scanning(PlainGate, x)
           S == {k \in Nat : k <= Len(x) => f[k] = PlainGate}
<1>1. Len(x) \in Nat /\ Len(<<>>) = 0
  BY DEF Word
<1>2. \A i \in 1..Len(x) : x[i] = Blank
  <2>1. Blanks(x) = Len(x)
    BY <1>1, TrimLeftIs
  <2>2. \A i \in 1..Blanks(x) : x[i] = Blank
    BY BlanksIs DEF Word
  <2> QED BY <2>1, <2>2
<1>3. Scan(PlainGate, Blank) = PlainGate
  <2>1. PlainGate.inString = FALSE /\ PlainGate.escaped = FALSE
    BY DEF PlainGate, Gate, NewGate
  <2>2. Blank # Quote /\ Blank \notin Opening /\ Blank \notin Closing
    BY Characters
  <2> QED BY <2>1, <2>2 DEF Scan
<1>4. f[0] = PlainGate /\ \A k \in 1..Len(x) : f[k] = IF f[k - 1].done THEN f[k - 1]
                                                      ELSE Scan(f[k - 1], x[k])
  BY <1>1, ScanningIs
<1> HIDE DEF f
<1>5. 0 \in S
  BY <1>4
<1>6. ASSUME NEW k \in Nat, k \in S PROVE k + 1 \in S
  <2> SUFFICES ASSUME k + 1 <= Len(x) PROVE f[k + 1] = PlainGate
    OBVIOUS
  <2>1. k + 1 \in 1..Len(x) /\ k + 1 - 1 = k /\ f[k] = PlainGate
    BY <1>1, <1>6
  <2>2. f[k + 1] = IF f[k].done THEN f[k] ELSE Scan(f[k], x[k + 1])
    BY <1>4, <2>1
  <2> QED BY <1>2, <1>3, <2>1, <2>2
<1> HIDE DEF S
<1>7. j \in S
  BY <1>5, <1>6, Induction
<1> QED BY <1>1, <1>7 DEF S, f

\* filterPlain: a value that has not ended in what was held back goes on in the piece.
LEMMA PlainCovered ==
    ASSUME NEW g \in Gates, NEW h \in Str, NEW s \in Str, NEW f, NoneOf(h, f), AllOf(s, f),
           s # <<>>,
           \A i \in 0..Len(h) : ~Scanning(Gate(g, "plain", g.done, <<>>), Chars(h))[i].done
    PROVE  \E done \in BOOLEAN :
             PassOf(FilterPlain(g, h \o s)) =
               Fragments!Pass("plain", <<>>, done, Append(Frags(h), f))
<1> DEFINE b == h \o s
           x == Chars(b)
           k == Gate(g, "plain", g.done, <<>>)
           value == IF Ends(k, x) = {} THEN b ELSE SubSeq(b, 1, Min(Ends(k, x)))
           last == Scanning(k, x)[Len(x)]
           p == FilterPlain(g, b)
<1>1. /\ b \in Str /\ Len(b) \in Nat /\ x \in Word /\ Len(x) = Len(b)
      /\ Chars(h) \in Word /\ Len(Chars(h)) = Len(h) /\ Len(h) \in Nat /\ Chars(s) \in Word
      /\ x = Chars(h) \o Chars(s)
  <2>1. b \in Str /\ x = Chars(h) \o Chars(s)
    BY StrJoined, CharsConcat
  <2>2. Len(b) \in Nat /\ Len(h) \in Nat
    BY <2>1 DEF Str
  <2> HIDE DEF b
  <2>3. x \in Word /\ Len(x) = Len(b) /\ Chars(h) \in Word /\ Len(Chars(h)) = Len(h)
    BY <2>1, CharsIs
  <2>4. Chars(s) \in Word
    BY CharsIs
  <2> QED BY <2>1, <2>2, <2>3, <2>4
<1>2. k = [g EXCEPT !.mode = "plain", !.pending = <<>>]
  BY NoCharacters, GateChanges
<1>3. k \in Gates /\ k.mode = "plain" /\ k.pending = <<>>
  BY NoCharacters, GateTypes, GateChanges DEF Gate
<1>4. Frags(b) = Append(Frags(h), f) /\ Frags(<<>>) = <<>>
  BY FragsAdded, FragsOf
<1>5. \A i \in 0..Len(h) : ~Scanning(k, x)[i].done
  <2> HIDE DEF k, x
  <2> QED BY <1>1, ScanningGrown DEF k
<1>6. ASSUME NEW c \in 0..Len(b), c > Len(h) PROVE Frags(SubSeq(b, 1, c)) = Append(Frags(h), f)
  BY <1>6, Sides
<1> HIDE DEF k, b
<1>7. p = Passed(last, Chars(value), Frags(value))
  BY <1>1, <1>2 DEF FilterPlain, Ends
<1> HIDE DEF x
<1>8. Frags(value) = Append(Frags(h), f)
  <2>1. CASE Ends(k, x) = {}
    BY <1>4, <2>1
  <2>2. CASE Ends(k, x) # {}
    <3> DEFINE m == Min(Ends(k, x))
    <3>1. Ends(k, x) \in SUBSET Nat
      BY <1>1 DEF Ends
    <3>2. m \in Ends(k, x)
      BY <2>2, <3>1, MinIs
    <3>3. m \in 0..Len(b) /\ Scanning(k, x)[m].done
      BY <1>1, <3>2 DEF Ends
    <3> HIDE DEF m
    <3>4. m > Len(h)
      BY <1>1, <1>5, <3>3
    <3>5. Frags(SubSeq(b, 1, m)) = Append(Frags(h), f)
      BY <1>6, <3>3, <3>4
    <3>6. value = SubSeq(b, 1, m)
      BY <2>2 DEF m
    <3> QED BY <3>5, <3>6
  <2> QED BY <2>1, <2>2
<1>9. last.mode = "plain" /\ last.pending = <<>> /\ last.done \in BOOLEAN
  <2>1. Len(x) \in 0..Len(x)
    BY <1>1
  <2>2. last \in Gates /\ last.mode = k.mode /\ last.pending = k.pending
    BY <1>1, <1>3, <2>1, ScanningTypes
  <2> QED BY <1>3, <2>2, GateTypes
<1> HIDE DEF last, value
<1>10. PassOf(p) = Fragments!Pass("plain", <<>>, last.done, Append(Frags(h), f))
  <2>1. p.filter = last /\ p.frags = Append(Frags(h), f)
    BY <1>7, <1>8 DEF Passed
  <2> HIDE DEF p
  <2> QED BY <1>4, <1>9, <2>1 DEF PassOf, GateOf, Fragments!Pass
<1> QED BY <1>9, <1>10 DEF b

\* filterEncodedString: the literal is complete or it is held back.
LEMMA EncodedCovered ==
    ASSUME NEW g \in Gates, ~g.done, NEW b \in Str
    PROVE  \/ PassOf(FilterEncodedString(g, b)) =
                Fragments!Pass("encoded", Frags(b), FALSE, <<>>)
           \/ PassOf(FilterEncodedString(g, b)) =
                Fragments!Pass("encoded", <<>>, TRUE, Frags(b))
<1> DEFINE p == FilterEncodedString(g, b)
<1>1. g.done = FALSE /\ <<>> \in Str /\ Frags(<<>>) = <<>>
  BY GateTypes, NoCharacters, FragsOf
<1>2. CASE DecodeString(Chars(b)) = {}
  <2> DEFINE q == Gate(g, "encoded", FALSE, b)
  <2>1. /\ p.filter = [g EXCEPT !.mode = "encoded", !.pending = b]
        /\ p.frags = <<>>
    BY <1>2 DEF FilterEncodedString, Passed
  <2>2. p.filter = q
    BY ZenonT(60), <1>1, <2>1, GateChanges
  <2>3. q.mode = "encoded" /\ q.done = FALSE /\ q.pending = b
    BY DEF Gate
  <2> HIDE DEF p, q
  <2>4. PassOf(p) = Fragments!Pass("encoded", Frags(b), FALSE, <<>>)
    BY <2>1, <2>2, <2>3 DEF PassOf, GateOf, Fragments!Pass
  <2> QED BY <2>4 DEF p
<1>3. CASE DecodeString(Chars(b)) # {}
  <2> DEFINE q == Gate(g, "encoded", TRUE, <<>>)
  <2>1. /\ p.filter = [g EXCEPT !.mode = "encoded", !.pending = <<>>, !.done = TRUE]
        /\ p.frags = Frags(b)
    BY <1>3 DEF FilterEncodedString, Passed
  <2>2. p.filter = q
    BY <1>1, <2>1, GateChanges
  <2>3. q.mode = "encoded" /\ q.done = TRUE /\ q.pending = <<>>
    BY DEF Gate
  <2> HIDE DEF p, q
  <2>4. PassOf(p) = Fragments!Pass("encoded", <<>>, TRUE, Frags(b))
    BY <1>1, <2>1, <2>2, <2>3 DEF PassOf, GateOf, Fragments!Pass
  <2> QED BY <2>4 DEF p
<1> QED BY <1>2, <1>3

\* What a gate that is not done holds back.
LEMMA HeldByGate ==
    ASSUME NEW g, NEW args, NEW x \in Word, GateFollows(g, args, x), ~g.done
    PROVE  /\ g \in Gates /\ g.pending \in Str
           /\ g.mode = "plain" => g.pending = <<>> /\ Gate(g, "plain", g.done, <<>>) = g
           /\ g.mode = "undecided" => /\ TrimLeft(Chars(g.pending)) = <<>>
                                      /\ Gate(g, "plain", g.done, <<>>) = PlainGate
<1> DEFINE t == TrimLeft(x)
           h == PlainFilter(x).filter
<1>1. g \in Gates /\ g.pending \in Str /\ g.done = FALSE
  BY GateTypes DEF GateFollows
<1>2. Bare(g) = h
  BY DEF GateFollows, Let
<1>3. h.mode = g.mode /\ h.pending = Chars(g.pending)
  BY <1>1, <1>2, GateFields
<1>4. CASE t = <<>>
  <2>1. Bare(g) = Gate(NewGate, "undecided", FALSE, x)
    BY <1>2, <1>4 DEF PlainFilter, Let
  <2>2. g.mode = "undecided" /\ Chars(g.pending) = x
    <3> DEFINE k == Gate(NewGate, "undecided", FALSE, x)
    <3>1. k.mode = "undecided" /\ k.pending = x
      BY DEF Gate
    <3> HIDE DEF k
    <3> QED BY <1>2, <1>3, <2>1, <3>1 DEF k
  <2>3. \A m, d, q : Gate(g, m, d, q) = Gate(NewGate, m, d, q)
    BY <1>1, <2>1, EncodedAnew
  <2> QED BY <1>1, <1>4, <2>2, <2>3 DEF PlainGate
<1>5. CASE t # <<>> /\ t[1] = Quote
  <2>1. h = PlainEncoded(NewGate, x).filter
    BY <1>5 DEF PlainFilter
  <2>2. h.mode = "encoded"
    BY <2>1 DEF PlainEncoded, Let, Gate
  <2> QED BY <1>1, <1>3, <2>2
<1>6. CASE t # <<>> /\ t[1] # Quote
  <2>1. h = Scanning(PlainGate, x)[Len(x)]
    BY <1>6 DEF PlainFilter, PlainValue, Let
  <2>2. h.mode = "plain" /\ h.pending = <<>>
    <3>1. Len(x) \in 0..Len(x)
      BY DEF Word
    <3> QED BY <2>1, <3>1, ScanningTypes, GatesAre
  <2>3. g.pending = <<>>
    <3>1. Chars(g.pending) = <<>>
      BY <1>3, <2>2
    <3>2. Len(g.pending) = Len(Chars(g.pending))
      BY <1>1, CharsIs
    <3> QED BY <1>1, <3>1, <3>2, EmptySeq DEF Str
  <2>4. g.mode = "plain" /\ Gate(g, "plain", g.done, <<>>) = g
    BY <1>1, <1>3, <2>2, <2>3, GateTypes
  <2> QED BY <1>1, <2>3, <2>4
<1> QED BY <1>4, <1>5, <1>6

\* Every push of a gate is one StreamInput knows.
LEMMA GateCovered ==
    ASSUME NEW g, NEW args, NEW x \in Word, GateFollows(g, args, x),
           NEW s \in Str, NEW f, NoneOf(g.pending, f), AllOf(s, f), s # <<>>
    PROVE  PassOf(GateFilter(g, s)) \in Fragments!GateFilter(GateOf(g), f)
<1> DEFINE h == g.pending
           b == h \o s
           buf == Append(Frags(h), f)
           t == TrimLeft(Chars(b))
           p == GateFilter(g, s)
           all == Fragments!GateFilter(GateOf(g), f)
           pass(m, q, d, a) == Fragments!Pass(m, q, d, a)
<1>1. /\ g \in Gates /\ h \in Str /\ g.mode \in {"undecided", "plain", "encoded"}
  BY GateTypes DEF GateFollows
<1>2. b \in Str /\ Frags(b) = buf /\ Frags(<<>>) = <<>>
  BY <1>1, StrJoined, FragsAdded, FragsOf
<1>3. p = CASE g.done -> Passed(g, <<>>, <<>>)
            [] ~g.done /\ g.mode = "plain" -> FilterPlain(g, s)
            [] ~g.done /\ g.mode = "encoded" -> FilterEncodedString(g, b)
            [] ~g.done /\ g.mode = "undecided" ->
                 IF t = <<>> THEN Passed([g EXCEPT !.pending = b], <<>>, <<>>)
                 ELSE IF t[1] = Quote THEN FilterEncodedString(g, b)
                 ELSE FilterPlain(g, b)
  BY DEF GateFilter
<1>4. /\ g.done => pass(g.mode, Frags(h), TRUE, <<>>) \in all
      /\ ~g.done /\ g.mode = "undecided" =>
           /\ pass("undecided", buf, FALSE, <<>>) \in all
           /\ \A done \in BOOLEAN : pass("plain", <<>>, done, buf) \in all
           /\ pass("encoded", buf, FALSE, <<>>) \in all
           /\ pass("encoded", <<>>, TRUE, buf) \in all
      /\ ~g.done /\ g.mode = "plain" =>
           \A done \in BOOLEAN : pass("plain", <<>>, done, <<f>>) \in all
      /\ ~g.done /\ g.mode = "encoded" =>
           /\ pass("encoded", buf, FALSE, <<>>) \in all
           /\ pass("encoded", <<>>, TRUE, buf) \in all
  BY <1>1, GateOutcomes
<1> HIDE DEF p, all, t, b
<1>5. CASE g.done
  <2>1. p.filter = g /\ p.frags = <<>>
    BY <1>3, <1>5 DEF Passed
  <2>2. g.done = TRUE
    BY <1>1, <1>5, GateTypes
  <2>3. PassOf(p) = pass(g.mode, Frags(h), TRUE, <<>>)
    BY <2>1, <2>2 DEF PassOf, GateOf, Fragments!Pass
  <2> QED BY <1>4, <1>5, <2>3 DEF p, all
<1>6. CASE ~g.done /\ g.mode = "plain"
  <2>1. h = <<>> /\ Gate(g, "plain", g.done, <<>>) = g
    BY <1>6, HeldByGate
  <2>2. <<>> \in Str /\ NoneOf(<<>>, f) /\ <<>> \o s = s /\ Append(<<>>, f) = <<f>>
    BY <1>1, <2>1, ConcatEmptySeq DEF Str
  <2>3. \A i \in 0..Len(<<>>) : ~Scanning(g, Chars(<<>>))[i].done
    <3>1. Chars(<<>>) = <<>> /\ Len(<<>>) = 0 /\ Len(<<>>) \in Nat
      BY NoCharacters
    <3>2. Scanning(g, <<>>)[0] = g
      BY <3>1, ScanningIs
    <3> QED BY <1>6, <3>1, <3>2
  <2>4. PICK done \in BOOLEAN :
          PassOf(FilterPlain(g, <<>> \o s)) = pass("plain", <<>>, done, Append(Frags(<<>>), f))
    BY ZenonT(60), <1>1, <2>1, <2>2, <2>3, PlainCovered
  <2>5. PassOf(p) = pass("plain", <<>>, done, <<f>>)
    BY <1>2, <1>3, <1>6, <2>2, <2>4
  <2> QED BY <1>4, <1>6, <2>5 DEF p, all
<1>7. CASE ~g.done /\ g.mode = "encoded"
  <2>1. p = FilterEncodedString(g, b)
    BY <1>3, <1>7
  <2>2. PassOf(p) = pass("encoded", buf, FALSE, <<>>) \/ PassOf(p) = pass("encoded", <<>>, TRUE, buf)
    BY <1>1, <1>2, <1>7, <2>1, EncodedCovered
  <2> QED BY <1>4, <1>7, <2>2 DEF p, all
<1>8. CASE ~g.done /\ g.mode = "undecided"
  <2>1. TrimLeft(Chars(h)) = <<>> /\ Gate(g, "plain", g.done, <<>>) = PlainGate
    BY <1>8, HeldByGate
  <2>2. CASE t = <<>>
    <3> DEFINE q == Gate(g, "undecided", FALSE, b)
    <3>1. g.done = FALSE
      BY <1>1, <1>8, GateTypes
    <3>2. p.filter = [g EXCEPT !.pending = b] /\ p.frags = <<>>
      BY <1>3, <1>8, <2>2 DEF Passed
    <3>3. p.filter = q
      BY <1>1, <1>2, <1>8, <3>1, <3>2, GateChanges
    <3>4. q.mode = "undecided" /\ q.done = FALSE /\ q.pending = b
      BY DEF Gate
    <3> HIDE DEF q
    <3>5. PassOf(p) = pass("undecided", buf, FALSE, <<>>)
      BY <1>2, <3>2, <3>3, <3>4 DEF PassOf, GateOf, Fragments!Pass
    <3> QED BY <1>4, <1>8, <3>5 DEF p, all
  <2>3. CASE t # <<>> /\ t[1] = Quote
    <3>1. p = FilterEncodedString(g, b)
      BY <1>3, <1>8, <2>3
    <3>2. PassOf(p) = pass("encoded", buf, FALSE, <<>>) \/ PassOf(p) = pass("encoded", <<>>, TRUE, buf)
      BY <1>1, <1>2, <1>8, <3>1, EncodedCovered
    <3> QED BY <1>4, <1>8, <3>2 DEF p, all
  <2>4. CASE t # <<>> /\ t[1] # Quote
    <3>1. p = FilterPlain(g, h \o s)
      BY <1>3, <1>8, <2>4 DEF b
    <3>2. \A i \in 0..Len(h) : ~Scanning(PlainGate, Chars(h))[i].done
      <4>1. Chars(h) \in Word /\ Len(Chars(h)) = Len(h)
        BY <1>1, CharsIs
      <4> HIDE DEF h
      <4>2. \A i \in 0..Len(h) : Scanning(PlainGate, Chars(h))[i] = PlainGate
        BY <2>1, <4>1, BlanksScanned
      <4> QED BY <4>2, GatesAre
    <3>3. PICK done \in BOOLEAN : PassOf(FilterPlain(g, h \o s)) = pass("plain", <<>>, done, buf)
      BY <1>1, <2>1, <3>2, PlainCovered
    <3>4. PassOf(p) = pass("plain", <<>>, done, buf)
      BY <3>1, <3>3
    <3> QED BY <1>4, <1>8, <3>4 DEF p, all
  <2> QED BY <2>2, <2>3, <2>4
<1> QED BY <1>1, <1>5, <1>6, <1>7, <1>8

----------------------------------------------------------------------------
(* Pieces that have come *)

\* All characters of a text came in the first m pieces.
Until(s, m) == \A k \in 1..Len(s) : s[k].frag <= m

LEMMA UntilIs ==
    ASSUME NEW s \in Str, NEW m \in Nat, Until(s, m)
    PROVE  /\ Until(s, m + 1) /\ NoneOf(s, m + 1) /\ Until(<<>>, m)
           /\ \A k \in 1..(Len(s) + 1) : From(s, k) \in Str /\ Until(From(s, k), m)
           /\ \A t \in Str : Until(t, m) => Until(s \o t, m)
<1>1. Len(s) \in Nat /\ \A k \in 1..Len(s) : s[k].frag \in Int /\ s[k].frag <= m
  <2>1. ASSUME NEW k \in 1..Len(s) PROVE s[k].frag \in Int
    <3>1. s[k] \in Marked
      BY ElementOfSeq DEF Str
    <3> QED BY <3>1, TextAssumption DEF Marked
  <2> QED BY <2>1 DEF Str, Until
<1>2. Until(s, m + 1) /\ NoneOf(s, m + 1)
  BY <1>1 DEF Until, NoneOf
<1>3. Until(<<>>, m)
  BY DEF Until
<1>4. ASSUME NEW k \in 1..(Len(s) + 1) PROVE From(s, k) \in Str /\ Until(From(s, k), m)
  <2> DEFINE u == From(s, k)
  <2>1. /\ u \in Str /\ Len(u) = Len(s) - k + 1
        /\ \A i \in 1..(Len(s) - k + 1) : u[i] = s[k + i - 1]
    BY FromIs DEF Str
  <2> HIDE DEF u
  <2>2. ASSUME NEW i \in 1..Len(u) PROVE u[i].frag <= m
    <3>1. i \in 1..(Len(s) - k + 1) /\ k + i - 1 \in 1..Len(s)
      BY <1>1, <2>1
    <3> QED BY <1>1, <2>1, <3>1
  <2>3. Until(u, m)
    BY <2>2 DEF Until
  <2> QED BY <2>1, <2>3 DEF u
<1>5. ASSUME NEW t \in Str, Until(t, m) PROVE Until(s \o t, m)
  <2> DEFINE u == s \o t
  <2>1. /\ Len(t) \in Nat /\ Len(u) = Len(s) + Len(t)
        /\ \A i \in 1..(Len(s) + Len(t)) : u[i] = IF i <= Len(s) THEN s[i] ELSE t[i - Len(s)]
    BY ConcatProperties DEF Str
  <2> HIDE DEF u
  <2>2. ASSUME NEW i \in 1..Len(u) PROVE u[i].frag <= m
    <3>1. CASE i <= Len(s)
      <4>1. i \in 1..Len(s) /\ u[i] = s[i]
        BY <1>1, <2>1, <3>1
      <4> QED BY <1>1, <4>1
    <3>2. CASE ~(i <= Len(s))
      <4>1. i - Len(s) \in 1..Len(t) /\ u[i] = t[i - Len(s)]
        BY <1>1, <2>1, <3>2
      <4> QED BY <1>5, <4>1 DEF Until
    <3> QED BY <3>1, <3>2
  <2>3. Until(u, m)
    BY <2>2 DEF Until
  <2> QED BY <2>3 DEF u
<1> QED BY <1>2, <1>3, <1>4, <1>5

\* What the filters hold back is of what they held before and of the piece.
LEMMA InsideKeeps ==
    ASSUME NEW h \in Str, NEW s \in Str, NEW m \in Nat, Until(h, m), Until(s, m)
    PROVE  Until(FeedInside(h, s).filter.buf, m)
<1> DEFINE b == h \o s
           x == Chars(b)
           i == Find(x, CloseTag)
           cut == Len(b) - OverlapSuffixLen(x, CloseTag)
           p == FeedInside(h, s)
<1>1. b \in Str /\ Until(b, m) /\ Until(<<>>, m)
  BY StrJoined, UntilIs
<1>2. p.filter.buf = IF i = 0 THEN From(b, cut + 1) ELSE <<>>
  BY DEF FeedInside, Pushed
<1> HIDE DEF b, p
<1>3. x \in Word /\ Len(x) = Len(b) /\ Len(b) \in Nat
  BY <1>1, CharsIs DEF Str
<1>4. cut + 1 \in 1..(Len(b) + 1)
  <2>1. OverlapSuffixLen(x, CloseTag) \in 0..(Len(CloseTag) - 1) /\ OverlapSuffixLen(x, CloseTag) <= Len(x)
    BY <1>3, TagsAre, OverlapIs
  <2> QED BY <1>3, <2>1, TagsAre
<1> HIDE DEF cut, i, x
<1>5. Until(From(b, cut + 1), m)
  BY <1>1, <1>4, UntilIs
<1> QED BY <1>1, <1>2, <1>5 DEF p

LEMMA ThinkKeeps ==
    ASSUME NEW t \in Splitter, NEW s \in Str, NEW m \in Nat, Until(t.buf, m), Until(s, m)
    PROVE  Until(ThinkPush(t, s).filter.buf, m)
<1> DEFINE h == t.buf
           b == h \o s
           r == TrimPieces(b)
           u == From(r, Len(OpenTag) + 1)
<1>1. t.state \in {"detecting", "inside", "afterClose", "passthrough"} /\ h \in Str
  BY DEF Splitter
<1>2. b \in Str /\ Until(b, m) /\ Until(<<>>, m) /\ <<>> \in Str
  BY <1>1, StrJoined, UntilIs, NoCharacters
<1>3. r \in Str /\ Until(r, m) /\ Chars(r) = TrimLeft(Chars(b))
  <2> HIDE DEF b
  <2>1. Blanks(Chars(b)) \in 0..Len(b)
    <3>1. Chars(b) \in Word /\ Len(Chars(b)) = Len(b)
      BY <1>2, CharsIs
    <3> QED BY <3>1, TrimLeftIs
  <2>2. Blanks(Chars(b)) + 1 \in 1..(Len(b) + 1)
    BY <1>2, <2>1 DEF Str
  <2>3. Until(From(b, Blanks(Chars(b)) + 1), m)
    BY <1>2, <2>2, UntilIs
  <2>4. r \in Str /\ Chars(r) = TrimLeft(Chars(b))
    BY <1>2, TrimPiecesIs
  <2> QED BY <2>3, <2>4 DEF TrimPieces
<1>4. CASE t.state = "detecting"
  <2>1. ThinkPush(t, s) = IF IsPrefix(OpenTag, Chars(r)) THEN FeedInside(<<>>, u)
                          ELSE IF IsPrefix(Chars(r), OpenTag)
                          THEN Pushed("detecting", b, <<>>, <<>>)
                          ELSE Pushed("passthrough", <<>>, <<>>, b)
    BY <1>4 DEF ThinkPush, FeedDetecting
  <2> HIDE DEF b, r
  <2>2. CASE IsPrefix(OpenTag, Chars(r))
    <3>1. Chars(r) \in Word /\ Len(Chars(r)) = Len(r) /\ Len(r) \in Nat
      BY <1>3, CharsIs DEF Str
    <3>2. Len(OpenTag) <= Len(r)
      BY <2>2, <3>1, TagsAre, PrefixIs
    <3>3. Len(OpenTag) + 1 \in 1..(Len(r) + 1)
      BY <3>1, <3>2, TagsAre
    <3>4. u \in Str /\ Until(u, m)
      BY <1>3, <3>3, UntilIs
    <3> HIDE DEF u
    <3>5. Until(FeedInside(<<>>, u).filter.buf, m)
      BY <1>2, <3>4, InsideKeeps
    <3> QED BY <2>1, <2>2, <3>5
  <2>3. CASE ~IsPrefix(OpenTag, Chars(r))
    <3>1. ThinkPush(t, s).filter.buf \in {b, <<>>}
      BY <2>1, <2>3 DEF Pushed
    <3> QED BY <1>2, <3>1
  <2> QED BY <2>2, <2>3
<1>5. CASE t.state = "inside"
  <2>1. ThinkPush(t, s) = FeedInside(h, s)
    BY <1>5 DEF ThinkPush
  <2> QED BY <1>1, <2>1, InsideKeeps
<1>6. CASE t.state = "afterClose"
  <2>1. ThinkPush(t, s).filter.buf \in {b, <<>>}
    BY <1>6 DEF ThinkPush, FeedAfterClose, Pushed
  <2> QED BY <1>2, <2>1
<1>7. CASE t.state = "passthrough"
  <2>1. ThinkPush(t, s).filter.buf = h
    BY <1>7 DEF ThinkPush, Pushed
  <2> QED BY <2>1
<1> QED BY <1>1, <1>4, <1>5, <1>6, <1>7

LEMMA GateKeeps ==
    ASSUME NEW g \in Gates, NEW s \in Str, NEW m \in Nat, Until(g.pending, m), Until(s, m)
    PROVE  Until(GateFilter(g, s).filter.pending, m)
<1> DEFINE b == g.pending \o s
           t == TrimLeft(Chars(b))
           p == GateFilter(g, s)
           Keeps(q) == Until(q.filter.pending, m)
<1>1. g.mode \in {"undecided", "plain", "encoded"} /\ g.pending \in Str
  BY GateTypes
<1>2. b \in Str /\ Until(b, m) /\ Until(<<>>, m)
  BY <1>1, StrJoined, UntilIs
<1>3. p = CASE g.done -> Passed(g, <<>>, <<>>)
            [] ~g.done /\ g.mode = "plain" -> FilterPlain(g, s)
            [] ~g.done /\ g.mode = "encoded" -> FilterEncodedString(g, b)
            [] ~g.done /\ g.mode = "undecided" ->
                 IF t = <<>> THEN Passed([g EXCEPT !.pending = b], <<>>, <<>>)
                 ELSE IF t[1] = Quote THEN FilterEncodedString(g, b)
                 ELSE FilterPlain(g, b)
  BY DEF GateFilter
<1> HIDE DEF b, t, p
<1>4. Keeps(Passed(g, <<>>, <<>>))
  BY DEF Passed
<1>5. Keeps(Passed([g EXCEPT !.pending = b], <<>>, <<>>))
  <2>1. [g EXCEPT !.pending = b] = Gate(g, g.mode, g.done, b)
    BY <1>2, GateChanges
  <2> QED BY SMTT(40), <1>2, <2>1 DEF Passed, Gate
<1>6. Keeps(FilterPlain(g, s)) /\ Keeps(FilterPlain(g, b))
  <2>1. FilterPlain(g, s).filter.pending = <<>> /\ FilterPlain(g, b).filter.pending = <<>>
    BY <1>2, FilterPlainIs
  <2> QED BY <1>2, <2>1
<1>7. Keeps(FilterEncodedString(g, b))
  <2> DEFINE q == FilterEncodedString(g, b)
  <2>1. <<>> \in Str
    BY NoCharacters
  <2>2. \/ q.filter = [g EXCEPT !.mode = "encoded", !.pending = b]
        \/ q.filter = [g EXCEPT !.mode = "encoded", !.pending = <<>>, !.done = TRUE]
    BY SMTT(40) DEF FilterEncodedString, Passed
  <2> HIDE DEF q
  <2>3. q.filter = Gate(g, "encoded", g.done, b) \/ q.filter = Gate(g, "encoded", TRUE, <<>>)
    BY <1>2, <2>1, <2>2, GateChanges
  <2>4. q.filter.pending = b \/ q.filter.pending = <<>>
    BY <2>3 DEF Gate
  <2> QED BY <1>2, <2>4 DEF q
<1> HIDE DEF Keeps
<1>8. Keeps(p)
  BY <1>1, <1>3, <1>4, <1>5, <1>6, <1>7
<1> QED BY <1>8 DEF Keeps, p

\* What is held back came in the pieces that were fed.
Dated == Until(IF kind = "think" THEN filter.buf ELSE filter.pending, n)

\* The next piece.
LEMMA PieceIs ==
    ASSUME Inductive, NEW k \in (pos + 1)..Len(text), Push(k)
    PROVE  LET piece == Mark(SubSeq(text, pos + 1, k), n + 1) IN
           /\ piece \in Str /\ piece # <<>>
           /\ AllOf(piece, n + 1) /\ Until(piece, n + 1)
           /\ n + 1 \in 1..MaxPieces /\ n \in Nat
<1> DEFINE s == SubSeq(text, pos + 1, k)
           piece == Mark(s, n + 1)
<1>1. /\ text \in Word /\ Len(text) \in Nat /\ pos \in 0..Len(text) /\ n \in 0..MaxPieces
      /\ MaxPieces \in Nat /\ n < MaxPieces
  BY TextAssumption DEF Inductive, Word, Push
<1>2. n + 1 \in 1..MaxPieces /\ n \in Nat
  BY <1>1
<1>3. s \in Word /\ Len(s) = k - (pos + 1) + 1 /\ Len(s) # 0 /\ Len(s) \in Nat
  <2>1. /\ pos + 1 \in Int /\ k \in Int /\ \A i \in (pos + 1)..k : text[i] \in Char
    BY <1>1, ElementOfSeq DEF Word
  <2>2. /\ s \in Seq(Char)
        /\ Len(s) = IF pos + 1 <= k THEN k - (pos + 1) + 1 ELSE 0
    BY <2>1, SubSeqProperties
  <2> HIDE DEF s
  <2> QED BY <1>1, <2>2 DEF Word
<1> HIDE DEF s
<1>4. piece \in Str /\ Len(piece) = Len(s)
  BY <1>2, <1>3, MarkIs
<1>5. ASSUME NEW i \in 1..Len(piece) PROVE piece[i].frag = n + 1
  <2>1. i \in DOMAIN s
    BY <1>3, <1>4 DEF Word
  <2> QED BY <2>1 DEF Mark
<1> HIDE DEF piece
<1>6. piece # <<>>
  <2>1. Len(<<>>) = 0
    OBVIOUS
  <2> QED BY <1>3, <1>4, <2>1
<1>7. AllOf(piece, n + 1) /\ Until(piece, n + 1)
  BY <1>2, <1>5 DEF AllOf, Until
<1> QED BY <1>2, <1>4, <1>6, <1>7 DEF piece, s

LEMMA DatedAlways == Spec => [](Inductive /\ Dated)
<1>1. Init => Dated
  <2> SUFFICES ASSUME Init PROVE Dated
    OBVIOUS
  <2>1. /\ kind = "think" => filter.buf = <<>>
        /\ kind # "think" => filter.pending = <<>>
    BY DEF Init, NewThink, NewGate
  <2>2. Len(<<>>) = 0
    OBVIOUS
  <2>3. Until(<<>>, n)
    BY <2>2 DEF Until
  <2> QED BY <2>1, <2>3 DEF Dated
<1>2. Inductive /\ Inductive' /\ Dated /\ [Next]_vars => Dated'
  <2> SUFFICES ASSUME Inductive, Inductive', Dated, [Next]_vars PROVE Dated'
    OBVIOUS
  <2>1. ASSUME NEW k \in (pos + 1)..Len(text), Push(k) PROVE Dated'
    <3> DEFINE piece == Mark(SubSeq(text, pos + 1, k), n + 1)
    <3>1. piece \in Str /\ Until(piece, n + 1) /\ n \in Nat /\ n + 1 \in Nat
      BY <2>1, PieceIs
    <3>2. n' = n + 1 /\ kind' = kind /\ (PushContent(piece) \/ PushArguments(piece))
      BY <2>1 DEF Push
    <3> HIDE DEF piece
    <3>3. CASE PushContent(piece)
      <4>1. kind = "think" /\ filter' = ThinkPush(filter, piece).filter
        BY <3>3 DEF PushContent
      <4>2. filter \in Splitter /\ filter.buf \in Str
        BY <4>1 DEF Inductive, FilterFollows, Follows, Splitter
      <4>3. Until(filter.buf, n + 1)
        <5>1. Until(filter.buf, n)
          BY <4>1 DEF Dated
        <5> QED BY <3>1, <4>2, <5>1, UntilIs
      <4>4. Until(ThinkPush(filter, piece).filter.buf, n + 1)
        BY <3>1, <4>2, <4>3, ThinkKeeps
      <4> QED BY <3>2, <4>1, <4>4 DEF Dated
    <3>4. CASE PushArguments(piece)
      <4>1. kind # "think" /\ filter' = GateFilter(filter, piece).filter
        BY <3>4 DEF PushArguments
      <4>2. filter \in Gates /\ filter.pending \in Str
        BY <4>1, GateTypes DEF Inductive, FilterFollows, GateFollows
      <4>3. Until(filter.pending, n + 1)
        <5>1. Until(filter.pending, n)
          BY <4>1 DEF Dated
        <5> QED BY <3>1, <4>2, <5>1, UntilIs
      <4>4. Until(GateFilter(filter, piece).filter.pending, n + 1)
        BY <3>1, <4>2, <4>3, GateKeeps
      <4> QED BY <3>2, <4>1, <4>4 DEF Dated
    <3> QED BY <3>2, <3>3, <3>4
  <2>2. CASE Next
    <3>1. PICK k \in (pos + 1)..Len(text) : Push(k)
      BY <2>2 DEF Next
    <3> QED BY <2>1, <3>1
  <2>3. CASE UNCHANGED vars
    BY <2>3 DEF vars, Dated, Until
  <2> QED BY <2>2, <2>3
<1> QED BY <1>1, <1>2, InductiveAlways, PTL DEF Spec

\* What the stream encoders are checked with knows everything a push of the real filters may
\* do, whatever the texts, the tags and the cuts.
THEOREM PushesAreCovered == Spec => StreamInputCovers
<1> DEFINE piece == Mark(SubSeq(text, pos + 1, pos'), n')
           p == ThinkPush(filter, piece)
           g == GateFilter(filter, piece)
           covered == IF kind = "think"
                      THEN SplitOf(p) \in Fragments!ThinkPush(ThinkOf(filter), n')
                      ELSE PassOf(g) \in Fragments!GateFilter(GateOf(filter), n')
<1>1. Inductive /\ Dated /\ [Next]_vars => [covered]_vars
  <2> SUFFICES ASSUME Inductive, Dated, Next PROVE covered
    OBVIOUS
  <2>1. PICK k \in (pos + 1)..Len(text) : Push(k)
    BY DEF Next
  <2>2. pos' = k /\ n' = n + 1
    BY <2>1 DEF Push
  <2>3. piece = Mark(SubSeq(text, pos + 1, k), n + 1)
    BY <2>2
  <2>4. piece \in Str /\ piece # <<>> /\ AllOf(piece, n + 1) /\ n \in Nat
    BY <2>1, <2>3, PieceIs
  <2> HIDE DEF piece
  <2> DEFINE fed == SubSeq(text, 1, pos)
  <2>5. fed \in Word
    BY CutIs DEF Inductive, Word
  <2>6. CASE kind = "think"
    <3>1. Follows(filter, out.reason, out.content, fed) /\ filter.buf \in Str
      BY <2>6 DEF Inductive, FilterFollows, Follows, Splitter
    <3>2. NoneOf(filter.buf, n + 1)
      <4>1. Until(filter.buf, n)
        BY <2>6 DEF Dated
      <4> QED BY <2>4, <3>1, <4>1, UntilIs
    <3> HIDE DEF fed
    <3>3. SplitOf(p) \in Fragments!ThinkPush(ThinkOf(filter), n + 1)
      BY <2>4, <2>5, <3>1, <3>2, PushCovered
    <3> QED BY <2>2, <2>6, <3>3
  <2>7. CASE kind # "think"
    <3>1. GateFollows(filter, out.args, fed) /\ filter.pending \in Str
      BY <2>7, GateTypes DEF Inductive, FilterFollows, GateFollows
    <3>2. NoneOf(filter.pending, n + 1)
      <4>1. Until(filter.pending, n)
        BY <2>7 DEF Dated
      <4> QED BY <2>4, <3>1, <4>1, UntilIs
    <3> HIDE DEF fed
    <3>3. PassOf(g) \in Fragments!GateFilter(GateOf(filter), n + 1)
      BY <2>4, <2>5, <3>1, <3>2, GateCovered
    <3> QED BY <2>2, <2>7, <3>3
  <2> QED BY <2>6, <2>7
<1>2. StreamInputCovers <=> [][covered]_vars
  BY DEF StreamInputCovers, SplitOf, ThinkOf, PassOf, GateOf
<1> HIDE DEF covered
<1> QED BY <1>1, <1>2, DatedAlways, PTL DEF Spec

=============================================================================
