------------------------- MODULE StreamCodecsProofs -------------------------
(***************************************************************************)
(* Proofs that both encoders of StreamCodecs implement EventStream and      *)
(* lose, repeat and reorder nothing, and that the history a client sends    *)
(* back after an answer (Conversation) is one a chat model accepts, for any *)
(* tools, any chunks and answers and any number of them.                  *)
(*                                                                         *)
(* Names that begin with M are about MessagesStream, those with R about     *)
(* ResponsesStream.  MGood and RGood say of the state of an encoder between *)
(* two of its methods that what it takes to be open is what is open in the  *)
(* client's view; MReady and RReady add that the text sent so far rises and *)
(* that what the think splitter holds comes after it; MCounts and RCounts   *)
(* that what came for a tool is what was sent of it and what waits.  There  *)
(* is one lemma for each method, then one for each action, and SInv, the    *)
(* inductive invariant of StreamCodecs, puts them together.                 *)
(*                                                                         *)
(* The converters of RequestConversion are folds over a history.  Fold      *)
(* names one by what it does at each element, so that its lemmas (a fold of *)
(* a longer sequence goes one step further) are proved once.  Good says     *)
(* what the items of an answer read so far have been turned into, and goes  *)
(* on from each item to the next; the results of the calls come after it.   *)
(***************************************************************************)
EXTENDS Conversation, FunctionTheorems, SequenceTheorems, FiniteSetTheorems, TLAPS

----------------------------------------------------------------------------
(* Sequences of blocks *)

AnyKind == Messages!MessageKind \cup Responses!ItemKind

\* Sequences of blocks of kinds K.
Blocks(K) == Seq([kind : K, open : BOOLEAN, frags : Seq(Nat)])

NewBlock(k) == [kind |-> k, open |-> TRUE, frags |-> <<>>]

\* CloseBlocks and Delta on the blocks alone.
Closed(b, I) == [j \in DOMAIN b |-> IF j \in I THEN [b[j] EXCEPT !.open = FALSE] ELSE b[j]]

Fed(b, i, fs) == [b EXCEPT ![i].frags = @ \o fs]

\* A client that has the blocks of b may get those of c.
Later(b, c) == Len(b) <= Len(c) /\ \A i \in 1..Len(b) : Client!Grows(b[i], c[i])

\* The same blocks with the same fragments, open or not.
SameWords(b, c) ==
    /\ Len(c) = Len(b)
    /\ \A i \in 1..Len(b) : c[i].kind = b[i].kind /\ c[i].frags = b[i].frags

\* A block of a sequence of blocks is a block.
LEMMA BlockType ==
    ASSUME NEW K, NEW b \in Blocks(K), NEW i \in 1..Len(b)
    PROVE  /\ b[i] \in [kind : K, open : BOOLEAN, frags : Seq(Nat)]
           /\ b[i].kind \in K /\ b[i].open \in BOOLEAN /\ b[i].frags \in Seq(Nat)
           /\ b[i] = [kind |-> b[i].kind, open |-> b[i].open, frags |-> b[i].frags]
<1>1. b[i] \in [kind : K, open : BOOLEAN, frags : Seq(Nat)]
  BY ElementOfSeq DEF Blocks
<1> QED BY <1>1

\* A sequence of blocks has a length and is defined up to it.
LEMMA BlocksLen ==
    ASSUME NEW K, NEW b \in Blocks(K)
    PROVE  Len(b) \in Nat /\ DOMAIN b = 1..Len(b)
BY LenProperties DEF Blocks

\* Closing blocks changes nothing but that they are open.
LEMMA ClosedBlocks ==
    ASSUME NEW K, NEW b \in Blocks(K), NEW I \in SUBSET {i \in 1..Len(b) : b[i].open}
    PROVE  /\ Closed(b, I) \in Blocks(K)
           /\ Len(Closed(b, I)) = Len(b)
           /\ \A i \in 1..Len(b) :
                 /\ Closed(b, I)[i].kind = b[i].kind
                 /\ Closed(b, I)[i].frags = b[i].frags
                 /\ Closed(b, I)[i].open = (b[i].open /\ i \notin I)
           /\ Later(b, Closed(b, I))
<1> DEFINE c == Closed(b, I)
<1>1. Len(b) \in Nat /\ DOMAIN b = 1..Len(b)
  BY BlocksLen
<1>2. c = [j \in 1..Len(b) |-> IF j \in I THEN [b[j] EXCEPT !.open = FALSE] ELSE b[j]]
  BY <1>1 DEF Closed
<1>3. ASSUME NEW i \in 1..Len(b)
      PROVE  /\ c[i] \in [kind : K, open : BOOLEAN, frags : Seq(Nat)]
             /\ c[i].kind = b[i].kind /\ c[i].frags = b[i].frags
             /\ c[i].open = (b[i].open /\ i \notin I)
             /\ b[i].open \/ c[i] = b[i]
  <2>1. b[i] \in [kind : K, open : BOOLEAN, frags : Seq(Nat)]
    BY BlockType
  <2>2. CASE i \in I
    <3>1. c[i] = [b[i] EXCEPT !.open = FALSE] /\ b[i].open
      BY <1>2, <2>2
    <3> QED BY <2>1, <2>2, <3>1
  <2>3. CASE i \notin I
    <3>1. c[i] = b[i]
      BY <1>2, <2>3
    <3>2. c[i].open = (b[i].open /\ i \notin I)
      BY <2>1, <2>3, <3>1
    <3> QED BY <2>1, <3>1, <3>2
  <2> QED BY <2>2, <2>3
<1> HIDE DEF c
<1>4. c \in Blocks(K)
  <2>1. DOMAIN c = 1..Len(b) /\ c = [j \in 1..Len(b) |-> c[j]]
    BY <1>2
  <2>2. c \in [1..Len(b) -> [kind : K, open : BOOLEAN, frags : Seq(Nat)]]
    BY <1>3, <2>1
  <2> DEFINE T == [kind : K, open : BOOLEAN, frags : Seq(Nat)]
  <2>3. c \in [1..Len(b) -> T]
    BY <2>2
  <2> HIDE DEF T
  <2>4. c \in Seq(T)
    BY <1>1, <2>3, SeqDef
  <2> QED BY <2>4 DEF T, Blocks
<1>5. Len(c) = Len(b)
  BY <1>1, <1>2
<1>6. \A i \in 1..Len(b) : Len(b[i].frags) \in Nat
  BY BlockType, LenProperties
<1>7. Later(b, c)
  BY <1>1, <1>3, <1>5, <1>6 DEF Later, Client!Grows, Client!Appended
<1> QED BY <1>3, <1>4, <1>5, <1>7 DEF c

\* A delta lengthens the open block it is for and no other.
LEMMA FedBlocks ==
    ASSUME NEW K, NEW b \in Blocks(K), NEW i \in 1..Len(b), b[i].open, NEW fs \in Seq(Nat)
    PROVE  /\ Fed(b, i, fs) \in Blocks(K)
           /\ Len(Fed(b, i, fs)) = Len(b)
           /\ \A j \in 1..Len(b) : j # i => Fed(b, i, fs)[j] = b[j]
           /\ Fed(b, i, fs)[i].kind = b[i].kind
           /\ Fed(b, i, fs)[i].open
           /\ Fed(b, i, fs)[i].frags = b[i].frags \o fs
           /\ Later(b, Fed(b, i, fs))
<1> DEFINE c == Fed(b, i, fs)
           e == [b[i] EXCEPT !.frags = b[i].frags \o fs]
<1>1. Len(b) \in Nat /\ DOMAIN b = 1..Len(b)
  BY BlocksLen
<1>2. b[i] \in [kind : K, open : BOOLEAN, frags : Seq(Nat)] /\ b[i].frags \in Seq(Nat)
  BY BlockType
<1>3. b[i].frags \o fs \in Seq(Nat)
  BY <1>2, ConcatProperties
<1>4. c = [b EXCEPT ![i] = e]
  BY <1>1 DEF Fed
<1>5. /\ e \in [kind : K, open : BOOLEAN, frags : Seq(Nat)]
      /\ e.kind = b[i].kind /\ e.open = b[i].open /\ e.frags = b[i].frags \o fs
  BY <1>2, <1>3
<1> HIDE DEF e
<1>6. c \in Blocks(K) /\ Len(c) = Len(b) /\ \A j \in 1..Len(b) : c[j] = IF j = i THEN e ELSE b[j]
  BY <1>4, <1>5, ExceptSeq DEF Blocks
<1> HIDE DEF c
<1>7. Client!Appended(b[i].frags, b[i].frags \o fs)
  BY <1>2, ConcatProperties, LenProperties DEF Client!Appended
<1>8. \A j \in 1..Len(b) : Client!Grows(b[j], c[j])
  <2> TAKE j \in 1..Len(b)
  <2>1. CASE j = i
    <3>1. c[j] = e
      BY <1>6, <2>1
    <3> QED BY <1>5, <1>7, <2>1, <3>1 DEF Client!Grows
  <2>2. CASE j # i
    <3>1. c[j] = b[j] /\ Len(b[j].frags) \in Nat
      BY <1>6, <2>2, BlockType, LenProperties
    <3> QED BY <3>1 DEF Client!Grows, Client!Appended
  <2> QED BY <2>1, <2>2
<1>9. Later(b, c)
  BY <1>1, <1>6, <1>8 DEF Later
<1>10. c[i] = e /\ \A j \in 1..Len(b) : j # i => c[j] = b[j]
  BY <1>6
<1> QED BY <1>5, <1>6, <1>9, <1>10 DEF c

\* A new block comes last and is empty; the others stay.
LEMMA OpenedBlocks ==
    ASSUME NEW K, NEW b \in Blocks(K), NEW k \in K
    PROVE  LET c == Append(b, NewBlock(k)) IN
           /\ c \in Blocks(K)
           /\ Len(c) = Len(b) + 1
           /\ \A j \in 1..Len(b) : c[j] = b[j]
           /\ c[Len(b) + 1] = NewBlock(k)
           /\ Later(b, c)
<1> DEFINE c == Append(b, NewBlock(k))
<1>1. NewBlock(k) \in [kind : K, open : BOOLEAN, frags : Seq(Nat)]
  BY EmptySeq DEF NewBlock
<1>2. Len(b) \in Nat
  BY BlocksLen
<1>3. /\ c \in Blocks(K) /\ Len(c) = Len(b) + 1
      /\ \A j \in 1..Len(b) : c[j] = b[j]
      /\ c[Len(b) + 1] = NewBlock(k)
  BY <1>1, AppendProperties DEF Blocks
<1>4. \A j \in 1..Len(b) : Len(b[j].frags) \in Nat
  BY BlockType, LenProperties
<1>5. Later(b, c)
  BY <1>2, <1>3, <1>4 DEF Later, Client!Grows, Client!Appended
<1> QED BY <1>3, <1>5

\* An empty delta is none.
LEMMA FedNothing ==
    ASSUME NEW K, NEW b \in Blocks(K), NEW i \in 1..Len(b)
    PROVE  Fed(b, i, <<>>) = b
<1>1. b[i] \in [kind : K, open : BOOLEAN, frags : Seq(Nat)] /\ b[i].frags \in Seq(Nat)
  BY BlockType
<1>5. b[i].frags \o <<>> = b[i].frags
  BY <1>1, ConcatEmptySeq
<1>2. [b[i] EXCEPT !.frags = b[i].frags] = b[i]
  BY <1>1
<1>3. Fed(b, i, <<>>) = [b EXCEPT ![i] = [b[i] EXCEPT !.frags = b[i].frags \o <<>>]]
  BY DEF Fed
<1>4. b \in [1..Len(b) -> [kind : K, open : BOOLEAN, frags : Seq(Nat)]]
  BY LenProperties DEF Blocks
<1> QED BY <1>1, <1>2, <1>3, <1>4, <1>5

\* A client keeps what it has.
LEMMA LaterReflexive ==
    ASSUME NEW K, NEW b \in Blocks(K)
    PROVE  Later(b, b)
<1>1. Len(b) \in Nat /\ \A j \in 1..Len(b) : Len(b[j].frags) \in Nat
  BY BlocksLen, BlockType, LenProperties
<1> QED BY <1>1 DEF Later, Client!Grows, Client!Appended

\* What a client may get after what it may get it may get.
LEMMA LaterTransitive ==
    ASSUME NEW K, NEW b \in Blocks(K), NEW c \in Blocks(K), NEW d \in Blocks(K),
           Later(b, c), Later(c, d)
    PROVE  Later(b, d)
<1>1. Len(b) \in Nat /\ Len(c) \in Nat /\ Len(d) \in Nat
  BY BlocksLen
<1>2. ASSUME NEW i \in 1..Len(b)
      PROVE  Client!Grows(b[i], d[i])
  <2>1. i \in 1..Len(c) /\ i \in 1..Len(d)
    BY <1>1 DEF Later
  <2>2. Client!Grows(b[i], c[i]) /\ Client!Grows(c[i], d[i])
    BY <2>1 DEF Later
  <2>3. Len(b[i].frags) \in Nat /\ Len(c[i].frags) \in Nat /\ Len(d[i].frags) \in Nat
    BY <2>1, BlockType, LenProperties
  <2>4. Client!Appended(b[i].frags, d[i].frags)
    BY <2>2, <2>3, SMTT(20) DEF Client!Grows, Client!Appended
  <2> QED BY <2>2, <2>4 DEF Client!Grows
<1> QED BY <1>1, <1>2 DEF Later

----------------------------------------------------------------------------
(* The words in a sequence of blocks *)

\* The blocks of kind k are the same in c as in b.
Spares(b, c, k) ==
    \A j \in 1..Len(c) : c[j].kind = k =>
        j \in 1..Len(b) /\ b[j].kind = k /\ c[j].frags = b[j].frags

\* The last block of c is of kind k and has got the fragments fs; the others have not
\* got any.
Says(b, c, k, fs) ==
    /\ Len(c) > 0 /\ Len(c) \in {Len(b), Len(b) + 1}
    /\ \A j \in 1..Len(b) : c[j].kind = b[j].kind
    /\ \A j \in 1..Len(b) : j # Len(c) => c[j].frags = b[j].frags
    /\ c[Len(c)].kind = k
    /\ c[Len(c)].frags = (IF Len(c) = Len(b) THEN b[Len(b)].frags ELSE <<>>) \o fs

\* The fragments of the blocks of kind k rise and are not above m.
Rising(b, k, m) ==
    \A i, j \in 1..Len(b) : b[i].kind = k /\ b[j].kind = k =>
        \A x \in 1..Len(b[i].frags), y \in 1..Len(b[j].frags) :
            /\ i < j \/ (i = j /\ x < y) => b[i].frags[x] < b[j].frags[y]
            /\ b[i].frags[x] <= m

\* The fragments fs rise, and they are above those of the blocks of kind k.
Follow(b, k, m, fs) ==
    /\ \A x, y \in 1..Len(fs) : x < y => fs[x] < fs[y]
    /\ \A y \in 1..Len(fs) : fs[y] <= m
    /\ \A i \in 1..Len(b) : b[i].kind = k =>
          \A x \in 1..Len(b[i].frags), y \in 1..Len(fs) : b[i].frags[x] < fs[y]

\* Closing blocks writes nothing.
LEMMA SameSpares ==
    ASSUME NEW b, NEW c, NEW k, SameWords(b, c)
    PROVE  Spares(b, c, k)
BY DEF SameWords, Spares

\* What is said in a block of one kind is not said in one of another.
LEMMA SaysSpares ==
    ASSUME NEW b, NEW c, Len(b) \in Nat, NEW k, NEW l, NEW fs, Says(b, c, l, fs), l # k
    PROVE  Spares(b, c, k)
<1> SUFFICES ASSUME NEW j \in 1..Len(c), c[j].kind = k
             PROVE  j \in 1..Len(b) /\ b[j].kind = k /\ c[j].frags = b[j].frags
  BY DEF Spares
<1>1. j # Len(c)
  BY DEF Says
<1>2. j \in 1..Len(b)
  BY <1>1 DEF Says
<1> QED BY <1>1, <1>2 DEF Says

\* Two steps that write nothing of a kind write nothing of it together.
LEMMA SpareTransitive ==
    ASSUME NEW b, NEW c, NEW d, NEW k, Spares(b, c, k), Spares(c, d, k)
    PROVE  Spares(b, d, k)
BY DEF Spares

\* What opening a block and feeding the last one say.
LEMMA SaysLast ==
    ASSUME NEW K, NEW b \in Blocks(K), Len(b) > 0, b[Len(b)].open, NEW fs \in Seq(Nat)
    PROVE  Says(b, Fed(b, Len(b), fs), b[Len(b)].kind, fs)
<1>1. Len(b) \in Nat /\ Len(b) \in 1..Len(b)
  BY BlocksLen
<1> DEFINE c == Fed(b, Len(b), fs)
<1>2. /\ Len(c) = Len(b)
      /\ \A j \in 1..Len(b) : j # Len(b) => c[j] = b[j]
      /\ c[Len(b)].kind = b[Len(b)].kind
      /\ c[Len(b)].frags = b[Len(b)].frags \o fs
  BY <1>1, FedBlocks
<1> HIDE DEF c
<1>3. Says(b, c, b[Len(b)].kind, fs)
  BY <1>1, <1>2 DEF Says
<1> QED BY <1>3 DEF c

\* Fragments said in a new block, once others are closed.
LEMMA SaysNew ==
    ASSUME NEW K, NEW b \in Blocks(K), NEW c \in Blocks(K), SameWords(b, c),
           NEW k \in K, NEW fs \in Seq(Nat)
    PROVE  Says(b, Fed(Append(c, NewBlock(k)), Len(c) + 1, fs), k, fs)
<1> DEFINE d == Append(c, NewBlock(k))
           e == Fed(d, Len(c) + 1, fs)
<1>1. Len(c) \in Nat /\ Len(b) \in Nat /\ Len(c) + 1 \in 1..(Len(c) + 1)
  BY BlocksLen
<1>2. /\ d \in Blocks(K) /\ Len(d) = Len(c) + 1
      /\ \A j \in 1..Len(c) : d[j] = c[j]
      /\ d[Len(c) + 1] = NewBlock(k)
  BY OpenedBlocks
<1> HIDE DEF d
<1>3. d[Len(c) + 1].open /\ d[Len(c) + 1].kind = k /\ d[Len(c) + 1].frags = <<>>
  BY <1>2 DEF NewBlock
<1>4. /\ Len(e) = Len(c) + 1
      /\ \A j \in 1..Len(d) : j # Len(c) + 1 => e[j] = d[j]
      /\ e[Len(c) + 1].kind = k
      /\ e[Len(c) + 1].frags = <<>> \o fs
  <2>1. Len(c) + 1 \in 1..Len(d)
    BY <1>1, <1>2
  <2>2. /\ Len(e) = Len(d)
        /\ \A j \in 1..Len(d) : j # Len(c) + 1 => e[j] = d[j]
        /\ e[Len(c) + 1].kind = d[Len(c) + 1].kind
        /\ e[Len(c) + 1].frags = d[Len(c) + 1].frags \o fs
    <3> DEFINE i == Len(c) + 1
    <3>1. i \in 1..Len(d) /\ d[i].open
      BY <1>3, <2>1
    <3> HIDE DEF i
    <3>2. /\ Len(Fed(d, i, fs)) = Len(d)
          /\ \A j \in 1..Len(d) : j # i => Fed(d, i, fs)[j] = d[j]
          /\ Fed(d, i, fs)[i].kind = d[i].kind
          /\ Fed(d, i, fs)[i].frags = d[i].frags \o fs
      BY <1>2, <3>1, FedBlocks, ZenonT(40)
    <3> QED BY <3>2 DEF i
  <2> QED BY <1>2, <1>3, <2>2
<1> HIDE DEF e
<1>5. \A j \in 1..Len(b) : j \in 1..Len(c) /\ j # Len(c) + 1 /\ e[j] = c[j]
  BY <1>1, <1>2, <1>4 DEF SameWords
<1>6. Says(b, e, k, fs)
  BY <1>1, <1>4, <1>5, SMTT(20) DEF Says, SameWords
<1> QED BY <1>6 DEF d, e

\* What says nothing of a kind leaves its fragments rising.
LEMMA RisingSpared ==
    ASSUME NEW K, NEW b \in Blocks(K), NEW c \in Blocks(K), NEW k,
           NEW m \in Nat, NEW o \in Nat, m <= o, Spares(b, c, k), Rising(b, k, m)
    PROVE  Rising(c, k, o)
<1> SUFFICES ASSUME NEW i \in 1..Len(c), NEW j \in 1..Len(c), c[i].kind = k, c[j].kind = k,
                    NEW x \in 1..Len(c[i].frags), NEW y \in 1..Len(c[j].frags)
             PROVE  /\ i < j \/ (i = j /\ x < y) => c[i].frags[x] < c[j].frags[y]
                    /\ c[i].frags[x] <= o
  BY DEF Rising
<1>1. /\ i \in 1..Len(b) /\ b[i].kind = k /\ c[i].frags = b[i].frags
      /\ j \in 1..Len(b) /\ b[j].kind = k /\ c[j].frags = b[j].frags
  BY DEF Spares
<1>2. /\ i < j \/ (i = j /\ x < y) => b[i].frags[x] < b[j].frags[y]
      /\ b[i].frags[x] <= m
  BY <1>1 DEF Rising
<1>3. b[i].frags[x] \in Nat
  BY <1>1, BlockType, ElementOfSeq
<1> QED BY <1>1, <1>2, <1>3

\* Fragments above all those said before go on rising.
LEMMA RisingOn ==
    ASSUME NEW K, NEW b \in Blocks(K), NEW c \in Blocks(K), NEW k,
           NEW m \in Nat, NEW o \in Nat, m <= o, Rising(b, k, m),
           NEW fs \in Seq(Nat), Says(b, c, k, fs), Follow(b, k, o, fs)
    PROVE  Rising(c, k, o)
<1> DEFINE old == IF Len(c) = Len(b) THEN b[Len(b)].frags ELSE <<>>
<1>1. Len(b) \in Nat /\ Len(c) \in Nat /\ Len(fs) \in Nat
  BY BlocksLen, LenProperties
<1>2. Len(c) > 0 /\ Len(c) \in {Len(b), Len(b) + 1} /\ c[Len(c)].frags = old \o fs
  BY DEF Says
<1>3. old \in Seq(Nat)
  <2>1. CASE Len(c) = Len(b)
    <3>1. Len(b) \in 1..Len(b)
      BY <1>1, <1>2, <2>1
    <3> QED BY <2>1, <3>1, BlockType
  <2>2. CASE Len(c) # Len(b)
    BY <2>2, EmptySeq
  <2> QED BY <2>1, <2>2
<1>4. Len(old) \in Nat /\ Len(old) # 0 => Len(c) = Len(b)
  BY <1>3, LenProperties, EmptySeq
<1> HIDE DEF old
\* A fragment of c is one of the old ones, or one of fs at the end of the last block.
<1>5. ASSUME NEW i \in 1..Len(c), c[i].kind = k, NEW x \in 1..Len(c[i].frags)
      PROVE  \/ /\ i \in 1..Len(b) /\ b[i].kind = k
                /\ x \in 1..Len(b[i].frags) /\ c[i].frags[x] = b[i].frags[x]
                /\ i = Len(c) => Len(old) = Len(b[i].frags)
             \/ /\ i = Len(c) /\ x - Len(old) \in 1..Len(fs)
                /\ c[i].frags[x] = fs[x - Len(old)]
  <2>1. CASE i # Len(c)
    <3>1. i \in 1..Len(b)
      BY <1>1, <1>2, <2>1
    <3> QED BY <1>5, <2>1, <3>1 DEF Says
  <2>2. CASE i = Len(c)
    <3>1. /\ c[i].frags = old \o fs /\ Len(old \o fs) = Len(old) + Len(fs)
          /\ (old \o fs)[x] = IF x <= Len(old) THEN old[x] ELSE fs[x - Len(old)]
      <4>1. c[i].frags = old \o fs
        BY <1>2, <2>2
      <4>2. /\ Len(old \o fs) = Len(old) + Len(fs)
            /\ \A z \in 1..(Len(old) + Len(fs)) :
                  (old \o fs)[z] = IF z <= Len(old) THEN old[z] ELSE fs[z - Len(old)]
        BY <1>3, ConcatProperties
      <4> QED BY <1>5, <4>1, <4>2
    <3>2. x \in Nat \ {0} /\ x <= Len(old) + Len(fs)
      BY <1>1, <1>4, <1>5, <3>1
    <3>3. CASE x <= Len(old)
      <4>1. Len(c) = Len(b) /\ old = b[Len(b)].frags
        BY <1>4, <3>2, <3>3 DEF old
      <4>2. b[i].kind = k /\ i \in 1..Len(b)
        BY <1>1, <1>2, <1>5, <2>2, <4>1 DEF Says
      <4> QED BY <1>4, <2>2, <3>1, <3>2, <3>3, <4>1, <4>2
    <3>4. CASE ~(x <= Len(old))
      <4>1. x - Len(old) \in 1..Len(fs)
        BY <1>1, <1>4, <3>2, <3>4
      <4> QED BY <2>2, <3>1, <3>4, <4>1
    <3> QED BY <3>3, <3>4
  <2> QED BY <2>1, <2>2
<1> SUFFICES ASSUME NEW i \in 1..Len(c), NEW j \in 1..Len(c), c[i].kind = k, c[j].kind = k,
                    NEW x \in 1..Len(c[i].frags), NEW y \in 1..Len(c[j].frags)
             PROVE  /\ i < j \/ (i = j /\ x < y) => c[i].frags[x] < c[j].frags[y]
                    /\ c[i].frags[x] <= o
  BY DEF Rising
<1> DEFINE Old(l, z) == /\ l \in 1..Len(b) /\ b[l].kind = k
                        /\ z \in 1..Len(b[l].frags) /\ c[l].frags[z] = b[l].frags[z]
           New(l, z) == /\ l = Len(c) /\ z - Len(old) \in 1..Len(fs)
                        /\ c[l].frags[z] = fs[z - Len(old)]
<1>6. /\ Old(i, x) \/ New(i, x)
      /\ Old(j, y) \/ New(j, y)
  BY <1>5
<1>7. /\ c[i].frags[x] \in Nat /\ c[j].frags[y] \in Nat
      /\ x \in Nat /\ y \in Nat
  <2>1. /\ c[i].frags \in Seq(Nat) /\ c[j].frags \in Seq(Nat)
        /\ Len(c[i].frags) \in Nat /\ Len(c[j].frags) \in Nat
    BY BlockType, LenProperties
  <2>2. c[i].frags[x] \in Nat
    BY <2>1, ElementOfSeq
  <2>3. c[j].frags[y] \in Nat
    BY <2>1, ElementOfSeq
  <2> QED BY <2>1, <2>2, <2>3
<1>8. c[i].frags[x] <= o
  <2>1. CASE Old(i, x)
    BY <1>7, <2>1, SMTT(20) DEF Rising
  <2>2. CASE New(i, x)
    BY <2>2 DEF Follow
  <2> QED BY <1>6, <2>1, <2>2
<1>9. ASSUME i < j \/ (i = j /\ x < y)
      PROVE  c[i].frags[x] < c[j].frags[y]
  <2>1. CASE Old(i, x) /\ Old(j, y)
    BY <1>9, <2>1 DEF Rising
  <2>2. CASE Old(i, x) /\ New(j, y)
    BY <2>2 DEF Follow
  <2>3. CASE New(i, x) /\ New(j, y)
    <3>1. x < y
      BY <1>1, <1>9, <2>3
    <3>2. x - Len(old) < y - Len(old)
      BY <1>4, <1>7, <3>1
    <3> QED BY <2>3, <3>2 DEF Follow
  <2>4. CASE New(i, x) /\ Old(j, y)
    <3>1. i = j /\ x < y /\ i = Len(c)
      BY <1>1, <1>9, <2>4
    <3>2. i = Len(b) /\ y <= Len(b[i].frags) /\ Len(b[i].frags) \in Nat
      <4>1. j \in 1..Len(b) /\ y \in 1..Len(b[j].frags)
        BY <2>4
      <4>2. Len(b[j].frags) \in Nat
        BY <4>1, BlockType, LenProperties
      <4> QED BY <1>1, <1>2, <3>1, <4>1, <4>2
    <3>3. Len(old) = Len(b[i].frags)
      BY <3>1, <3>2 DEF old
    <3> QED BY <1>1, <1>4, <2>4, <3>1, <3>2, <3>3
  <2> QED BY <1>6, <2>1, <2>2, <2>3, <2>4
<1> QED BY <1>8, <1>9


----------------------------------------------------------------------------
(* The events of a Messages stream *)

\* A legal stream between its first and its last event.
MLive(v) == v \in Messages!Client!View /\ v.legal /\ v.phase = "open"

\* The blocks of a view are a sequence of blocks.
LEMMA MViewBlocks ==
    ASSUME NEW v \in Messages!Client!View
    PROVE  /\ v.blocks \in Blocks(Messages!MessageKind)
           /\ Len(v.blocks) \in Nat /\ DOMAIN v.blocks = 1..Len(v.blocks)
<1>1. v.blocks \in Blocks(Messages!MessageKind)
  BY DEF Messages!Client!View, Messages!Client!Block, Blocks
<1> QED BY <1>1, BlocksLen

\* content_block_stop of open blocks is legal and only closes them.
LEMMA MCloseView ==
    ASSUME NEW v, MLive(v), NEW I \in SUBSET {i \in 1..Len(v.blocks) : v.blocks[i].open}
    PROVE  /\ MLive(Messages!Client!CloseBlocks(v, I))
           /\ Messages!Client!CloseBlocks(v, I).blocks = Closed(v.blocks, I)
<1> DEFINE w == Messages!Client!CloseBlocks(v, I)
<1>1. DOMAIN v.blocks = 1..Len(v.blocks) /\ v.blocks \in Blocks(Messages!MessageKind)
  BY MViewBlocks DEF MLive
<1>2. I \subseteq Messages!Client!OpenBlocks(v)
  BY <1>1 DEF Messages!Client!OpenBlocks
<1>3. w = [v EXCEPT !.blocks = Closed(v.blocks, I), !.legal = TRUE]
  BY <1>2 DEF Messages!Client!CloseBlocks, MLive, Messages!Client!View, Closed
<1>4. Closed(v.blocks, I) \in Seq(Messages!Client!Block)
  BY <1>1, ClosedBlocks DEF Blocks, Messages!Client!Block
<1> QED BY <1>3, <1>4 DEF MLive, Messages!Client!View

\* content_block_delta of an open block is legal and only lengthens it.
LEMMA MDeltaView ==
    ASSUME NEW v, MLive(v), NEW i \in 1..Len(v.blocks), v.blocks[i].open, NEW fs \in Seq(Nat)
    PROVE  /\ MLive(Messages!Client!Delta(v, i, fs))
           /\ Messages!Client!Delta(v, i, fs).blocks = Fed(v.blocks, i, fs)
<1> DEFINE w == Messages!Client!Delta(v, i, fs)
<1>1. DOMAIN v.blocks = 1..Len(v.blocks) /\ v.blocks \in Blocks(Messages!MessageKind)
  BY MViewBlocks DEF MLive
<1>2. i \in Messages!Client!OpenBlocks(v)
  BY <1>1 DEF Messages!Client!OpenBlocks
<1>3. w = [v EXCEPT !.blocks = Fed(v.blocks, i, fs), !.legal = TRUE]
  BY <1>2 DEF Messages!Client!Delta, MLive, Messages!Client!View, Fed
<1>4. Fed(v.blocks, i, fs) \in Seq(Messages!Client!Block)
  BY <1>1, FedBlocks DEF Blocks, Messages!Client!Block
<1> QED BY <1>3, <1>4 DEF MLive, Messages!Client!View

\* content_block_start is legal when only tools are open, and for a tool only.
LEMMA MOpenView ==
    ASSUME NEW v, MLive(v), NEW k \in Messages!MessageKind,
           \A i \in 1..Len(v.blocks) : v.blocks[i].open =>
              v.blocks[i].kind = "tool_use" /\ k = "tool_use"
    PROVE  /\ MLive(Messages!Client!OpenBlock(v, Len(v.blocks) + 1, k))
           /\ Messages!Client!OpenBlock(v, Len(v.blocks) + 1, k).blocks =
                Append(v.blocks, NewBlock(k))
<1> DEFINE w == Messages!Client!OpenBlock(v, Len(v.blocks) + 1, k)
<1>1. DOMAIN v.blocks = 1..Len(v.blocks) /\ v.blocks \in Blocks(Messages!MessageKind)
  BY MViewBlocks DEF MLive
<1>2. \A j \in Messages!Client!OpenBlocks(v) :
         <<v.blocks[j].kind, k>> \in {<<"tool_use", "tool_use">>}
  BY <1>1 DEF Messages!Client!OpenBlocks
<1>3. w = [v EXCEPT !.blocks = Append(v.blocks, NewBlock(k)), !.legal = TRUE]
  BY <1>2 DEF Messages!Client!OpenBlock, MLive, Messages!Client!View, NewBlock
<1>4. Append(v.blocks, NewBlock(k)) \in Seq(Messages!Client!Block)
  BY <1>1, OpenedBlocks DEF Blocks, Messages!Client!Block
<1> QED BY <1>3, <1>4 DEF MLive, Messages!Client!View

----------------------------------------------------------------------------
(* The encoder of a Messages stream between two of its methods *)

\* The tool has an open block.
MHolds(s, t) == s.tools[t].started /\ ~s.tools[t].closed

\* The block of the state is the last one, and it is open.
MCurrent(s) ==
    /\ s.next = Len(s.view.blocks) + 1
    /\ s.blockOpen <=> s.curKind # ""
    /\ s.blockOpen => /\ s.curBlock \in 1..Len(s.view.blocks)
                      /\ s.curBlock = Len(s.view.blocks)
                      /\ s.view.blocks[s.curBlock].open
                      /\ s.view.blocks[s.curBlock].kind = s.curKind

\* A tool has its own block and buffers nothing, once it is started; the block is open
\* as long as the tool is.
MTools(s) ==
    \A t \in Tool :
        /\ s.tools[t].started =>
              /\ s.tools[t].pending = <<>>
              /\ s.tools[t].block \in 1..Len(s.view.blocks)
              /\ s.view.blocks[s.tools[t].block].kind = "tool_use"
        /\ MHolds(s, t) => s.view.blocks[s.tools[t].block].open
        /\ \A u \in Tool : s.tools[t].started /\ s.tools[u].started /\ t # u =>
              s.tools[t].block # s.tools[u].block

\* A tool is started once it has a name.
MNamed(s) == \A t \in Tool : s.tools[t].named => s.tools[t].started

\* Whatever is open belongs to a tool or is the block of the state.
MOpen(s) ==
    \A i \in 1..Len(s.view.blocks) : s.view.blocks[i].open =>
        \/ s.blockOpen /\ i = s.curBlock
        \/ \E t \in Tool : MHolds(s, t) /\ s.tools[t].block = i

\* A tool has been given its name, and the client has a block of a tool.
MCalled(s) == \E t \in Tool : s.tools[t].named
MHas(s) == \E i \in 1..Len(s.view.blocks) : s.view.blocks[i].kind = "tool_use"

\* No tool_use block comes without a name.
MUsed(s) == MHas(s) => MCalled(s)

\* A state of the encoder in which what it remembers is what the client sees.
MGood(s) == /\ s \in Messages!StreamState
            /\ MLive(s.view) /\ MCurrent(s) /\ MTools(s) /\ MOpen(s) /\ MUsed(s)

\* What the methods that emit events leave alone.
MKeeps(s, r) ==
    /\ r.hasTools = s.hasTools /\ r.stop = s.stop /\ r.sawReasoning = s.sawReasoning
    /\ r.think = s.think /\ r.err = s.err

\* The tools are as before, but that some may be closed.
MToolsAs(s, r) ==
    \A t \in Tool :
        /\ r.tools[t].started = s.tools[t].started /\ r.tools[t].named = s.tools[t].named
        /\ r.tools[t].block = s.tools[t].block /\ r.tools[t].pending = s.tools[t].pending
        /\ r.tools[t].gate = s.tools[t].gate /\ r.tools[t].seen = s.tools[t].seen

\* The started tools are as before.
MStarted(s, r) ==
    \A t \in Tool :
        /\ r.tools[t].started = s.tools[t].started /\ r.tools[t].block = s.tools[t].block
        /\ s.tools[t].started => r.tools[t].pending = s.tools[t].pending

\* Tools that are as before but that some are closed are started as before.
LEMMA MAsStarted ==
    ASSUME NEW s, NEW r, MToolsAs(s, r)
    PROVE  MStarted(s, r)
BY Zenon DEF MToolsAs, MStarted

\* A method that starts no tool leaves the tools as they have to be.
LEMMA MToolsKept ==
    ASSUME NEW s, NEW r, MTools(s), MStarted(s, r),
           Len(s.view.blocks) \in Nat, Len(r.view.blocks) \in Nat,
           Len(s.view.blocks) <= Len(r.view.blocks),
           \A i \in 1..Len(s.view.blocks) : r.view.blocks[i].kind = s.view.blocks[i].kind,
           \A t \in Tool : MHolds(r, t) => r.view.blocks[s.tools[t].block].open
    PROVE  MTools(r)
<1> SUFFICES ASSUME NEW t \in Tool
             PROVE  /\ r.tools[t].started =>
                          /\ r.tools[t].pending = <<>>
                          /\ r.tools[t].block \in 1..Len(r.view.blocks)
                          /\ r.view.blocks[r.tools[t].block].kind = "tool_use"
                    /\ MHolds(r, t) => r.view.blocks[r.tools[t].block].open
                    /\ \A u \in Tool : r.tools[t].started /\ r.tools[u].started /\ t # u =>
                          r.tools[t].block # r.tools[u].block
  BY Zenon DEF MTools
<1>1. \A u \in Tool : /\ r.tools[u].started = s.tools[u].started
                       /\ r.tools[u].block = s.tools[u].block
  BY DEF MStarted
<1>2. s.tools[t].started => r.tools[t].pending = s.tools[t].pending
  BY DEF MStarted
<1>3. r.tools[t].started =>
         /\ r.tools[t].pending = <<>>
         /\ r.tools[t].block \in 1..Len(r.view.blocks)
         /\ r.view.blocks[r.tools[t].block].kind = "tool_use"
  <2> SUFFICES ASSUME r.tools[t].started
               PROVE  /\ r.tools[t].pending = <<>>
                      /\ r.tools[t].block \in 1..Len(r.view.blocks)
                      /\ r.view.blocks[r.tools[t].block].kind = "tool_use"
    OBVIOUS
  <2>1. s.tools[t].started
    BY <1>1
  <2>2. /\ s.tools[t].pending = <<>>
        /\ s.tools[t].block \in 1..Len(s.view.blocks)
        /\ s.view.blocks[s.tools[t].block].kind = "tool_use"
    BY <2>1 DEF MTools
  <2>3. r.tools[t].pending = <<>> /\ r.tools[t].block = s.tools[t].block
    BY <1>1, <1>2, <2>1, <2>2
  <2>4. s.tools[t].block \in 1..Len(r.view.blocks)
    BY <2>2
  <2>5. r.view.blocks[s.tools[t].block].kind = "tool_use"
    BY <2>2
  <2> QED BY <2>3, <2>4, <2>5
<1>4. \A u \in Tool : r.tools[t].started /\ r.tools[u].started /\ t # u =>
         r.tools[t].block # r.tools[u].block
  BY <1>1 DEF MTools
<1> QED BY <1>1, <1>3, <1>4

\* closeBlock: the block of the state is closed, and nothing else changes.
LEMMA MCloseBlockGood ==
    ASSUME NEW s, MGood(s), NEW r, r = Messages!CloseBlock(s)
    PROVE  /\ MGood(r) /\ ~r.blockOpen /\ MKeeps(s, r) /\ r.tools = s.tools
           /\ SameWords(s.view.blocks, r.view.blocks)
           /\ Later(s.view.blocks, r.view.blocks)
<1>1. CASE ~s.blockOpen
  <2>1. r = s
    BY <1>1 DEF Messages!CloseBlock
  <2>2. s.view.blocks \in Blocks(Messages!MessageKind)
    BY MViewBlocks DEF MGood, MLive
  <2> QED BY <1>1, <2>1, <2>2, LaterReflexive DEF MKeeps, SameWords
<1>2. CASE s.blockOpen
  <2> DEFINE v == s.view
             w == Messages!Client!CloseBlocks(v, {s.curBlock})
  <2>1. r = [s EXCEPT !.view = w, !.blockOpen = FALSE, !.curKind = ""]
    BY <1>2 DEF Messages!CloseBlock
  <2>2. /\ MLive(v) /\ s.curBlock \in 1..Len(v.blocks) /\ v.blocks[s.curBlock].open
        /\ v.blocks[s.curBlock].kind = s.curKind /\ v.blocks \in Blocks(Messages!MessageKind)
    BY Zenon, <1>2, MViewBlocks DEF MGood, MCurrent, MLive
  <2>3. MLive(w) /\ w.blocks = Closed(v.blocks, {s.curBlock})
    BY <2>2, MCloseView
  <2> HIDE DEF w
  <2>4. r \in Messages!StreamState
    BY Zenon, <2>1, <2>3 DEF MGood, Messages!StreamState, MLive
  <2>5. /\ r.view = w /\ r.blockOpen = FALSE /\ r.curKind = "" /\ r.tools = s.tools
        /\ r.next = s.next /\ r.curBlock = s.curBlock
    BY Zenon, <2>1 DEF MGood, Messages!StreamState
  <2>6. MKeeps(s, r)
    BY Zenon, <2>1 DEF MGood, Messages!StreamState, MKeeps
  <2>7. /\ Len(w.blocks) = Len(v.blocks) /\ Len(v.blocks) \in Nat
        /\ \A i \in 1..Len(v.blocks) :
              /\ w.blocks[i].kind = v.blocks[i].kind /\ w.blocks[i].frags = v.blocks[i].frags
              /\ w.blocks[i].open = (v.blocks[i].open /\ i \notin {s.curBlock})
        /\ Later(v.blocks, w.blocks)
    BY <2>2, <2>3, ClosedBlocks, BlocksLen, SMTT(20)
  <2>8. s.curKind # "tool_use"
    BY Zenon DEF MGood, Messages!StreamState
  <2>9. MCurrent(r)
    BY Zenon, <2>5, <2>7 DEF MGood, MCurrent
  <2>10. MTools(r)
    <3>1. MStarted(s, r)
      BY Zenon, <2>5 DEF MStarted
    <3>2. ASSUME NEW t \in Tool, MHolds(r, t)
          PROVE  r.view.blocks[s.tools[t].block].open
      <4>1. MHolds(s, t)
        BY Zenon, <2>5, <3>2 DEF MHolds
      <4>2. /\ s.tools[t].block \in 1..Len(v.blocks) /\ v.blocks[s.tools[t].block].open
            /\ v.blocks[s.tools[t].block].kind = "tool_use"
        BY <4>1 DEF MGood, MTools, MHolds
      <4>3. s.tools[t].block # s.curBlock
        BY <2>2, <2>8, <4>2
      <4> QED BY Zenon, <2>5, <2>7, <4>2, <4>3
    <3>3. /\ Len(s.view.blocks) \in Nat /\ Len(r.view.blocks) \in Nat
          /\ Len(s.view.blocks) <= Len(r.view.blocks)
          /\ \A i \in 1..Len(s.view.blocks) : r.view.blocks[i].kind = s.view.blocks[i].kind
      <4>1. r.view = w
        BY Zenon, <2>5
      <4>2. Len(w.blocks) = Len(v.blocks) /\ Len(v.blocks) \in Nat
        BY <2>7
      <4>3. \A i \in 1..Len(v.blocks) : w.blocks[i].kind = v.blocks[i].kind
        BY <2>7
      <4> QED BY <4>1, <4>2, <4>3
    <3>4. MTools(s)
      BY DEF MGood
    <3> QED BY <3>1, <3>2, <3>3, <3>4, MToolsKept
  <2>11. MOpen(r)
    <3> SUFFICES ASSUME NEW i \in 1..Len(w.blocks), w.blocks[i].open
                 PROVE  \E t \in Tool : MHolds(r, t) /\ r.tools[t].block = i
      BY Zenon, <2>5 DEF MOpen
    <3>1. i \in 1..Len(v.blocks) /\ v.blocks[i].open /\ i # s.curBlock
      BY <2>7
    <3>2. PICK t \in Tool : MHolds(s, t) /\ s.tools[t].block = i
      BY <3>1 DEF MGood, MOpen
    <3> QED BY Zenon, <2>5, <3>2 DEF MHolds
  <2>12. MUsed(r)
    BY Zenon, <2>5, <2>7 DEF MGood, MUsed, MHas, MCalled
  <2>13. SameWords(v.blocks, r.view.blocks)
    BY Zenon, <2>5, <2>7 DEF SameWords
  <2> QED BY Zenon, <2>3, <2>4, <2>5, <2>6, <2>7, <2>9, <2>10, <2>11, <2>12, <2>13 DEF MGood
<1> QED BY <1>1, <1>2

\* Tools are closed and stay as they are otherwise.
LEMMA MSetClosed ==
    ASSUME NEW tools \in [Tool -> Messages!ToolState], NEW T
    PROVE  /\ Messages!SetClosed(tools, T) \in [Tool -> Messages!ToolState]
           /\ \A t \in Tool :
                 LET u == Messages!SetClosed(tools, T)[t] IN
                 /\ u.seen = tools[t].seen /\ u.started = tools[t].started
                 /\ u.named = tools[t].named /\ u.block = tools[t].block
                 /\ u.pending = tools[t].pending /\ u.gate = tools[t].gate
                 /\ u.closed <=> t \in T \/ tools[t].closed
<1>1. ASSUME NEW t \in Tool, NEW u, u = Messages!SetClosed(tools, T)[t]
      PROVE  /\ u \in Messages!ToolState
             /\ u.seen = tools[t].seen /\ u.started = tools[t].started
             /\ u.named = tools[t].named /\ u.block = tools[t].block
             /\ u.pending = tools[t].pending /\ u.gate = tools[t].gate
             /\ u.closed <=> t \in T \/ tools[t].closed
  <2>1. CASE t \in T
    <3>1. u = [tools[t] EXCEPT !.closed = TRUE]
      BY <1>1, <2>1 DEF Messages!SetClosed
    <3>2. tools[t] \in Messages!ToolState
      OBVIOUS
    <3>3. u \in Messages!ToolState /\ u.closed = TRUE
      BY <3>1, <3>2 DEF Messages!ToolState
    <3>4. /\ u.seen = tools[t].seen /\ u.started = tools[t].started
          /\ u.named = tools[t].named /\ u.block = tools[t].block
          /\ u.pending = tools[t].pending /\ u.gate = tools[t].gate
      BY <3>1, <3>2 DEF Messages!ToolState
    <3> QED BY <2>1, <3>3, <3>4
  <2>2. CASE t \notin T
    <3>1. u = tools[t]
      BY <1>1, <2>2 DEF Messages!SetClosed
    <3> QED BY <2>2, <3>1
  <2> QED BY <2>1, <2>2
<1>2. Messages!SetClosed(tools, T) \in [Tool -> Messages!ToolState]
  <2>1. Messages!SetClosed(tools, T) = [t \in Tool |-> Messages!SetClosed(tools, T)[t]]
    BY DEF Messages!SetClosed
  <2> QED BY <1>1, <2>1
<1> QED BY <1>1, <1>2

\* closeTools: with no block of the state open, afterwards none is.
LEMMA MCloseToolsGood ==
    ASSUME NEW s, MGood(s), MNamed(s), ~s.blockOpen, NEW r, r = Messages!CloseTools(s)
    PROVE  /\ MGood(r) /\ ~r.blockOpen /\ MKeeps(s, r) /\ MToolsAs(s, r)
           /\ \A i \in 1..Len(r.view.blocks) : ~r.view.blocks[i].open
           /\ SameWords(s.view.blocks, r.view.blocks)
           /\ Later(s.view.blocks, r.view.blocks)
<1> DEFINE v == s.view
           waiting == {t \in Tool : s.tools[t].seen /\ ~s.tools[t].started /\ ~s.tools[t].closed}
           late == {t \in waiting : s.tools[t].named}
           d == [s EXCEPT !.tools = Messages!SetClosed(s.tools, waiting \ late)]
           open == {t \in Tool : d.tools[t].started /\ ~d.tools[t].closed}
           I == {d.tools[t].block : t \in open}
           w == Messages!Client!CloseBlocks(v, I)
<1>1. late = {}
  BY DEF MNamed
<1>2. d.view = v /\ d.tools = Messages!SetClosed(s.tools, waiting)
  BY <1>1, ZenonT(40) DEF MGood, Messages!StreamState
<1>3. r = [d EXCEPT !.view = w, !.tools = Messages!SetClosed(d.tools, open)]
  BY <1>1, <1>2, ZenonT(40) DEF Messages!CloseTools
<1> DEFINE dt == Messages!SetClosed(s.tools, waiting)
           rt == Messages!SetClosed(dt, open)
<1>4. s.tools \in [Tool -> Messages!ToolState]
  BY Zenon DEF MGood, Messages!StreamState
<1>5. /\ dt \in [Tool -> Messages!ToolState]
      /\ \A t \in Tool :
            /\ dt[t].seen = s.tools[t].seen /\ dt[t].started = s.tools[t].started
            /\ dt[t].named = s.tools[t].named /\ dt[t].block = s.tools[t].block
            /\ dt[t].pending = s.tools[t].pending /\ dt[t].gate = s.tools[t].gate
            /\ dt[t].closed <=> t \in waiting \/ s.tools[t].closed
  BY Zenon, <1>4, MSetClosed
<1>6. d.tools = dt
  BY <1>2
<1> HIDE DEF dt, d
<1>7. open = {t \in Tool : MHolds(s, t)}
  BY <1>5, <1>6 DEF MHolds
<1>8. I = {s.tools[t].block : t \in {u \in Tool : MHolds(s, u)}}
  BY <1>5, <1>6, <1>7
<1> HIDE DEF I, open, waiting
<1>9. /\ rt \in [Tool -> Messages!ToolState]
      /\ \A t \in Tool :
            /\ rt[t].seen = dt[t].seen /\ rt[t].started = dt[t].started
            /\ rt[t].named = dt[t].named /\ rt[t].block = dt[t].block
            /\ rt[t].pending = dt[t].pending /\ rt[t].gate = dt[t].gate
            /\ rt[t].closed <=> t \in open \/ dt[t].closed
  BY <1>5, MSetClosed
<1>10. I \in SUBSET {i \in 1..Len(v.blocks) : v.blocks[i].open}
  BY <1>8 DEF MGood, MTools, MHolds
<1>11. MLive(w) /\ w.blocks = Closed(v.blocks, I)
  BY <1>10, MCloseView DEF MGood
<1>12. /\ Len(w.blocks) = Len(v.blocks) /\ Len(v.blocks) \in Nat
       /\ \A i \in 1..Len(v.blocks) :
             /\ w.blocks[i].kind = v.blocks[i].kind /\ w.blocks[i].frags = v.blocks[i].frags
             /\ w.blocks[i].open = (v.blocks[i].open /\ i \notin I)
       /\ Later(v.blocks, w.blocks)
  BY <1>10, <1>11, ClosedBlocks, MViewBlocks DEF MGood, MLive
<1>13. r = [[s EXCEPT !.tools = dt] EXCEPT !.view = w, !.tools = rt]
  BY <1>1, <1>3, <1>6 DEF d, dt
<1> HIDE DEF w, rt
<1>14. /\ r.view = w /\ r.tools = rt
       /\ r.next = s.next /\ r.curBlock = s.curBlock /\ r.blockOpen = s.blockOpen
       /\ r.curKind = s.curKind
  BY Zenon, <1>13 DEF MGood, Messages!StreamState
<1>15. MKeeps(s, r)
  BY Zenon, <1>13 DEF MGood, Messages!StreamState, MKeeps
<1>16. r \in Messages!StreamState
  <2>1. w \in Messages!Client!View
    BY <1>11 DEF MLive
  <2> QED BY Zenon, <1>9, <1>13, <2>1 DEF MGood, Messages!StreamState
<1>17. MToolsAs(s, r)
  <2>1. ASSUME NEW t \in Tool
        PROVE  /\ rt[t].started = s.tools[t].started /\ rt[t].named = s.tools[t].named
               /\ rt[t].block = s.tools[t].block /\ rt[t].pending = s.tools[t].pending
               /\ rt[t].gate = s.tools[t].gate /\ rt[t].seen = s.tools[t].seen
    BY <1>5, <1>9
  <2> QED BY Zenon, <1>14, <2>1 DEF MToolsAs
<1>18. \A t \in Tool : ~MHolds(r, t)
  <2> SUFFICES ASSUME NEW t \in Tool, rt[t].started, ~rt[t].closed PROVE FALSE
    BY Zenon, <1>14 DEF MHolds
  <2>1. s.tools[t].started /\ ~s.tools[t].closed
    BY <1>5, <1>9
  <2>2. t \notin open
    BY <1>9
  <2> QED BY <1>7, <2>1, <2>2 DEF MHolds
<1>19. \A i \in 1..Len(w.blocks) : ~w.blocks[i].open
  <2> SUFFICES ASSUME NEW i \in 1..Len(v.blocks), v.blocks[i].open, i \notin I PROVE FALSE
    BY <1>12
  <2> QED BY <1>8 DEF MGood, MOpen
<1>20. MCurrent(r)
  BY Zenon, <1>12, <1>14 DEF MGood, MCurrent
<1>21. MTools(r)
  BY <1>12, <1>14, <1>17, <1>18, MAsStarted, MToolsKept DEF MGood
<1>22. MOpen(r)
  BY <1>14, <1>19 DEF MOpen
<1>23. MUsed(r)
  BY Zenon, <1>12, <1>14, <1>17 DEF MGood, MUsed, MHas, MCalled, MToolsAs
<1>24. SameWords(v.blocks, r.view.blocks)
  BY <1>12, <1>14 DEF SameWords
<1> QED BY <1>11, <1>12, <1>14, <1>15, <1>16, <1>17, <1>19, <1>20, <1>21, <1>22, <1>23, <1>24
        DEF MGood

\* A state of which only the things around the events are new.
LEMMA MGoodAs ==
    ASSUME NEW s, MGood(s), NEW r \in Messages!StreamState,
           r.view = s.view, r.next = s.next, r.blockOpen = s.blockOpen,
           r.curKind = s.curKind, r.curBlock = s.curBlock,
           \A t \in Tool :
              /\ s.tools[t].named => r.tools[t].named
              /\ r.tools[t].started = s.tools[t].started
              /\ r.tools[t].closed = s.tools[t].closed
              /\ r.tools[t].block = s.tools[t].block
              /\ s.tools[t].started => r.tools[t].pending = s.tools[t].pending
    PROVE  MGood(r)
<1>1. MLive(r.view) /\ MCurrent(r)
  BY ZenonT(60) DEF MGood, MCurrent
<1>5. MUsed(r)
  BY Zenon DEF MGood, MUsed, MHas, MCalled
<1>2. \A t \in Tool : MHolds(r, t) <=> MHolds(s, t)
  BY Zenon DEF MHolds
<1>3. MOpen(r)
  BY <1>2 DEF MGood, MOpen
<1>4. MTools(r)
  <2>1. MTools(s) /\ Len(s.view.blocks) \in Nat
    BY MViewBlocks DEF MGood, MLive
  <2>2. MStarted(s, r)
    BY Zenon DEF MStarted
  <2>3. \A t \in Tool : MHolds(r, t) => r.view.blocks[s.tools[t].block].open
    BY <1>2, <2>1 DEF MTools
  <2>4. /\ Len(r.view.blocks) \in Nat /\ Len(s.view.blocks) <= Len(r.view.blocks)
        /\ \A i \in 1..Len(s.view.blocks) : r.view.blocks[i].kind = s.view.blocks[i].kind
    BY <2>1
  <2> QED BY <2>1, <2>2, <2>3, <2>4, MToolsKept
<1> QED BY <1>1, <1>3, <1>4, <1>5 DEF MGood

\* Another view changes nothing of the tools and the block of the state.
LEMMA MWithView ==
    ASSUME NEW s \in Messages!StreamState, NEW w \in Messages!Client!View,
           NEW r, r = [s EXCEPT !.view = w]
    PROVE  /\ r \in Messages!StreamState
           /\ r.view = w /\ MKeeps(s, r) /\ r.tools = s.tools
           /\ r.next = s.next /\ r.blockOpen = s.blockOpen
           /\ r.curKind = s.curKind /\ r.curBlock = s.curBlock
<1>1. r \in Messages!StreamState
  BY Zenon DEF Messages!StreamState
<1>2. r.view = w /\ MKeeps(s, r)
  BY Zenon DEF Messages!StreamState, MKeeps
<1>3. /\ r.tools = s.tools /\ r.next = s.next /\ r.blockOpen = s.blockOpen
      /\ r.curKind = s.curKind /\ r.curBlock = s.curBlock
  BY Zenon DEF Messages!StreamState
<1> QED BY <1>1, <1>2, <1>3

\* A delta for an open block keeps the state good.
LEMMA MEmitDeltaGood ==
    ASSUME NEW s, MGood(s), NEW i \in 1..Len(s.view.blocks), s.view.blocks[i].open,
           NEW fs \in Seq(Nat), NEW r, r = Messages!EmitDelta(s, i, fs)
    PROVE  /\ MGood(r) /\ MKeeps(s, r) /\ r.tools = s.tools
           /\ r.next = s.next /\ r.blockOpen = s.blockOpen
           /\ r.curKind = s.curKind /\ r.curBlock = s.curBlock
           /\ r.view.blocks = Fed(s.view.blocks, i, fs)
<1>1. s.view.blocks \in Blocks(Messages!MessageKind) /\ Len(s.view.blocks) \in Nat
  BY MViewBlocks DEF MGood, MLive
<1>2. CASE fs = <<>>
  <2>1. r = s
    BY <1>2 DEF Messages!EmitDelta
  <2>2. Fed(s.view.blocks, i, fs) = s.view.blocks
    BY <1>1, <1>2, FedNothing
  <2> QED BY <2>1, <2>2 DEF MKeeps
<1>3. CASE fs # <<>>
  <2> DEFINE v == s.view
             w == Messages!Client!Delta(v, i, fs)
  <2>1. r = [s EXCEPT !.view = w]
    BY <1>3 DEF Messages!EmitDelta
  <2>2. MLive(w) /\ w.blocks = Fed(v.blocks, i, fs)
    BY MDeltaView DEF MGood
  <2> HIDE DEF w
  <2>3. /\ r \in Messages!StreamState
        /\ r.view = w /\ MKeeps(s, r) /\ r.tools = s.tools
        /\ r.next = s.next /\ r.blockOpen = s.blockOpen
        /\ r.curKind = s.curKind /\ r.curBlock = s.curBlock
    BY <2>1, <2>2, MWithView DEF MGood, MLive
  <2>4. /\ Len(w.blocks) = Len(v.blocks)
        /\ \A j \in 1..Len(v.blocks) :
              w.blocks[j].kind = v.blocks[j].kind /\ w.blocks[j].open = v.blocks[j].open
    <3>1. /\ Len(w.blocks) = Len(v.blocks)
          /\ \A j \in 1..Len(v.blocks) : j # i => w.blocks[j] = v.blocks[j]
          /\ w.blocks[i].kind = v.blocks[i].kind /\ w.blocks[i].open
      BY <1>1, <2>2, FedBlocks
    <3>2. w.blocks[i].open \in BOOLEAN /\ v.blocks[i].open \in BOOLEAN
      <4>1. w.blocks \in Blocks(Messages!MessageKind)
        BY <2>2, MViewBlocks DEF MLive
      <4> QED BY <1>1, <3>1, <4>1, BlockType
    <3> QED BY <3>1, <3>2
  <2>5. MCurrent(r)
    BY ZenonT(60), <1>1, <2>3, <2>4 DEF MGood, MCurrent
  <2>6. \A t \in Tool : MHolds(r, t) <=> MHolds(s, t)
    BY <2>3 DEF MHolds
  <2>7. MTools(r)
    <3>1. MStarted(s, r)
      BY <2>3 DEF MStarted
    <3>2. ASSUME NEW t \in Tool, MHolds(r, t)
          PROVE  r.view.blocks[s.tools[t].block].open
      <4>1. s.tools[t].block \in 1..Len(v.blocks) /\ v.blocks[s.tools[t].block].open
        BY <2>6, <3>2 DEF MGood, MTools, MHolds
      <4> QED BY <2>3, <2>4, <4>1
    <3>3. /\ Len(r.view.blocks) \in Nat /\ Len(s.view.blocks) <= Len(r.view.blocks)
          /\ \A j \in 1..Len(s.view.blocks) : r.view.blocks[j].kind = s.view.blocks[j].kind
      BY <1>1, <2>3, <2>4
    <3>4. MTools(s)
      BY DEF MGood
    <3> QED BY <1>1, <3>1, <3>2, <3>3, <3>4, MToolsKept
  <2>8. MOpen(r)
    BY <1>1, <2>3, <2>4, <2>6, ZenonT(40) DEF MGood, MOpen
  <2>9. MUsed(r)
    BY Zenon, <2>3, <2>4 DEF MGood, MUsed, MHas, MCalled
  <2> QED BY <2>2, <2>3, <2>5, <2>7, <2>8, <2>9 DEF MGood
<1> QED BY <1>2, <1>3

\* openBlock: a block of text or thinking becomes the block of the state.
LEMMA MOpenBlockGood ==
    ASSUME NEW s, MGood(s), ~s.blockOpen,
           \A i \in 1..Len(s.view.blocks) : ~s.view.blocks[i].open,
           NEW kind \in {"thinking", "text"}, NEW r, r = Messages!OpenBlock(s, kind)
    PROVE  /\ MGood(r) /\ MKeeps(s, r) /\ r.tools = s.tools
           /\ r.blockOpen /\ r.curKind = kind /\ r.curBlock = Len(s.view.blocks) + 1
           /\ r.view.blocks = Append(s.view.blocks, NewBlock(kind))
<1> DEFINE v == s.view
           w == Messages!Client!OpenBlock(v, s.next, kind)
<1>1. v.blocks \in Blocks(Messages!MessageKind) /\ Len(v.blocks) \in Nat
  BY MViewBlocks DEF MGood, MLive
<1>2. s.next = Len(v.blocks) + 1 /\ s \in Messages!StreamState
  BY Zenon DEF MGood, MCurrent
<1>3. kind \in Messages!MessageKind
  BY DEF Messages!MessageKind
<1>4. MLive(w) /\ w.blocks = Append(v.blocks, NewBlock(kind))
  BY <1>2, <1>3, MOpenView DEF MGood
<1>5. r = [s EXCEPT !.view = w, !.curBlock = s.next, !.next = s.next + 1,
                    !.blockOpen = TRUE, !.curKind = kind]
  BY DEF Messages!OpenBlock
<1> HIDE DEF w
<1>6. r \in Messages!StreamState
  <2>1. w \in Messages!Client!View /\ s.next \in Nat /\ s.next + 1 \in Nat
    BY <1>1, <1>2, <1>4 DEF MLive
  <2>2. kind \in {"", "thinking", "text"}
    OBVIOUS
  <2> QED BY Zenon, <1>2, <1>5, <2>1, <2>2 DEF Messages!StreamState
<1>7. /\ r.view = w /\ r.tools = s.tools /\ r.blockOpen = TRUE /\ r.curKind = kind
      /\ r.curBlock = s.next /\ r.next = s.next + 1
  BY Zenon, <1>2, <1>5 DEF Messages!StreamState
<1>8. MKeeps(s, r)
  BY Zenon, <1>2, <1>5 DEF Messages!StreamState, MKeeps
<1>9. /\ Len(w.blocks) = Len(v.blocks) + 1
      /\ \A j \in 1..Len(v.blocks) : w.blocks[j] = v.blocks[j]
      /\ w.blocks[Len(v.blocks) + 1] = NewBlock(kind)
  BY <1>1, <1>3, <1>4, OpenedBlocks
<1>10. MCurrent(r)
  <2>1. w.blocks[r.curBlock].open /\ w.blocks[r.curBlock].kind = kind
    BY <1>2, <1>7, <1>9 DEF NewBlock
  <2>2. r.curBlock = Len(w.blocks) /\ r.curBlock \in 1..Len(w.blocks) /\ r.next = Len(w.blocks) + 1
    BY <1>1, <1>2, <1>7, <1>9
  <2> QED BY Zenon, <1>7, <2>1, <2>2 DEF MCurrent
<1>11. \A t \in Tool : ~MHolds(r, t)
  BY Zenon, <1>7 DEF MGood, MTools, MHolds
<1>12. MTools(r)
  <2>1. MStarted(s, r)
    BY <1>7 DEF MStarted
  <2>2. /\ Len(r.view.blocks) \in Nat /\ Len(s.view.blocks) <= Len(r.view.blocks)
        /\ \A j \in 1..Len(s.view.blocks) : r.view.blocks[j].kind = s.view.blocks[j].kind
    BY <1>1, <1>7, <1>9
  <2>3. MTools(s)
    BY DEF MGood
  <2> QED BY <1>1, <1>11, <2>1, <2>2, <2>3, MToolsKept
<1>13. MOpen(r)
  BY <1>1, <1>2, <1>7, <1>9, SMTT(20) DEF MOpen
<1>14. MUsed(r)
  <2> SUFFICES ASSUME NEW i \in 1..Len(w.blocks), w.blocks[i].kind = "tool_use"
               PROVE  MCalled(s)
    BY Zenon, <1>7 DEF MUsed, MHas, MCalled
  <2>1. i \in 1..Len(v.blocks) \/ i = Len(v.blocks) + 1
    BY <1>1, <1>9
  <2>2. CASE i \in 1..Len(v.blocks)
    BY <1>9, <2>2 DEF MGood, MUsed, MHas
  <2>3. CASE i = Len(v.blocks) + 1
    BY <1>9, <2>3 DEF NewBlock
  <2> QED BY <2>1, <2>2, <2>3
<1> QED BY <1>2, <1>4, <1>6, <1>7, <1>8, <1>10, <1>12, <1>13, <1>14 DEF MGood

----------------------------------------------------------------------------
(* What is emitted into a block of the state *)

\* What the methods do that emit text or reasoning: tools keep what they have got.
MEmits(s, r) ==
    /\ MGood(r) /\ MNamed(r) /\ MKeeps(s, r) /\ MToolsAs(s, r)
    /\ Later(s.view.blocks, r.view.blocks)
    /\ Spares(s.view.blocks, r.view.blocks, "tool_use")

\* Closing tools names none.
LEMMA MNamedAs ==
    ASSUME NEW s, NEW r, MNamed(s), MToolsAs(s, r)
    PROVE  MNamed(r)
BY DEF MNamed, MToolsAs

\* To emit nothing is to emit.
LEMMA MEmitsNothing ==
    ASSUME NEW s, MGood(s), MNamed(s)
    PROVE  MEmits(s, s)
<1>1. s.view.blocks \in Blocks(Messages!MessageKind)
  BY MViewBlocks DEF MGood, MLive
<1>2. Later(s.view.blocks, s.view.blocks)
  BY <1>1, LaterReflexive
<1>3. Spares(s.view.blocks, s.view.blocks, "tool_use")
  BY DEF Spares
<1> QED BY <1>2, <1>3 DEF MEmits, MKeeps, MToolsAs

\* To emit twice is to emit.
LEMMA MEmitsTransitive ==
    ASSUME NEW s, NEW r, NEW q, MGood(s), MEmits(s, r), MEmits(r, q)
    PROVE  MEmits(s, q)
<1>1. /\ s.view.blocks \in Blocks(Messages!MessageKind)
      /\ r.view.blocks \in Blocks(Messages!MessageKind)
      /\ q.view.blocks \in Blocks(Messages!MessageKind)
  BY MViewBlocks DEF MGood, MLive, MEmits
<1>2. Later(s.view.blocks, q.view.blocks)
  BY <1>1, LaterTransitive DEF MEmits
<1>3. Spares(s.view.blocks, q.view.blocks, "tool_use")
  BY SpareTransitive DEF MEmits
<1>4. MKeeps(s, q)
  BY DEF MEmits, MKeeps
<1>5. MToolsAs(s, q)
  BY ZenonT(40) DEF MEmits, MToolsAs
<1> QED BY <1>2, <1>3, <1>4, <1>5 DEF MEmits

\* Text and thinking are said in a block of their kind, the current one or a new one.
LEMMA MEmitIntoGood ==
    ASSUME NEW s, MGood(s), MNamed(s), NEW kind \in {"thinking", "text"}, NEW fs \in Seq(Nat),
           NEW r, r = Messages!EmitInto(s, kind, fs)
    PROVE  MEmits(s, r) /\ Says(s.view.blocks, r.view.blocks, kind, fs)
<1>1. s.view.blocks \in Blocks(Messages!MessageKind) /\ Len(s.view.blocks) \in Nat
  BY MViewBlocks DEF MGood, MLive
<1>2. SUFFICES /\ MGood(r) /\ MNamed(r) /\ MKeeps(s, r) /\ MToolsAs(s, r)
               /\ Later(s.view.blocks, r.view.blocks)
               /\ Says(s.view.blocks, r.view.blocks, kind, fs)
  <2>1. kind # "tool_use"
    OBVIOUS
  <2> QED BY <1>1, <1>2, <2>1, SaysSpares DEF MEmits
<1>3. CASE s.curKind = kind
  <2>1. r = Messages!EmitDelta(s, s.curBlock, fs)
    BY <1>3 DEF Messages!EmitInto
  <2>2. s.curKind # ""
    BY Zenon, <1>3
  <2>3. /\ s.curBlock \in 1..Len(s.view.blocks) /\ s.curBlock = Len(s.view.blocks)
        /\ s.view.blocks[s.curBlock].open /\ s.view.blocks[s.curBlock].kind = kind
    BY Zenon, <1>3, <2>2 DEF MGood, MCurrent
  <2>4. /\ MGood(r) /\ MKeeps(s, r) /\ r.tools = s.tools
        /\ r.view.blocks = Fed(s.view.blocks, s.curBlock, fs)
    BY <2>1, <2>3, MEmitDeltaGood
  <2>5. Later(s.view.blocks, r.view.blocks)
    BY <1>1, <2>3, <2>4, FedBlocks
  <2>6. Says(s.view.blocks, r.view.blocks, kind, fs)
    BY <1>1, <2>3, <2>4, SaysLast
  <2>7. MToolsAs(s, r)
    BY <2>4 DEF MToolsAs
  <2>8. MNamed(r)
    BY <2>7, MNamedAs
  <2> QED BY <2>4, <2>5, <2>6, <2>7, <2>8
<1>4. CASE s.curKind # kind
  <2> DEFINE c == Messages!CloseBlock(s)
             d == Messages!CloseTools(c)
             o == Messages!OpenBlock(d, kind)
  <2>1. r = Messages!EmitDelta(o, o.curBlock, fs)
    BY <1>4 DEF Messages!EmitInto
  <2>2. /\ MGood(c) /\ ~c.blockOpen /\ MKeeps(s, c) /\ c.tools = s.tools
        /\ SameWords(s.view.blocks, c.view.blocks)
        /\ Later(s.view.blocks, c.view.blocks)
    BY MCloseBlockGood
  <2> HIDE DEF c
  <2>3. MNamed(c)
    BY <2>2 DEF MNamed
  <2>4. /\ MGood(d) /\ ~d.blockOpen /\ MKeeps(c, d) /\ MToolsAs(c, d)
        /\ \A i \in 1..Len(d.view.blocks) : ~d.view.blocks[i].open
        /\ SameWords(c.view.blocks, d.view.blocks)
        /\ Later(c.view.blocks, d.view.blocks)
    BY <2>2, <2>3, MCloseToolsGood
  <2> HIDE DEF d
  <2>5. /\ MGood(o) /\ MKeeps(d, o) /\ o.tools = d.tools
        /\ o.curBlock = Len(d.view.blocks) + 1
        /\ o.view.blocks = Append(d.view.blocks, NewBlock(kind))
    BY <2>4, MOpenBlockGood
  <2> HIDE DEF o
  <2>6. /\ c.view.blocks \in Blocks(Messages!MessageKind)
        /\ d.view.blocks \in Blocks(Messages!MessageKind) /\ Len(d.view.blocks) \in Nat
        /\ o.view.blocks \in Blocks(Messages!MessageKind)
    BY <2>2, <2>4, <2>5, MViewBlocks DEF MGood, MLive
  <2>7. kind \in Messages!MessageKind
    BY DEF Messages!MessageKind
  <2>8. /\ Len(o.view.blocks) = Len(d.view.blocks) + 1
        /\ o.view.blocks[Len(d.view.blocks) + 1] = NewBlock(kind)
        /\ Later(d.view.blocks, o.view.blocks)
    BY <2>5, <2>6, <2>7, OpenedBlocks
  <2>9. o.curBlock \in 1..Len(o.view.blocks) /\ o.view.blocks[o.curBlock].open
    BY <2>5, <2>6, <2>8 DEF NewBlock
  <2>10. /\ MGood(r) /\ MKeeps(o, r) /\ r.tools = o.tools
         /\ r.view.blocks = Fed(o.view.blocks, o.curBlock, fs)
    <3> DEFINE i == o.curBlock
    <3>1. MGood(o) /\ i \in 1..Len(o.view.blocks) /\ o.view.blocks[i].open
      BY <2>5, <2>9
    <3>2. r = Messages!EmitDelta(o, i, fs)
      BY <2>1
    <3> HIDE DEF i
    <3>3. /\ MGood(r) /\ MKeeps(o, r) /\ r.tools = o.tools
          /\ r.view.blocks = Fed(o.view.blocks, i, fs)
      BY <3>1, <3>2, MEmitDeltaGood
    <3> QED BY <3>3 DEF i
  <2>11. r.view.blocks \in Blocks(Messages!MessageKind)
    BY <2>10, MViewBlocks DEF MGood, MLive
  <2>12. Later(o.view.blocks, r.view.blocks)
    BY <2>6, <2>9, <2>10, FedBlocks
  <2>13. Later(s.view.blocks, r.view.blocks)
    <3>1. Later(s.view.blocks, d.view.blocks)
      BY <1>1, <2>2, <2>4, <2>6, LaterTransitive
    <3>2. Later(s.view.blocks, o.view.blocks)
      BY <1>1, <2>6, <2>8, <3>1, LaterTransitive
    <3> QED BY <1>1, <2>6, <2>11, <2>12, <3>2, LaterTransitive
  <2>14. SameWords(s.view.blocks, d.view.blocks)
    BY <1>1, <2>2, <2>4 DEF SameWords
  <2>15. Says(s.view.blocks, r.view.blocks, kind, fs)
    BY <1>1, <2>5, <2>6, <2>7, <2>10, <2>14, SaysNew
  <2>16. MKeeps(s, r)
    BY <2>2, <2>4, <2>5, <2>10 DEF MKeeps
  <2>17. MToolsAs(s, r)
    BY <2>2, <2>4, <2>5, <2>10, ZenonT(40) DEF MToolsAs
  <2>18. MNamed(r)
    BY <2>17, MNamedAs
  <2> QED BY <2>10, <2>13, <2>15, <2>16, <2>17, <2>18
<1> QED BY <1>3, <1>4

\* emitReasoning says no text.
LEMMA MEmitReasoningGood ==
    ASSUME NEW s, MGood(s), MNamed(s), NEW fs \in Seq(Nat),
           NEW r, r = Messages!EmitReasoning(s, fs)
    PROVE  MEmits(s, r) /\ Spares(s.view.blocks, r.view.blocks, "text")
<1>1. CASE fs = <<>>
  <2>1. r = s
    BY <1>1 DEF Messages!EmitReasoning
  <2> QED BY <2>1, MEmitsNothing DEF Spares
<1>2. CASE fs # <<>>
  <2>1. r = Messages!EmitInto(s, "thinking", fs)
    BY <1>2 DEF Messages!EmitReasoning
  <2>2. MEmits(s, r) /\ Says(s.view.blocks, r.view.blocks, "thinking", fs)
    BY <2>1, MEmitIntoGood
  <2>3. Len(s.view.blocks) \in Nat
    BY MViewBlocks DEF MGood, MLive
  <2> QED BY <2>2, <2>3, SaysSpares
<1> QED BY <1>1, <1>2

\* emitText keeps the text rising when what it emits follows the text before.
LEMMA MEmitTextGood ==
    ASSUME NEW s, MGood(s), MNamed(s), NEW m \in Nat, NEW o \in Nat, m <= o,
           Rising(s.view.blocks, "text", m),
           NEW fs \in Seq(Nat), Follow(s.view.blocks, "text", o, fs),
           NEW r, r = Messages!EmitText(s, fs)
    PROVE  MEmits(s, r) /\ Rising(r.view.blocks, "text", o)
<1>1. s.view.blocks \in Blocks(Messages!MessageKind)
  BY MViewBlocks DEF MGood, MLive
<1>2. CASE fs = <<>>
  <2>1. r = s
    BY <1>2 DEF Messages!EmitText
  <2>2. Spares(s.view.blocks, s.view.blocks, "text")
    BY DEF Spares
  <2>3. Rising(s.view.blocks, "text", o)
    BY <1>1, <2>2, RisingSpared
  <2> QED BY <2>1, <2>3, MEmitsNothing
<1>3. CASE fs # <<>>
  <2>1. r = Messages!EmitInto(s, "text", fs)
    BY <1>3 DEF Messages!EmitText
  <2>2. MEmits(s, r) /\ Says(s.view.blocks, r.view.blocks, "text", fs)
    BY <2>1, MEmitIntoGood
  <2>3. r.view.blocks \in Blocks(Messages!MessageKind)
    BY <2>2, MViewBlocks DEF MEmits, MGood, MLive
  <2> QED BY <1>1, <2>2, <2>3, RisingOn
<1> QED BY <1>2, <1>3

----------------------------------------------------------------------------
(* What a tool has got *)

\* The arguments in the block of the tool, and those that wait for it to be named.
MGot(s, t) ==
    (IF s.tools[t].started THEN s.view.blocks[s.tools[t].block].frags ELSE <<>>)
      \o s.tools[t].pending

\* What the proofs need of the types of a tool.
LEMMA MToolTypes ==
    ASSUME NEW s, MGood(s), NEW t \in Tool
    PROVE  /\ s.tools[t] \in Messages!ToolState
           /\ s.tools[t].started \in BOOLEAN /\ s.tools[t].closed \in BOOLEAN
           /\ s.tools[t].named \in BOOLEAN /\ s.tools[t].seen \in BOOLEAN
           /\ s.tools[t].block \in Nat /\ s.tools[t].pending \in Seq(Nat)
           /\ s.tools[t].gate \in Messages!Gate
           /\ s.tools[t].started => s.view.blocks[s.tools[t].block].frags \in Seq(Nat)
           /\ MGot(s, t) \in Seq(Nat)
<1>1. s.tools[t] \in Messages!ToolState
  BY Zenon DEF MGood, Messages!StreamState
<1>2. /\ s.tools[t].started \in BOOLEAN /\ s.tools[t].closed \in BOOLEAN
      /\ s.tools[t].named \in BOOLEAN /\ s.tools[t].seen \in BOOLEAN
      /\ s.tools[t].block \in Nat /\ s.tools[t].pending \in Seq(Nat)
      /\ s.tools[t].gate \in Messages!Gate
  <2> DEFINE u == s.tools[t]
  <2>1. u \in Messages!ToolState
    BY <1>1
  <2> HIDE DEF u
  <2>2. u.started \in BOOLEAN /\ u.closed \in BOOLEAN /\ u.named \in BOOLEAN /\ u.seen \in BOOLEAN
    BY <2>1 DEF Messages!ToolState
  <2>3. u.block \in Nat
    BY <2>1 DEF Messages!ToolState
  <2>4. u.pending \in Seq(Nat)
    BY <2>1 DEF Messages!ToolState
  <2>5. u.gate \in Messages!Gate
    BY <2>1 DEF Messages!ToolState
  <2> QED BY <2>2, <2>3, <2>4, <2>5 DEF u
<1>3. ASSUME s.tools[t].started
      PROVE  s.view.blocks[s.tools[t].block].frags \in Seq(Nat)
  <2>1. s.tools[t].block \in 1..Len(s.view.blocks)
    BY <1>3 DEF MGood, MTools
  <2>2. s.view.blocks \in Blocks(Messages!MessageKind)
    BY MViewBlocks DEF MGood, MLive
  <2> QED BY <2>1, <2>2, BlockType
<1>4. MGot(s, t) \in Seq(Nat)
  <2>1. CASE s.tools[t].started
    <3>1. MGot(s, t) = s.view.blocks[s.tools[t].block].frags \o s.tools[t].pending
      BY <2>1, Zenon DEF MGot
    <3>2. s.view.blocks[s.tools[t].block].frags \in Seq(Nat)
      BY <1>3, <2>1
    <3> QED BY <1>2, <3>1, <3>2, ConcatProperties, ZenonT(40)
  <2>2. CASE ~s.tools[t].started
    <3>1. MGot(s, t) = <<>> \o s.tools[t].pending
      BY <2>2 DEF MGot
    <3> QED BY <1>2, <3>1, ConcatEmptySeq
  <2> QED BY <2>1, <2>2, Zenon
<1> QED BY <1>1, <1>2, <1>3, <1>4

\* Text and thinking give nothing to a tool.
LEMMA MGotKept ==
    ASSUME NEW s, MGood(s), NEW r, MEmits(s, r), NEW t \in Tool
    PROVE  MGot(r, t) = MGot(s, t)
<1>1. /\ r.tools[t].started = s.tools[t].started /\ r.tools[t].block = s.tools[t].block
      /\ r.tools[t].pending = s.tools[t].pending
  BY DEF MEmits, MToolsAs
<1>2. CASE s.tools[t].started
  <2>1. r.tools[t].started
    BY <1>1, <1>2, Zenon
  <2>2. /\ r.tools[t].block \in 1..Len(r.view.blocks)
        /\ r.view.blocks[r.tools[t].block].kind = "tool_use"
    BY <2>1 DEF MEmits, MGood, MTools
  <2>3. r.view.blocks[r.tools[t].block].frags = s.view.blocks[r.tools[t].block].frags
    BY <2>2 DEF MEmits, Spares
  <2> QED BY <1>1, <1>2, <2>1, <2>3 DEF MGot
<1>3. CASE ~s.tools[t].started
  <2>1. ~r.tools[t].started
    BY <1>1, <1>3
  <2> QED BY <1>1, <1>3, <2>1 DEF MGot
<1>4. s.tools[t].started \in BOOLEAN
  BY MToolTypes, Zenon
<1> QED BY <1>2, <1>3, <1>4

\* A delta for the open block of a tool.
LEMMA MFedGot ==
    ASSUME NEW s, MGood(s), NEW t \in Tool, MHolds(s, t), NEW fs \in Seq(Nat),
           NEW r, r = Messages!EmitDelta(s, s.tools[t].block, fs)
    PROVE  /\ MGood(r) /\ MKeeps(s, r) /\ r.tools = s.tools
           /\ Later(s.view.blocks, r.view.blocks)
           /\ Spares(s.view.blocks, r.view.blocks, "text")
           /\ MGot(r, t) = MGot(s, t) \o fs
           /\ \A u \in Tool : u # t => MGot(r, u) = MGot(s, u)
<1> DEFINE i == s.tools[t].block
           b == s.view.blocks
           c == r.view.blocks
<1>1. s.tools[t].started
  BY DEF MHolds
<1>2. i \in 1..Len(b) /\ b[i].open /\ b[i].kind = "tool_use"
  <2>1. i \in 1..Len(b) /\ b[i].kind = "tool_use"
    BY <1>1 DEF MGood, MTools
  <2>2. b[i].open
    BY DEF MGood, MTools
  <2> QED BY <2>1, <2>2
<1>3. b \in Blocks(Messages!MessageKind) /\ Len(b) \in Nat
  BY MViewBlocks DEF MGood, MLive
<1>4. MGood(r) /\ MKeeps(s, r) /\ r.tools = s.tools /\ c = Fed(b, i, fs)
  BY <1>2, MEmitDeltaGood
<1> HIDE DEF c
<1>5. /\ Len(c) = Len(b) /\ \A j \in 1..Len(b) : j # i => c[j] = b[j]
      /\ c[i].kind = b[i].kind /\ c[i].frags = b[i].frags \o fs /\ Later(b, c)
  <2> HIDE DEF i, b
  <2>1. b[i].open
    BY <1>2
  <2>2. /\ Len(Fed(b, i, fs)) = Len(b)
        /\ \A j \in 1..Len(b) : j # i => Fed(b, i, fs)[j] = b[j]
        /\ Fed(b, i, fs)[i].kind = b[i].kind
        /\ Fed(b, i, fs)[i].frags = b[i].frags \o fs
        /\ Later(b, Fed(b, i, fs))
    BY <1>2, <1>3, <2>1, FedBlocks, SMTT(20)
  <2> QED BY <1>4, <2>2
<1>6. Spares(b, c, "text")
  BY <1>2, <1>5, ZenonT(40) DEF Spares
<1>7. MGot(r, t) = MGot(s, t) \o fs
  <2>1. s.tools[t].pending = <<>>
    BY <1>1 DEF MGood, MTools
  <2>2. b[i].frags \in Seq(Nat)
    BY <1>2, <1>3, BlockType, ZenonT(40)
  <2>3. MGot(s, t) = b[i].frags \o <<>> /\ MGot(r, t) = (b[i].frags \o fs) \o <<>>
    BY <1>1, <1>4, <1>5, <2>1, Zenon DEF MGot, c
  <2>4. b[i].frags \o fs \in Seq(Nat)
    BY <2>2, ConcatProperties
  <2>5. b[i].frags \o <<>> = b[i].frags
    BY <2>2, ConcatEmptySeq
  <2>6. (b[i].frags \o fs) \o <<>> = b[i].frags \o fs
    BY <2>4, ConcatEmptySeq
  <2> QED BY <2>3, <2>5, <2>6, Zenon
<1>8. ASSUME NEW u \in Tool, u # t
      PROVE  MGot(r, u) = MGot(s, u)
  <2>1. CASE s.tools[u].started
    <3>1. s.tools[u].block \in 1..Len(b) /\ s.tools[u].block # i
      BY <1>1, <1>8, <2>1, Zenon DEF MGood, MTools
    <3>2. c[s.tools[u].block] = b[s.tools[u].block]
      BY <1>5, <3>1, Zenon
    <3> QED BY <1>4, <3>2 DEF MGot, c
  <2>2. CASE ~s.tools[u].started
    BY <1>4, <2>2 DEF MGot
  <2> QED BY <2>1, <2>2
<1> QED BY <1>4, <1>5, <1>6, <1>7, <1>8, Zenon DEF c

\* startToolBlock: the tool gets a block of its own with what waited for its name.
LEMMA MStartToolGood ==
    ASSUME NEW s, MGood(s), NEW t \in Tool, ~s.tools[t].started, ~s.tools[t].closed, s.tools[t].named,
           NEW r, r = Messages!StartToolBlock(s, t)
    PROVE  /\ MGood(r) /\ MKeeps(s, r) /\ MHolds(r, t)
           /\ r.tools[t].named /\ r.tools[t].gate = s.tools[t].gate
           /\ \A u \in Tool : u # t => r.tools[u] = s.tools[u]
           /\ Later(s.view.blocks, r.view.blocks)
           /\ Spares(s.view.blocks, r.view.blocks, "text")
           /\ \A u \in Tool : MGot(r, u) = MGot(s, u)
<1> DEFINE c == Messages!CloseBlock(s)
           w == Messages!Client!OpenBlock(c.view, c.next, "tool_use")
           nt == [c.tools[t] EXCEPT !.block = c.next, !.started = TRUE, !.pending = <<>>]
           ts == [c.tools EXCEPT ![t] = nt]
           o == [c EXCEPT !.view = w, !.tools = ts, !.next = c.next + 1]
           args == s.tools[t].pending
<1>1. /\ MGood(c) /\ ~c.blockOpen /\ MKeeps(s, c) /\ c.tools = s.tools
      /\ SameWords(s.view.blocks, c.view.blocks)
      /\ Later(s.view.blocks, c.view.blocks)
  BY MCloseBlockGood
<1>2. r = Messages!EmitDelta(o, c.next, c.tools[t].pending)
  <2>1. c \in Messages!StreamState /\ c.tools \in [Tool -> Messages!ToolState]
    BY Zenon, <1>1 DEF MGood, Messages!StreamState
  <2>2. [c EXCEPT !.view = w,
                  !.tools[t].block = c.next,
                  !.tools[t].started = TRUE,
                  !.tools[t].pending = <<>>,
                  !.next = c.next + 1]
          = [c EXCEPT !.view = w,
                      !.tools = [c.tools EXCEPT ![t].block = c.next,
                                                ![t].started = TRUE,
                                                ![t].pending = <<>>],
                      !.next = c.next + 1]
    BY <2>1, ZenonT(40) DEF Messages!StreamState
  <2>3. [c.tools EXCEPT ![t].block = c.next, ![t].started = TRUE, ![t].pending = <<>>] = ts
    BY <2>1
  <2>4. [c EXCEPT !.view = w,
                  !.tools[t].block = c.next,
                  !.tools[t].started = TRUE,
                  !.tools[t].pending = <<>>,
                  !.next = c.next + 1] = o
    BY <2>2, <2>3
  <2> HIDE DEF o
  <2> QED BY <2>4 DEF Messages!StartToolBlock
<1> HIDE DEF c
<1>3. /\ c.view.blocks \in Blocks(Messages!MessageKind) /\ Len(c.view.blocks) \in Nat
      /\ s.view.blocks \in Blocks(Messages!MessageKind) /\ Len(s.view.blocks) \in Nat
      /\ Len(c.view.blocks) = Len(s.view.blocks)
  BY <1>1, MViewBlocks DEF MGood, MLive, SameWords
<1>4. c.next = Len(c.view.blocks) + 1 /\ c \in Messages!StreamState
  BY <1>1, Zenon DEF MGood, MCurrent
<1>5. ASSUME NEW i \in 1..Len(c.view.blocks), c.view.blocks[i].open
      PROVE  c.view.blocks[i].kind = "tool_use"
  <2>1. PICK u \in Tool : MHolds(c, u) /\ c.tools[u].block = i
    BY <1>1, <1>5 DEF MGood, MOpen
  <2> QED BY <1>1, <2>1 DEF MGood, MTools, MHolds
<1>6. MLive(w) /\ w.blocks = Append(c.view.blocks, NewBlock("tool_use"))
  <2>1. "tool_use" \in Messages!MessageKind /\ MLive(c.view)
    BY <1>1 DEF Messages!MessageKind, MGood
  <2> QED BY <1>4, <1>5, <2>1, MOpenView
<1> HIDE DEF w
<1>7. /\ Len(w.blocks) = Len(c.view.blocks) + 1
      /\ \A j \in 1..Len(c.view.blocks) : w.blocks[j] = c.view.blocks[j]
      /\ w.blocks[Len(c.view.blocks) + 1] = NewBlock("tool_use")
      /\ Later(c.view.blocks, w.blocks)
  <2> DEFINE b == c.view.blocks
             k == "tool_use"
  <2>1. k \in Messages!MessageKind /\ b \in Blocks(Messages!MessageKind)
    BY <1>3 DEF Messages!MessageKind
  <2>2. w.blocks = Append(b, NewBlock(k))
    BY <1>6
  <2> HIDE DEF b, k
  <2>3. /\ Len(w.blocks) = Len(b) + 1
        /\ \A j \in 1..Len(b) : w.blocks[j] = b[j]
        /\ w.blocks[Len(b) + 1] = NewBlock(k)
        /\ Later(b, w.blocks)
    BY <2>1, <2>2, OpenedBlocks
  <2> QED BY <2>3 DEF b, k
<1>8. /\ nt \in Messages!ToolState
      /\ nt.block = c.next /\ nt.started = TRUE /\ nt.pending = <<>>
      /\ nt.closed = s.tools[t].closed /\ nt.named = s.tools[t].named
      /\ nt.gate = s.tools[t].gate
  <2>1. c.tools[t] \in Messages!ToolState /\ c.next \in Nat /\ <<>> \in Seq(Nat)
    BY <1>1, <1>3, <1>4, MToolTypes, EmptySeq
  <2>2. nt \in Messages!ToolState
    BY <2>1 DEF Messages!ToolState
  <2>3. nt.block = c.next /\ nt.started = TRUE /\ nt.pending = <<>>
    BY <2>1 DEF Messages!ToolState
  <2>4. /\ nt.closed = c.tools[t].closed /\ nt.named = c.tools[t].named
        /\ nt.gate = c.tools[t].gate
    BY <2>1 DEF Messages!ToolState
  <2> QED BY <1>1, <2>2, <2>3, <2>4
<1> HIDE DEF nt
<1>9. /\ ts \in [Tool -> Messages!ToolState] /\ ts[t] = nt
      /\ \A u \in Tool : u # t => ts[u] = s.tools[u]
  <2>1. c.tools \in [Tool -> Messages!ToolState]
    BY Zenon, <1>4 DEF Messages!StreamState
  <2> QED BY <1>1, <1>8, <2>1
<1> HIDE DEF ts
<1>10. o \in Messages!StreamState
  <2>1. w \in Messages!Client!View /\ c.next + 1 \in Nat
    BY <1>3, <1>4, <1>6 DEF MLive
  <2> QED BY Zenon, <1>4, <1>9, <2>1 DEF Messages!StreamState
<1>11. /\ o.view = w /\ o.tools = ts /\ o.next = c.next + 1
       /\ o.blockOpen = c.blockOpen /\ o.curKind = c.curKind /\ o.curBlock = c.curBlock
  BY Zenon, <1>4 DEF Messages!StreamState
<1>12. MKeeps(c, o)
  BY Zenon, <1>4 DEF Messages!StreamState, MKeeps
<1> HIDE DEF o
<1>13. MCurrent(o)
  BY <1>1, <1>3, <1>4, <1>7, <1>11, ZenonT(40) DEF MGood, MCurrent
<1>14. MTools(o)
  <2> SUFFICES ASSUME NEW u \in Tool
               PROVE  /\ ts[u].started =>
                            /\ ts[u].pending = <<>>
                            /\ ts[u].block \in 1..Len(w.blocks)
                            /\ w.blocks[ts[u].block].kind = "tool_use"
                      /\ ts[u].started /\ ~ts[u].closed => w.blocks[ts[u].block].open
                      /\ \A x \in Tool : ts[u].started /\ ts[x].started /\ u # x =>
                            ts[u].block # ts[x].block
    BY <1>11 DEF MTools, MHolds
  <2>1. ASSUME NEW x \in Tool, x # t, ts[x].started
        PROVE  /\ ts[x].pending = <<>> /\ ts[x].block \in 1..Len(c.view.blocks)
               /\ w.blocks[ts[x].block].kind = "tool_use"
               /\ ~ts[x].closed => w.blocks[ts[x].block].open
    <3>1. ts[x] = s.tools[x] /\ c.tools[x] = ts[x]
      BY <1>1, <1>9, <2>1
    <3>2. c.tools[x].started
      BY <2>1, <3>1, Zenon
    <3>3. /\ c.tools[x].pending = <<>> /\ c.tools[x].block \in 1..Len(c.view.blocks)
          /\ c.view.blocks[c.tools[x].block].kind = "tool_use"
      BY <1>1, <3>2, Zenon DEF MGood, MTools
    <3>4. ~c.tools[x].closed => c.view.blocks[c.tools[x].block].open
      BY <1>1, <3>2 DEF MGood, MTools, MHolds
    <3>5. w.blocks[c.tools[x].block] = c.view.blocks[c.tools[x].block]
      BY <1>7, <3>3
    <3> QED BY <3>1, <3>3, <3>4, <3>5
  <2>2. /\ ts[t].pending = <<>> /\ ts[t].block = Len(c.view.blocks) + 1
        /\ w.blocks[ts[t].block].kind = "tool_use" /\ w.blocks[ts[t].block].open
    BY <1>4, <1>7, <1>8, <1>9 DEF NewBlock
  <2>3. CASE u = t
    <3>1. ts[u].block \in 1..Len(w.blocks)
      BY <1>3, <1>7, <2>2, <2>3
    <3>2. \A x \in Tool : ts[x].started /\ u # x => ts[u].block # ts[x].block
      BY <1>3, <2>1, <2>2, <2>3
    <3> QED BY <2>2, <2>3, <3>1, <3>2
  <2>4. CASE u # t
    <3>1. ts[u].started =>
             /\ ts[u].pending = <<>> /\ ts[u].block \in 1..Len(w.blocks)
             /\ w.blocks[ts[u].block].kind = "tool_use"
      BY <1>3, <1>7, <2>1, <2>4
    <3>2. ts[u].started /\ ~ts[u].closed => w.blocks[ts[u].block].open
      BY <2>1, <2>4
    <3>3. ASSUME NEW x \in Tool, ts[u].started, ts[x].started, u # x
          PROVE  ts[u].block # ts[x].block
      <4>1. CASE x = t
        BY <1>3, <2>1, <2>2, <2>4, <3>3, <4>1, SMTT(20)
      <4>2. CASE x # t
        <5>1. ts[u] = c.tools[u] /\ ts[x] = c.tools[x]
          BY <1>1, <1>9, <2>4, <4>2
        <5> QED BY <1>1, <3>3, <5>1 DEF MGood, MTools
      <4> QED BY <4>1, <4>2
    <3> QED BY <3>1, <3>2, <3>3
  <2> QED BY <2>3, <2>4
<1>15. MHolds(o, t)
  <2>1. ts[t].started = TRUE /\ ts[t].closed = s.tools[t].closed
    BY <1>8, <1>9
  <2> QED BY <1>11, <2>1 DEF MHolds
<1>16. MOpen(o)
  <2> SUFFICES ASSUME NEW i \in 1..Len(w.blocks), w.blocks[i].open
               PROVE  \E u \in Tool : MHolds(o, u) /\ o.tools[u].block = i
    BY <1>11 DEF MOpen
  <2>1. CASE i = Len(c.view.blocks) + 1
    <3>1. o.tools[t].block = i
      BY <1>4, <1>8, <1>9, <1>11, <2>1
    <3> QED BY <1>15, <3>1
  <2>2. CASE i # Len(c.view.blocks) + 1
    <3>1. i \in 1..Len(c.view.blocks) /\ c.view.blocks[i].open
      BY <1>3, <1>7, <2>2
    <3>2. PICK u \in Tool : MHolds(c, u) /\ c.tools[u].block = i
      BY <1>1, <3>1 DEF MGood, MOpen
    <3>3. u # t
      BY <1>1, <3>2 DEF MHolds
    <3>4. o.tools[u] = c.tools[u]
      BY <1>1, <1>9, <1>11, <3>3
    <3> QED BY <3>2, <3>4 DEF MHolds
  <2> QED BY <2>1, <2>2
<1>17. MUsed(o)
  BY Zenon, <1>8, <1>9, <1>11 DEF MUsed, MCalled
<1>18. MGood(o)
  BY <1>6, <1>10, <1>11, <1>13, <1>14, <1>16, <1>17 DEF MGood
<1>19. ASSUME NEW u \in Tool
       PROVE  MGot(o, u) = IF u = t THEN <<>> \o <<>> ELSE MGot(s, u)
  <2>1. CASE u = t
    <3>1. ts[t].started = TRUE /\ ts[t].pending = <<>> /\ ts[t].block = Len(c.view.blocks) + 1
      BY <1>4, <1>8, <1>9
    <3>2. w.blocks[ts[t].block].frags = <<>>
      BY <1>7, <3>1 DEF NewBlock
    <3> QED BY <1>11, <2>1, <3>1, <3>2 DEF MGot
  <2>2. CASE u # t
    <3>1. o.tools[u] = s.tools[u]
      BY <1>9, <1>11, <2>2, Zenon
    <3>2. CASE s.tools[u].started
      <4>1. s.tools[u].block \in 1..Len(s.view.blocks)
        BY <3>2 DEF MGood, MTools
      <4>2. w.blocks[s.tools[u].block].frags = s.view.blocks[s.tools[u].block].frags
        BY <1>1, <1>3, <1>7, <4>1 DEF SameWords
      <4> QED BY <1>11, <2>2, <3>1, <3>2, <4>2, Zenon DEF MGot
    <3>3. CASE ~s.tools[u].started
      BY <2>2, <3>1, <3>3 DEF MGot
    <3> QED BY <3>2, <3>3
  <2> QED BY <2>1, <2>2
<1>20. args \in Seq(Nat) /\ MGot(s, t) = <<>> \o args
  BY MToolTypes DEF MGot
<1>21. r = Messages!EmitDelta(o, o.tools[t].block, args)
  BY <1>1, <1>2, <1>8, <1>9, <1>11
<1>22. /\ MGood(r) /\ MKeeps(o, r) /\ r.tools = o.tools
       /\ Later(o.view.blocks, r.view.blocks)
       /\ Spares(o.view.blocks, r.view.blocks, "text")
       /\ MGot(r, t) = MGot(o, t) \o args
       /\ \A u \in Tool : u # t => MGot(r, u) = MGot(o, u)
  <2> HIDE DEF args
  <2> QED BY <1>15, <1>18, <1>20, <1>21, MFedGot
<1>23. \A u \in Tool : MGot(r, u) = MGot(s, u)
  <2>1. MGot(r, t) = (<<>> \o <<>>) \o args
    BY <1>19, <1>22
  <2>2. (<<>> \o <<>>) \o args = <<>> \o args
    <3>1. <<>> \o <<>> = <<>>
      BY ConcatEmptySeq, EmptySeq
    <3> QED BY <3>1
  <2> QED BY Zenon, <1>19, <1>20, <1>22, <2>1, <2>2
<1>24. r.view.blocks \in Blocks(Messages!MessageKind) /\ w.blocks \in Blocks(Messages!MessageKind)
  BY <1>6, <1>22, MViewBlocks DEF MGood, MLive
<1>25. Later(s.view.blocks, r.view.blocks)
  <2>1. Later(s.view.blocks, w.blocks)
    BY <1>1, <1>3, <1>7, <1>24, LaterTransitive
  <2>2. Later(w.blocks, r.view.blocks)
    BY <1>11, <1>22
  <2> QED BY <1>3, <1>24, <2>1, <2>2, LaterTransitive
<1>26. Spares(s.view.blocks, r.view.blocks, "text")
  <2>1. Spares(s.view.blocks, w.blocks, "text")
    <3> SUFFICES ASSUME NEW j \in 1..Len(w.blocks), w.blocks[j].kind = "text"
                 PROVE  /\ j \in 1..Len(s.view.blocks) /\ s.view.blocks[j].kind = "text"
                        /\ w.blocks[j].frags = s.view.blocks[j].frags
      BY DEF Spares
    <3>1. j # Len(c.view.blocks) + 1
      BY <1>7 DEF NewBlock
    <3>2. j \in 1..Len(c.view.blocks) /\ w.blocks[j] = c.view.blocks[j]
      BY <1>3, <1>7, <3>1, SMTT(20)
    <3> QED BY <1>1, <1>3, <3>2 DEF SameWords
  <2>2. Spares(w.blocks, r.view.blocks, "text")
    BY <1>11, <1>22
  <2> QED BY <2>1, <2>2, SpareTransitive
<1>27. MKeeps(s, r)
  BY <1>1, <1>12, <1>22 DEF MKeeps
<1>28. MHolds(r, t)
  BY <1>15, <1>22 DEF MHolds
<1>29. r.tools[t].named /\ r.tools[t].gate = s.tools[t].gate
  BY <1>8, <1>9, <1>11, <1>22
<1>30. \A u \in Tool : u # t => r.tools[u] = s.tools[u]
  BY <1>9, <1>11, <1>22
<1> QED BY <1>22, <1>23, <1>25, <1>26, <1>27, <1>28, <1>29, <1>30

\* ConsumeOpenTool from where it has the name and the gate's outcome in the state.
MOpenTool(m, t, g) ==
    LET b == IF m.tools[t].started THEN m ELSE Messages!StartToolBlock(m, t)
    IN IF ~m.tools[t].started /\ ~m.tools[t].named
       THEN [m EXCEPT !.tools[t].pending = m.tools[t].pending \o g.args]
       ELSE Messages!EmitDelta(b, b.tools[t].block, g.args)

\* consumeTool for a tool that is not closed, by what it does to the state.
LEMMA MOpenToolIs ==
    ASSUME NEW s, NEW d, NEW g, NEW m,
           m = [s EXCEPT !.tools[d.index].named = @ \/ d.name, !.tools[d.index].gate = g.gate]
    PROVE  Messages!ConsumeOpenTool(s, d, g) = MOpenTool(m, d.index, g)
<1> DEFINE e == [s EXCEPT !.tools[d.index].named = @ \/ d.name, !.tools[d.index].gate = g.gate]
<1>1. Messages!ConsumeOpenTool(s, d, g) = MOpenTool(e, d.index, g)
  BY Zenon DEF Messages!ConsumeOpenTool, MOpenTool
<1>2. m = e
  OBVIOUS
<1> HIDE DEF e
<1> QED BY <1>1, <1>2

\* What a delta of tool t does: t gets what the gate lets through, no other tool does.
MFeedsTool(s, r, t, g) ==
    /\ MGood(r) /\ MNamed(r)
    /\ r.hasTools /\ r.stop = s.stop /\ r.sawReasoning = s.sawReasoning
    /\ r.think = s.think /\ r.err = s.err
    /\ Later(s.view.blocks, r.view.blocks)
    /\ Spares(s.view.blocks, r.view.blocks, "text")
    /\ r.tools[t].gate = g.gate
    /\ MGot(r, t) = MGot(s, t) \o g.args
    /\ \A u \in Tool : u # t =>
          r.tools[u].gate = s.tools[u].gate /\ MGot(r, u) = MGot(s, u)

\* What a delta says of names: only its own name is new.
MNames(s, r, d) ==
    \A u \in Tool : r.tools[u].named <=> s.tools[u].named \/ (u = d.index /\ d.name)

\* Marking a tool as seen keeps its record a tool record.
LEMMA MSeenTyped ==
    ASSUME NEW x \in Messages!ToolState
    PROVE  [x EXCEPT !.seen = TRUE] \in Messages!ToolState
BY DEF Messages!ToolState

\* The name and the gate of one tool, set in its record and set in the state.
MToolSet(tools, t, named, gate) == [tools EXCEPT ![t].named = named, ![t].gate = gate]
MStateSet(v, t, named, gate) ==
    [v EXCEPT !.tools[t].named = named, !.tools[t].gate = gate]

\* Setting them in the state is setting them in its tools.
LEMMA MStateSetIs ==
    ASSUME NEW v \in Messages!StreamState, NEW t, NEW x, NEW y
    PROVE  MStateSet(v, t, x, y) = [v EXCEPT !.tools = MToolSet(v.tools, t, x, y)]
BY Zenon DEF Messages!StreamState, MToolSet, MStateSet

\* A delta of a tool that is not closed: what the gate lets through reaches the tool.
LEMMA MOpenToolGood ==
    ASSUME NEW s, MGood(s), MNamed(s), NEW d \in Messages!ToolDelta,
           ~s.tools[d.index].closed,
           NEW g \in [gate : Messages!Gate, args : Seq(Nat)],
           NEW r, r = Messages!ConsumeOpenTool(Messages!SeeTool(s, d.index), d, g)
    PROVE  MFeedsTool(s, r, d.index, g) /\ MNames(s, r, d)
<1> DEFINE t == d.index
           mt == [s.tools[t] EXCEPT !.seen = TRUE, !.named = s.tools[t].named \/ d.name,
                                    !.gate = g.gate]
           ts == [s.tools EXCEPT ![t] = mt]
           m == [s EXCEPT !.hasTools = TRUE, !.tools = ts]
           b == IF m.tools[t].started THEN m ELSE Messages!StartToolBlock(m, t)
<1>1. /\ t \in Tool /\ d.name \in BOOLEAN
      /\ g.gate \in Messages!Gate /\ g.args \in Seq(Nat)
  BY DEF Messages!ToolDelta
<1>2. s \in Messages!StreamState /\ s.tools \in [Tool -> Messages!ToolState]
  BY Zenon DEF MGood, Messages!StreamState
<1>3. r = IF ~m.tools[t].started /\ ~m.tools[t].named
          THEN [m EXCEPT !.tools[t].pending = m.tools[t].pending \o g.args]
          ELSE Messages!EmitDelta(b, b.tools[t].block, g.args)
  <2> DEFINE v == Messages!SeeTool(s, d.index)
             nm == v.tools[t].named \/ d.name
  <2>1. v = [s EXCEPT !.hasTools = TRUE, !.tools = [s.tools EXCEPT ![t].seen = TRUE]]
    BY Zenon, <1>2 DEF Messages!SeeTool, Messages!StreamState
  <2>2. v.tools = [s.tools EXCEPT ![t].seen = TRUE]
    BY ZenonT(60), <1>2, <2>1 DEF Messages!StreamState
  <2>3. MToolSet(v.tools, t, nm, g.gate) = ts
    <3>1. s.tools[t] \in Messages!ToolState
      BY <1>1, <1>2
    <3>2. v.tools[t] = [s.tools[t] EXCEPT !.seen = TRUE]
      BY <1>1, <1>2, <2>2
    <3>3. v.tools[t].named = s.tools[t].named
      BY <3>1, <3>2 DEF Messages!ToolState
    <3> QED BY <1>1, <1>2, <2>2, <3>1, <3>3 DEF MToolSet
  <2>4. MStateSet(v, t, nm, g.gate) = [v EXCEPT !.tools = MToolSet(v.tools, t, nm, g.gate)]
    <3>1. [s.tools EXCEPT ![t].seen = TRUE] \in [Tool -> Messages!ToolState]
      <4>1. [s.tools[t] EXCEPT !.seen = TRUE] \in Messages!ToolState
        <5>1. s.tools[t] \in Messages!ToolState
          BY <1>1, <1>2
        <5> QED BY <5>1, MSeenTyped
      <4> QED BY <1>1, <1>2, <4>1
    <3>2. v \in Messages!StreamState
      BY Zenon, <1>2, <2>1, <3>1 DEF Messages!StreamState
    <3> HIDE DEF v, t, nm
    <3> QED BY <3>2, MStateSetIs
  <2>5. [v EXCEPT !.tools = ts] = m
    <3> HIDE DEF ts
    <3> QED BY Zenon, <1>2, <2>1 DEF Messages!StreamState
  <2>6. MStateSet(v, t, nm, g.gate) = m
    <3> HIDE DEF v, t, nm, m, ts
    <3> QED BY <2>3, <2>4, <2>5
  <2>7. m = [v EXCEPT !.tools[t].named = @ \/ d.name, !.tools[t].gate = g.gate]
    <3> HIDE DEF v, m
    <3> QED BY <2>6 DEF MStateSet
  <2> HIDE DEF m, v
  <2>8. r = Messages!ConsumeOpenTool(v, d, g)
    BY Zenon DEF v
  <2>9. r = MOpenTool(m, t, g)
    BY <2>7, <2>8, MOpenToolIs, ZenonT(40)
  <2> QED BY <2>9 DEF MOpenTool
<1>4. /\ mt \in Messages!ToolState
      /\ mt.started = s.tools[t].started /\ mt.closed = s.tools[t].closed
      /\ mt.block = s.tools[t].block /\ mt.pending = s.tools[t].pending
      /\ mt.gate = g.gate /\ mt.named = (s.tools[t].named \/ d.name)
  <2>1. s.tools[t] \in Messages!ToolState /\ (s.tools[t].named \/ d.name) \in BOOLEAN
    BY <1>1, <1>2
  <2>2. mt \in Messages!ToolState
    BY <1>1, <2>1 DEF Messages!ToolState
  <2>3. mt.started = s.tools[t].started /\ mt.closed = s.tools[t].closed
    BY <2>1 DEF Messages!ToolState
  <2>4. mt.block = s.tools[t].block /\ mt.pending = s.tools[t].pending
    BY <2>1 DEF Messages!ToolState
  <2>5. mt.gate = g.gate /\ mt.named = (s.tools[t].named \/ d.name)
    BY <2>1 DEF Messages!ToolState
  <2> QED BY <2>2, <2>3, <2>4, <2>5
<1> HIDE DEF mt
<1>5. /\ ts \in [Tool -> Messages!ToolState] /\ ts[t] = mt
      /\ \A u \in Tool : u # t => ts[u] = s.tools[u]
  BY <1>1, <1>2, <1>4
<1> HIDE DEF ts
<1>6. /\ m \in Messages!StreamState /\ m.tools = ts /\ m.hasTools = TRUE
      /\ m.view = s.view /\ m.next = s.next /\ m.blockOpen = s.blockOpen
      /\ m.curKind = s.curKind /\ m.curBlock = s.curBlock
  <2>1. m \in Messages!StreamState
    BY Zenon, <1>2, <1>5 DEF Messages!StreamState
  <2>2. m.tools = ts /\ m.hasTools = TRUE /\ m.view = s.view
    BY Zenon, <1>2 DEF Messages!StreamState
  <2>3. /\ m.next = s.next /\ m.blockOpen = s.blockOpen
        /\ m.curKind = s.curKind /\ m.curBlock = s.curBlock
    BY Zenon, <1>2 DEF Messages!StreamState
  <2> QED BY <2>1, <2>2, <2>3
<1>7. /\ m.stop = s.stop /\ m.sawReasoning = s.sawReasoning
      /\ m.think = s.think /\ m.err = s.err
  BY Zenon, <1>2 DEF Messages!StreamState
<1> HIDE DEF m
<1>8. \A u \in Tool : /\ m.tools[u].started = s.tools[u].started
                      /\ m.tools[u].closed = s.tools[u].closed
                      /\ m.tools[u].block = s.tools[u].block
                      /\ m.tools[u].pending = s.tools[u].pending
  BY Zenon, <1>4, <1>5, <1>6
<1>9. MGood(m)
  <2>1. \A u \in Tool : s.tools[u].named => m.tools[u].named
    BY Zenon, <1>4, <1>5, <1>6
  <2> QED BY <1>6, <1>8, <2>1, MGoodAs, ZenonT(40)
<1>16. \A u \in Tool : m.tools[u].named <=> s.tools[u].named \/ (u = d.index /\ d.name)
  BY Zenon, <1>4, <1>5, <1>6
<1>10. \A u \in Tool : MGot(m, u) = MGot(s, u)
  BY <1>6, <1>8, Zenon DEF MGot
<1>11. ~m.tools[t].closed /\ m.tools[t].gate = g.gate /\ m.hasTools
  <2>1. m.tools[t].closed = s.tools[t].closed
    BY <1>1, <1>8
  <2> QED BY <1>4, <1>5, <1>6, <2>1
<1>12. \A u \in Tool : u # t => m.tools[u] = s.tools[u]
  BY <1>5, <1>6
<1>13. s.view.blocks \in Blocks(Messages!MessageKind)
  BY MViewBlocks DEF MGood, MLive
<1>14. CASE ~m.tools[t].started /\ ~m.tools[t].named
  <2> DEFINE rt == [m.tools[t] EXCEPT !.pending = m.tools[t].pending \o g.args]
             rs == [m.tools EXCEPT ![t] = rt]
  <2>1. r = [m EXCEPT !.tools = rs]
    <3>1. r = [m EXCEPT !.tools[t].pending = m.tools[t].pending \o g.args]
      BY <1>3, <1>14
    <3> QED BY Zenon, <1>6, <3>1 DEF Messages!StreamState
  <2>2. m.tools[t] \in Messages!ToolState /\ m.tools[t].pending \in Seq(Nat)
    BY <1>1, <1>9, MToolTypes
  <2>3. m.tools[t].pending \o g.args \in Seq(Nat)
    BY <1>1, <2>2, ConcatProperties, Zenon
  <2>4. /\ rt \in Messages!ToolState
        /\ rt.started = m.tools[t].started /\ rt.closed = m.tools[t].closed
        /\ rt.block = m.tools[t].block /\ rt.pending = m.tools[t].pending \o g.args
        /\ rt.gate = m.tools[t].gate /\ rt.named = m.tools[t].named
    <3>1. rt \in Messages!ToolState
      BY <2>2, <2>3 DEF Messages!ToolState
    <3>2. rt.started = m.tools[t].started /\ rt.closed = m.tools[t].closed
      BY <2>2 DEF Messages!ToolState
    <3>3. rt.block = m.tools[t].block /\ rt.pending = m.tools[t].pending \o g.args
      BY <2>2 DEF Messages!ToolState
    <3>4. rt.gate = m.tools[t].gate /\ rt.named = m.tools[t].named
      BY <2>2 DEF Messages!ToolState
    <3> QED BY <3>1, <3>2, <3>3, <3>4, Zenon
  <2> HIDE DEF rt
  <2>5. /\ rs \in [Tool -> Messages!ToolState] /\ rs[t] = rt
        /\ \A u \in Tool : u # t => rs[u] = m.tools[u]
    BY <1>1, <1>5, <1>6, <2>4
  <2> HIDE DEF rs
  <2>6. /\ r \in Messages!StreamState /\ r.tools = rs
        /\ r.view = m.view /\ r.next = m.next /\ r.blockOpen = m.blockOpen
        /\ r.curKind = m.curKind /\ r.curBlock = m.curBlock
    <3>1. r \in Messages!StreamState
      BY Zenon, <1>6, <2>1, <2>5 DEF Messages!StreamState
    <3>2. r.tools = rs /\ r.view = m.view
      BY Zenon, <1>6, <2>1 DEF Messages!StreamState
    <3>3. /\ r.next = m.next /\ r.blockOpen = m.blockOpen
          /\ r.curKind = m.curKind /\ r.curBlock = m.curBlock
      BY Zenon, <1>6, <2>1 DEF Messages!StreamState
    <3> QED BY <3>1, <3>2, <3>3
  <2>7. MKeeps(m, r)
    BY Zenon, <1>6, <2>1 DEF Messages!StreamState, MKeeps
  <2>8. MGood(r)
    <3>1. \A u \in Tool : /\ r.tools[u].started = m.tools[u].started
                          /\ r.tools[u].closed = m.tools[u].closed
                          /\ r.tools[u].block = m.tools[u].block
      BY Zenon, <2>4, <2>5, <2>6
    <3>2. \A u \in Tool : m.tools[u].started => r.tools[u].pending = m.tools[u].pending
      BY <1>14, <2>5, <2>6
    <3>3. \A u \in Tool : m.tools[u].named => r.tools[u].named
      BY Zenon, <2>4, <2>5, <2>6
    <3> QED BY <1>9, <2>6, <3>1, <3>2, <3>3, MGoodAs
  <2>9. MNamed(r)
    <3> SUFFICES ASSUME NEW u \in Tool, r.tools[u].named PROVE r.tools[u].started
      BY DEF MNamed
    <3>1. u # t
      <4>1. r.tools[t].named = m.tools[t].named
        BY <2>4, <2>5, <2>6
      <4> QED BY <1>14, <4>1, Zenon
    <3>2. r.tools[u] = s.tools[u]
      BY <1>12, <2>5, <2>6, <3>1
    <3> QED BY <3>2 DEF MNamed
  <2>10. MGot(r, t) = MGot(m, t) \o g.args
    <3>1. MGot(m, t) = <<>> \o m.tools[t].pending
      BY <1>14, Zenon DEF MGot
    <3>2. ~r.tools[t].started /\ r.tools[t].pending = m.tools[t].pending \o g.args
      <4>1. r.tools[t].started = m.tools[t].started
        BY <2>4, <2>5, <2>6, Zenon
      <4> QED BY <1>14, <2>4, <2>5, <2>6, <4>1, Zenon
    <3>3. MGot(r, t) = <<>> \o (m.tools[t].pending \o g.args)
      BY <3>2, ZenonT(40) DEF MGot
    <3> QED BY <1>1, <2>2, <3>1, <3>3, ConcatAssociative, EmptySeq
  <2>11. \A u \in Tool : u # t => MGot(r, u) = MGot(m, u)
    BY <2>5, <2>6, Zenon DEF MGot
  <2>12. Later(s.view.blocks, r.view.blocks) /\ Spares(s.view.blocks, r.view.blocks, "text")
    BY <1>6, <1>13, <2>6, LaterReflexive, Zenon DEF Spares
  <2>13. r.tools[t].gate = g.gate /\ \A u \in Tool : u # t => r.tools[u].gate = s.tools[u].gate
    BY <1>11, <1>12, <2>4, <2>5, <2>6
  <2>14. MNames(s, r, d)
    <3>1. \A u \in Tool : r.tools[u].named <=> m.tools[u].named
      BY Zenon, <2>4, <2>5, <2>6
    <3> QED BY Zenon, <1>16, <3>1 DEF MNames
  <2>15. MFeedsTool(s, r, t, g)
    BY <1>1, <1>7, <1>10, <1>11, <2>7, <2>8, <2>9, <2>10, <2>11, <2>12, <2>13 DEF MKeeps, MFeedsTool
  <2> QED BY <2>14, <2>15
<1>15. CASE m.tools[t].started \/ m.tools[t].named
  <2>1. r = Messages!EmitDelta(b, b.tools[t].block, g.args)
    BY <1>3, <1>15
  <2>2. /\ MGood(b) /\ MKeeps(m, b) /\ MHolds(b, t) /\ b.tools[t].gate = m.tools[t].gate
        /\ b.tools[t].named <=> m.tools[t].named
        /\ \A u \in Tool : u # t => b.tools[u] = m.tools[u]
        /\ Later(m.view.blocks, b.view.blocks)
        /\ Spares(m.view.blocks, b.view.blocks, "text")
        /\ \A u \in Tool : MGot(b, u) = MGot(m, u)
    <3>1. CASE m.tools[t].started
      <4>1. b = m
        BY <3>1
      <4>2. MHolds(m, t) /\ MKeeps(m, m)
        BY <1>11, <3>1 DEF MHolds, MKeeps
      <4> QED BY <1>6, <1>9, <1>13, <4>1, <4>2, LaterReflexive DEF Spares
    <3>2. CASE ~m.tools[t].started
      <4>1. b = Messages!StartToolBlock(m, t)
        BY <3>2
      <4> HIDE DEF b
      <4>2. m.tools[t].named
        BY <1>15, <3>2
      <4>3. t \in Tool /\ ~m.tools[t].closed
        BY <1>1, <1>11
      <4> HIDE DEF t
      <4> QED BY <1>9, <3>2, <4>1, <4>2, <4>3, MStartToolGood
    <3> QED BY <3>1, <3>2
  <2> HIDE DEF b
  <2>3. /\ MGood(r) /\ MKeeps(b, r) /\ r.tools = b.tools
        /\ Later(b.view.blocks, r.view.blocks)
        /\ Spares(b.view.blocks, r.view.blocks, "text")
        /\ MGot(r, t) = MGot(b, t) \o g.args
        /\ \A u \in Tool : u # t => MGot(r, u) = MGot(b, u)
    <3> HIDE DEF t
    <3> QED BY <1>1, <2>1, <2>2, MFedGot
  <2>4. MNamed(r)
    <3> SUFFICES ASSUME NEW u \in Tool, r.tools[u].named PROVE r.tools[u].started
      BY DEF MNamed
    <3>1. CASE u = t
      BY <2>2, <2>3, <3>1 DEF MHolds
    <3>2. CASE u # t
      <4>1. r.tools[u] = s.tools[u]
        BY <1>12, <2>2, <2>3, <3>2
      <4> QED BY <4>1 DEF MNamed
    <3> QED BY <3>1, <3>2
  <2>5. Later(s.view.blocks, r.view.blocks)
    <3>1. b.view.blocks \in Blocks(Messages!MessageKind)
          /\ r.view.blocks \in Blocks(Messages!MessageKind)
      BY <2>2, <2>3, MViewBlocks DEF MGood, MLive
    <3> QED BY <1>6, <1>13, <2>2, <2>3, <3>1, LaterTransitive
  <2>6. Spares(s.view.blocks, r.view.blocks, "text")
    BY <1>6, <2>2, <2>3, SpareTransitive
  <2>7. r.tools[t].gate = g.gate /\ \A u \in Tool : u # t => r.tools[u].gate = s.tools[u].gate
    BY <1>11, <1>12, <2>2, <2>3
  <2>8. /\ MGot(r, t) = MGot(s, t) \o g.args
        /\ \A u \in Tool : u # t => MGot(r, u) = MGot(s, u)
    BY <1>1, <1>10, <2>2, <2>3
  <2>9. /\ r.hasTools /\ r.stop = s.stop /\ r.sawReasoning = s.sawReasoning
        /\ r.think = s.think /\ r.err = s.err
    <3>1. /\ r.hasTools = m.hasTools /\ r.stop = m.stop /\ r.sawReasoning = m.sawReasoning
          /\ r.think = m.think /\ r.err = m.err
      BY <2>2, <2>3 DEF MKeeps
    <3> QED BY <1>7, <1>11, <3>1
  <2>10. MNames(s, r, d)
    <3>1. \A u \in Tool : r.tools[u].named <=> m.tools[u].named
      BY Zenon, <2>2, <2>3
    <3> QED BY Zenon, <1>16, <3>1 DEF MNames
  <2>11. MFeedsTool(s, r, t, g)
    BY <2>3, <2>4, <2>5, <2>6, <2>7, <2>8, <2>9 DEF MFeedsTool
  <2> QED BY <2>10, <2>11
<1> QED BY <1>14, <1>15

----------------------------------------------------------------------------
(* What the splitter and the gate return *)

\* What the think splitter gives back.
MPushed == [think : Messages!Think, reason : Seq(Nat), text : Seq(Nat)]

\* Text comes out only when the splitter is through: the fragment itself, or all that
\* was held while no tag was found.
LEMMA MThinkPushIs ==
    ASSUME NEW t \in Messages!Think, NEW f \in Nat, NEW p \in Messages!ThinkPush(t, f)
    PROVE  /\ p \in MPushed
           /\ p.text # <<>> =>
                 p.text = <<f>> \/ (t.state = "detecting" /\ p.text = Append(t.held, f))
           /\ p.think.state = "detecting" =>
                 t.state = "detecting" /\ p.text = <<>> /\ p.think.held = Append(t.held, f)
<1> DEFINE Right(x) ==
             /\ x \in MPushed
             /\ x.text # <<>> =>
                   x.text = <<f>> \/ (t.state = "detecting" /\ x.text = Append(t.held, f))
             /\ x.think.state = "detecting" =>
                   t.state = "detecting" /\ x.text = <<>> /\ x.think.held = Append(t.held, f)
<1>1. /\ t.held \in Seq(Nat)
      /\ t.state \in {"detecting", "inside", "afterClose", "passthrough"}
  BY DEF Messages!Think
<1>2. <<>> \in Seq(Nat) /\ <<f>> \in Seq(Nat)
  OBVIOUS
<1>3. ASSUME NEW h \in Seq(Nat), NEW x \in Messages!FeedInside(h, f)
      PROVE  Right(x)
  <2>1. Append(h, f) \in Seq(Nat)
    BY AppendProperties
  <2>2. PICK a \in {"inside", "afterClose", "passthrough"}, k \in Seq(Nat), e \in Seq(Nat),
             y \in {<<>>, <<f>>} : x = Messages!Split(a, k, e, y)
    <3> DEFINE buf == Append(h, f)
               K == {[emit |-> buf, keep |-> <<>>], [emit |-> buf, keep |-> <<f>>],
                     [emit |-> h, keep |-> <<f>>], [emit |-> <<>>, keep |-> buf]}
    <3>1. \/ x \in {Messages!Split("inside", o.keep, o.emit, <<>>) : o \in K}
          \/ x \in {Messages!Split("afterClose", <<>>, r, <<>>) : r \in {<<>>, h, buf}}
          \/ x \in {Messages!Split("passthrough", <<>>, r, <<f>>) : r \in {<<>>, h, buf}}
      BY DEF Messages!FeedInside
    <3>2. ASSUME NEW o \in K
          PROVE  o.keep \in Seq(Nat) /\ o.emit \in Seq(Nat)
      <4>1. buf \in Seq(Nat)
        BY <2>1
      <4> HIDE DEF buf
      <4>2. o.keep \in {buf, <<>>, <<f>>} /\ o.emit \in {buf, h, <<>>}
        OBVIOUS
      <4> QED BY <1>2, <4>1, <4>2
    <3>3. \A r \in {<<>>, h, buf} : r \in Seq(Nat)
      BY <1>2, <2>1
    <3> HIDE DEF K, buf
    <3>4. CASE x \in {Messages!Split("inside", o.keep, o.emit, <<>>) : o \in K}
      BY <3>2, <3>4
    <3>5. CASE x \in {Messages!Split("afterClose", <<>>, r, <<>>) : r \in {<<>>, h, buf}}
      BY <1>2, <3>3, <3>5
    <3>6. CASE x \in {Messages!Split("passthrough", <<>>, r, <<f>>) : r \in {<<>>, h, buf}}
      BY <1>2, <3>3, <3>6
    <3> QED BY <3>1, <3>4, <3>5, <3>6
  <2>3. x = [think |-> [state |-> a, held |-> k], reason |-> e, text |-> y]
    BY <2>2 DEF Messages!Split
  <2> QED BY <1>2, <2>3 DEF MPushed, Messages!Think
<1>4. CASE t.state = "detecting"
  <2>1. p \in Messages!FeedDetecting(t.held, f)
    BY <1>4 DEF Messages!ThinkPush
  <2>2. Append(t.held, f) \in Seq(Nat)
    BY <1>1, AppendProperties
  <2> DEFINE buf == Append(t.held, f)
  <2>3. \/ p = Messages!Split("detecting", buf, <<>>, <<>>)
        \/ p = Messages!Split("passthrough", <<>>, <<>>, buf)
        \/ p = Messages!Split("inside", <<>>, <<>>, <<>>)
        \/ p \in Messages!FeedInside(<<>>, f)
    BY <2>1 DEF Messages!FeedDetecting
  <2> HIDE DEF buf
  <2>4. CASE p = Messages!Split("detecting", buf, <<>>, <<>>)
    BY <1>2, <1>4, <2>2, <2>4 DEF Messages!Split, MPushed, Messages!Think, buf
  <2>5. CASE p = Messages!Split("passthrough", <<>>, <<>>, buf)
    BY <1>2, <1>4, <2>2, <2>5 DEF Messages!Split, MPushed, Messages!Think, buf
  <2>6. CASE p = Messages!Split("inside", <<>>, <<>>, <<>>)
    BY <1>2, <2>6 DEF Messages!Split, MPushed, Messages!Think
  <2>7. CASE p \in Messages!FeedInside(<<>>, f)
    BY <1>2, <1>3, <2>7
  <2> QED BY <2>3, <2>4, <2>5, <2>6, <2>7
<1>5. CASE t.state = "inside"
  BY <1>1, <1>3, <1>5 DEF Messages!ThinkPush
<1>6. CASE t.state = "afterClose"
  <2>1. PICK a \in {"afterClose", "passthrough"}, y \in {<<>>, <<f>>} :
           p = Messages!Split(a, <<>>, <<>>, y)
    BY <1>6 DEF Messages!ThinkPush, Messages!FeedAfterClose
  <2> QED BY <1>2, <2>1 DEF Messages!Split, MPushed, Messages!Think
<1>7. CASE t.state = "passthrough"
  <2>1. p = Messages!Split("passthrough", <<>>, <<>>, <<f>>)
    BY <1>7 DEF Messages!ThinkPush
  <2> QED BY <1>2, <2>1 DEF Messages!Split, MPushed, Messages!Think
<1> QED BY <1>1, <1>4, <1>5, <1>6, <1>7

\* What the think splitter gives back at the end.
LEMMA MThinkFlushIs ==
    ASSUME NEW t \in Messages!Think
    PROVE  /\ Messages!ThinkFlush(t).reason \in Seq(Nat)
           /\ Messages!ThinkFlush(t).text = IF t.state = "detecting" THEN t.held ELSE <<>>
<1>1. t.held \in Seq(Nat) /\ <<>> \in Seq(Nat)
  BY DEF Messages!Think
<1> QED BY <1>1 DEF Messages!ThinkFlush

\* What was let through and what is held is what came, up to the end of the value.
Passed(got, g, came) ==
    /\ g.mode = "plain" /\ ~g.done => g.held = <<>>
    /\ IF g.done THEN Client!Appended(got, came) ELSE got \o g.held = came

\* A prefix stays one when more is appended.
LEMMA AppendedAppend ==
    ASSUME NEW got \in Seq(Nat), NEW came \in Seq(Nat), NEW f \in Nat, Client!Appended(got, came)
    PROVE  Client!Appended(got, Append(came, f))
<1>1. Len(got) \in Nat /\ Len(came) \in Nat
  BY LenProperties
<1>2. Len(Append(came, f)) = Len(came) + 1 /\ \A i \in 1..Len(came) : Append(came, f)[i] = came[i]
  BY AppendProperties
<1> QED BY <1>1, <1>2 DEF Client!Appended

\* Concatenation and appending one element.
LEMMA ConcatAppend ==
    ASSUME NEW s \in Seq(Nat), NEW t \in Seq(Nat), NEW f \in Nat
    PROVE  s \o Append(t, f) = Append(s \o t, f)
<1>1. <<f>> \in Seq(Nat) /\ s \o t \in Seq(Nat)
  BY ConcatProperties
<1>2. Append(t, f) = t \o <<f>> /\ Append(s \o t, f) = (s \o t) \o <<f>>
  BY <1>1, AppendIsConcat
<1>3. (s \o t) \o <<f>> = s \o (t \o <<f>>)
  BY <1>1, ConcatAssociative, SMTT(20)
<1> QED BY <1>2, <1>3

\* Passed goes on holding when the gate reads one more fragment.
LEMMA MGateFilterIs ==
    ASSUME NEW g \in Messages!Gate, NEW f \in Nat, NEW x \in Messages!GateFilter(g, f),
           NEW got \in Seq(Nat), NEW came \in Seq(Nat), Passed(got, g, came)
    PROVE  /\ x \in [gate : Messages!Gate, args : Seq(Nat)]
           /\ Passed(got \o x.args, x.gate, Append(came, f))
<1> DEFINE buf == Append(g.held, f)
<1>1. /\ g.held \in Seq(Nat) /\ g.done \in BOOLEAN /\ g.mode \in {"undecided", "plain", "encoded"}
      /\ <<>> \in Seq(Nat) /\ <<f>> \in Seq(Nat)
  BY DEF Messages!Gate
<1>2. buf \in Seq(Nat)
  BY <1>1, AppendProperties
<1>3. got \o <<>> = got
  BY ConcatEmptySeq
<1>4. ~g.done => got \o buf = Append(came, f)
  <2>1. ~g.done => got \o g.held = came
    BY DEF Passed
  <2>2. got \o buf = Append(got \o g.held, f)
    BY <1>1, ConcatAppend
  <2> QED BY <2>1, <2>2
<1>5. Client!Appended(Append(came, f), Append(came, f))
  <2>1. Len(Append(came, f)) \in Nat
    BY AppendProperties, LenProperties
  <2> QED BY <2>1 DEF Client!Appended
<1> HIDE DEF buf
<1>6. CASE g.done
  <2>1. x = [gate |-> [mode |-> g.mode, held |-> g.held, done |-> TRUE], args |-> <<>>]
    BY <1>6 DEF Messages!GateFilter, Messages!Pass
  <2>2. x \in [gate : Messages!Gate, args : Seq(Nat)] /\ x.args = <<>> /\ x.gate.done = TRUE
    BY <1>1, <2>1 DEF Messages!Gate
  <2>3. Client!Appended(got, Append(came, f))
    BY <1>6, AppendedAppend DEF Passed
  <2> QED BY <1>3, <2>2, <2>3 DEF Passed
<1>7. CASE ~g.done
  \* Held with the rest, or let through with it; in plain mode there is no rest.
  <2>1. \/ /\ g.mode # "plain"
           /\ \E a \in {"undecided", "encoded"} : x = Messages!Pass(a, buf, FALSE, <<>>)
        \/ /\ g.mode # "plain"
           /\ \E a \in {"plain", "encoded"}, e \in BOOLEAN : x = Messages!Pass(a, <<>>, e, buf)
        \/ /\ g.mode = "plain"
           /\ \E e \in BOOLEAN : x = Messages!Pass("plain", <<>>, e, <<f>>)
    <3>1. CASE g.mode = "undecided"
      <4>1. x \in {Messages!Pass("undecided", buf, FALSE, <<>>)}
                     \cup {Messages!Pass("plain", <<>>, e, buf) : e \in BOOLEAN}
                     \cup {Messages!Pass("encoded", buf, FALSE, <<>>), Messages!Pass("encoded", <<>>, TRUE, buf)}
        BY <1>7, <3>1 DEF Messages!GateFilter, Messages!FilterEncoded, buf
      <4> QED BY <3>1, <4>1
    <3>2. CASE g.mode = "plain"
      BY <1>7, <3>2 DEF Messages!GateFilter
    <3>3. CASE g.mode = "encoded"
      <4>1. x \in {Messages!Pass("encoded", buf, FALSE, <<>>), Messages!Pass("encoded", <<>>, TRUE, buf)}
        BY <1>7, <3>3 DEF Messages!GateFilter, Messages!FilterEncoded, buf
      <4> QED BY <3>3, <4>1
    <3> QED BY <1>1, <3>1, <3>2, <3>3
  <2>2. ASSUME NEW a \in {"undecided", "encoded"}, x = Messages!Pass(a, buf, FALSE, <<>>)
        PROVE  /\ x \in [gate : Messages!Gate, args : Seq(Nat)]
               /\ Passed(got \o x.args, x.gate, Append(came, f))
    <3>1. /\ x \in [gate : Messages!Gate, args : Seq(Nat)] /\ x.args = <<>>
          /\ x.gate.done = FALSE /\ x.gate.held = buf /\ x.gate.mode # "plain"
      BY <1>1, <1>2, <2>2 DEF Messages!Pass, Messages!Gate
    <3> QED BY <1>3, <1>4, <1>7, <3>1 DEF Passed
  <2>3. ASSUME NEW a \in {"plain", "encoded"}, NEW e \in BOOLEAN, NEW y \in {buf, <<f>>},
               got \o y = Append(came, f), x = Messages!Pass(a, <<>>, e, y)
        PROVE  /\ x \in [gate : Messages!Gate, args : Seq(Nat)]
               /\ Passed(got \o x.args, x.gate, Append(came, f))
    <3>1. /\ x \in [gate : Messages!Gate, args : Seq(Nat)] /\ x.args = y
          /\ x.gate.held = <<>> /\ x.gate.done = e
      BY <1>1, <1>2, <2>3 DEF Messages!Pass, Messages!Gate
    <3>2. Append(came, f) \o <<>> = Append(came, f)
      BY ConcatEmptySeq, AppendProperties
    <3> QED BY <1>5, <2>3, <3>1, <3>2 DEF Passed
  <2>4. g.mode = "plain" => got \o <<f>> = Append(came, f)
    <3>1. g.mode = "plain" => buf = <<f>>
      <4>1. g.mode = "plain" => g.held = <<>>
        BY <1>7 DEF Passed
      <4>2. Append(<<>>, f) = <<f>>
        OBVIOUS
      <4> QED BY <4>1, <4>2 DEF buf
    <3> QED BY <1>4, <1>7, <3>1
  <2> QED BY <1>4, <1>7, <2>1, <2>2, <2>3, <2>4
<1> QED BY <1>1, <1>6, <1>7

----------------------------------------------------------------------------
(* The methods of the Messages encoder that consume a chunk *)

\* While the splitter searches for a tag, there is no text but what it holds.
MUndecided(s, m) ==
    ~s.sawReasoning /\ s.think.state = "detecting" =>
        /\ \A i \in 1..Len(s.view.blocks) : s.view.blocks[i].kind # "text"
        /\ \A x, y \in 1..Len(s.think.held) : x < y => s.think.held[x] < s.think.held[y]
        /\ \A x \in 1..Len(s.think.held) : s.think.held[x] <= m

\* A state in which the chunks up to m are consumed.
MReady(s, m) ==
    /\ MGood(s) /\ MNamed(s)
    /\ Rising(s.view.blocks, "text", m)
    /\ MUndecided(s, m)

\* What a part of a chunk that is not a tool call leaves alone.
MWrites(s, r) ==
    /\ r.hasTools = s.hasTools /\ r.stop = s.stop /\ r.err = s.err
    /\ MCalled(r) <=> MCalled(s)
    /\ Later(s.view.blocks, r.view.blocks)
    /\ \A t \in Tool : r.tools[t].gate = s.tools[t].gate /\ MGot(r, t) = MGot(s, t)

\* The blocks of a good state are a sequence of blocks.
LEMMA MGoodBlocks ==
    ASSUME NEW s, MGood(s)
    PROVE  /\ s.view.blocks \in Blocks(Messages!MessageKind)
           /\ Len(s.view.blocks) \in Nat
           /\ s.think \in Messages!Think /\ s.think.held \in Seq(Nat)
           /\ s.sawReasoning \in BOOLEAN
<1>1. s.think \in Messages!Think /\ s.sawReasoning \in BOOLEAN
  BY Zenon DEF MGood, Messages!StreamState
<1>2. s.think.held \in Seq(Nat)
  BY <1>1 DEF Messages!Think
<1> QED BY <1>1, <1>2, MViewBlocks DEF MGood, MLive

\* What emits text or thinking leaves the tools what they got.
LEMMA MEmitsWrites ==
    ASSUME NEW s, MGood(s), NEW r, MEmits(s, r)
    PROVE  MWrites(s, r)
<1>1. r.hasTools = s.hasTools /\ r.stop = s.stop /\ r.err = s.err
  BY DEF MEmits, MKeeps
<1>2. \A t \in Tool : r.tools[t].gate = s.tools[t].gate
  BY Zenon DEF MEmits, MToolsAs
<1>3. \A t \in Tool : MGot(r, t) = MGot(s, t)
  BY MGotKept
<1>4. MCalled(r) <=> MCalled(s)
  BY Zenon DEF MEmits, MToolsAs, MCalled
<1> QED BY <1>1, <1>2, <1>3, <1>4 DEF MWrites, MEmits

\* Two parts of a chunk after each other.
LEMMA MWritesTransitive ==
    ASSUME NEW s, NEW r, NEW q, MGood(s), MGood(r), MGood(q), MWrites(s, r), MWrites(r, q)
    PROVE  MWrites(s, q)
<1>1. Later(s.view.blocks, q.view.blocks)
  BY MGoodBlocks, LaterTransitive DEF MWrites
<1> QED BY <1>1 DEF MWrites

\* The state with another think splitter.
MThinks(s, saw, k) == [s EXCEPT !.sawReasoning = saw, !.think = k]

\* The state of the think splitter concerns no block and no tool.
LEMMA MSetThink ==
    ASSUME NEW s, MGood(s), MNamed(s), NEW saw \in BOOLEAN, NEW k \in Messages!Think,
           NEW r, r = MThinks(s, saw, k)
    PROVE  /\ MGood(r) /\ MNamed(r) /\ MWrites(s, r)
           /\ r.view = s.view /\ r.sawReasoning = saw /\ r.think = k
<1>1. s \in Messages!StreamState
  BY DEF MGood
<1>2. r \in Messages!StreamState
  BY Zenon, <1>1 DEF MThinks, Messages!StreamState
<1>3. r.view = s.view /\ r.tools = s.tools /\ r.next = s.next /\ r.blockOpen = s.blockOpen
  BY Zenon, <1>1 DEF MThinks, Messages!StreamState
<1>4. r.curKind = s.curKind /\ r.curBlock = s.curBlock /\ r.sawReasoning = saw /\ r.think = k
  BY Zenon, <1>1 DEF MThinks, Messages!StreamState
<1>5. r.hasTools = s.hasTools /\ r.stop = s.stop /\ r.err = s.err
  BY Zenon, <1>1 DEF MThinks, Messages!StreamState
<1>6. MGood(r)
  BY <1>2, <1>3, <1>4, <1>5, MGoodAs
<1>7. MNamed(r)
  BY <1>3 DEF MNamed
<1>8. Later(s.view.blocks, r.view.blocks)
  BY <1>3, MGoodBlocks, LaterReflexive
<1>9. ASSUME NEW t \in Tool
      PROVE  r.tools[t].gate = s.tools[t].gate /\ MGot(r, t) = MGot(s, t)
  <2>1. r.tools[t] = s.tools[t] /\ r.view.blocks = s.view.blocks
    BY <1>3
  <2> QED BY <2>1 DEF MGot
<1>10. MWrites(s, r)
  BY <1>3, <1>5, <1>8, <1>9 DEF MWrites, MCalled
<1> QED BY <1>3, <1>4, <1>6, <1>7, <1>10

\* consume, the reasoning of a chunk.
LEMMA MReasoningReady ==
    ASSUME NEW s, NEW m \in Nat, MReady(s, m), NEW f \in Nat,
           NEW r, r = Messages!ConsumeReasoning(s, f)
    PROVE  MReady(r, m) /\ MWrites(s, r)
<1> DEFINE x == [s EXCEPT !.sawReasoning = TRUE]
           k == s.think
<1>1. r = Messages!EmitReasoning(x, <<f>>)
  BY DEF Messages!ConsumeReasoning
<1>2. x = MThinks(s, TRUE, k)
  BY Zenon DEF MThinks, MReady, MGood, Messages!StreamState
<1>3. MGood(s) /\ MNamed(s) /\ k \in Messages!Think
  BY MGoodBlocks DEF MReady
<1> HIDE DEF x, k
<1>4. /\ MGood(x) /\ MNamed(x) /\ MWrites(s, x)
      /\ x.view = s.view /\ x.sawReasoning = TRUE
  BY <1>2, <1>3, MSetThink, ZenonT(40)
<1>5. MEmits(x, r) /\ Spares(x.view.blocks, r.view.blocks, "text")
  <2>1. <<f>> \in Seq(Nat)
    OBVIOUS
  <2> QED BY <1>1, <1>4, <2>1, MEmitReasoningGood
<1>6. MGood(r) /\ MNamed(r) /\ r.sawReasoning = TRUE
  BY <1>4, <1>5 DEF MEmits, MKeeps
<1>7. Rising(r.view.blocks, "text", m)
  BY <1>4, <1>5, <1>6, MGoodBlocks, RisingSpared DEF MReady
<1>8. MUndecided(r, m)
  BY <1>6 DEF MUndecided
<1>9. MWrites(s, r)
  BY <1>4, <1>5, <1>6, MEmitsWrites, MWritesTransitive DEF MReady
<1> QED BY <1>6, <1>7, <1>8, <1>9 DEF MReady

\* consume, the content of a chunk, whatever the think splitter makes of it.
LEMMA MContentReady ==
    ASSUME NEW s, NEW m \in Nat, MReady(s, m), NEW r \in Messages!ConsumeContent(s, m + 1)
    PROVE  MReady(r, m + 1) /\ MWrites(s, r)
<1> DEFINE f == m + 1
<1>1. f \in Nat /\ m < f /\ m <= f /\ <<f>> \in Seq(Nat)
  OBVIOUS
<1>2. /\ s.view.blocks \in Blocks(Messages!MessageKind) /\ Len(s.view.blocks) \in Nat
      /\ s.think \in Messages!Think /\ s.think.held \in Seq(Nat) /\ s.sawReasoning \in BOOLEAN
  BY MGoodBlocks DEF MReady
\* A fragment that comes now follows everything there is.
<1>3. ASSUME NEW b \in Blocks(Messages!MessageKind), Rising(b, "text", m)
      PROVE  Follow(b, "text", f, <<f>>)
  <2>1. ASSUME NEW i \in 1..Len(b), b[i].kind = "text", NEW x \in 1..Len(b[i].frags)
        PROVE  b[i].frags[x] < f
    <3>1. b[i].frags[x] <= m
      BY <1>3, <2>1 DEF Rising
    <3>2. b[i].frags[x] \in Nat
      BY <2>1, BlockType, ElementOfSeq
    <3> QED BY <3>1, <3>2
  <2>2. Len(<<f>>) = 1 /\ <<f>>[1] = f
    OBVIOUS
  <2> QED BY <2>1, <2>2 DEF Follow
<1>4. CASE s.sawReasoning
  <2>1. r = Messages!EmitText(s, <<f>>)
    BY <1>4 DEF Messages!ConsumeContent
  <2>2. MEmits(s, r) /\ Rising(r.view.blocks, "text", f)
    BY <1>1, <1>2, <1>3, <2>1, MEmitTextGood DEF MReady
  <2>3. MGood(r) /\ MNamed(r) /\ r.sawReasoning = s.sawReasoning
    BY <2>2 DEF MEmits, MKeeps
  <2>4. MWrites(s, r)
    BY <2>2, MEmitsWrites DEF MReady
  <2>5. MUndecided(r, f)
    BY <1>4, <2>3 DEF MUndecided
  <2> QED BY <2>2, <2>3, <2>4, <2>5 DEF MReady
<1>5. CASE ~s.sawReasoning
  <2>1. PICK p \in Messages!ThinkPush(s.think, f) :
           r = Messages!EmitText(
                 Messages!EmitReasoning([s EXCEPT !.think = p.think], p.reason), p.text)
    BY <1>5 DEF Messages!ConsumeContent, Messages!ContentPushed
  <2> DEFINE x == [s EXCEPT !.think = p.think]
             w == s.sawReasoning
             k == p.think
             y == Messages!EmitReasoning(x, p.reason)
  <2>2. /\ p.think \in Messages!Think /\ p.reason \in Seq(Nat) /\ p.text \in Seq(Nat)
        /\ p.text # <<>> =>
              p.text = <<f>> \/ (s.think.state = "detecting" /\ p.text = Append(s.think.held, f))
        /\ p.think.state = "detecting" =>
              s.think.state = "detecting" /\ p.text = <<>> /\ p.think.held = Append(s.think.held, f)
    BY <1>1, <1>2, MThinkPushIs DEF MPushed
  <2>3. r = Messages!EmitText(y, p.text)
    BY <2>1
  <2>4. x = MThinks(s, w, k)
    BY Zenon DEF MThinks, MReady, MGood, Messages!StreamState
  <2>5. /\ MGood(x) /\ MNamed(x) /\ MWrites(s, x)
        /\ x.view = s.view /\ x.sawReasoning = s.sawReasoning /\ x.think = p.think
    <3>1. MGood(s) /\ MNamed(s) /\ w \in BOOLEAN /\ k \in Messages!Think
      BY <1>2, <2>2 DEF MReady
    <3>2. w = s.sawReasoning /\ k = p.think
      OBVIOUS
    <3> HIDE DEF x, w, k
    <3>3. /\ MGood(x) /\ MNamed(x) /\ MWrites(s, x)
          /\ x.view = s.view /\ x.sawReasoning = w /\ x.think = k
      BY <2>4, <3>1, MSetThink
    <3> QED BY <3>2, <3>3
  <2> HIDE DEF x
  <2>6. MEmits(x, y) /\ Spares(x.view.blocks, y.view.blocks, "text")
    BY <2>2, <2>5, MEmitReasoningGood
  <2> HIDE DEF y
  <2>7. /\ MGood(y) /\ MNamed(y) /\ y.sawReasoning = s.sawReasoning /\ y.think = p.think
        /\ y.view.blocks \in Blocks(Messages!MessageKind)
    BY <2>5, <2>6, MGoodBlocks DEF MEmits, MKeeps
  <2>8. Rising(y.view.blocks, "text", m)
    BY <1>2, <2>5, <2>6, <2>7, RisingSpared DEF MReady
  <2>9. s.think.state = "detecting" =>
           \A i \in 1..Len(y.view.blocks) : y.view.blocks[i].kind # "text"
    BY <1>5, <2>5, <2>6 DEF MReady, MUndecided, Spares
  <2>10. s.think.state = "detecting" =>
            LET h == Append(s.think.held, f) IN
            /\ \A a, b \in 1..Len(h) : a < b => h[a] < h[b]
            /\ \A a \in 1..Len(h) : h[a] <= f
    <3> DEFINE h == Append(s.think.held, f)
    <3> SUFFICES ASSUME s.think.state = "detecting"
                 PROVE  /\ \A a, b \in 1..Len(h) : a < b => h[a] < h[b]
                        /\ \A a \in 1..Len(h) : h[a] <= f
      OBVIOUS
    <3>1. /\ \A a, b \in 1..Len(s.think.held) : a < b => s.think.held[a] < s.think.held[b]
          /\ \A a \in 1..Len(s.think.held) : s.think.held[a] <= m
      BY <1>5 DEF MReady, MUndecided
    <3>2. /\ Len(h) = Len(s.think.held) + 1 /\ Len(s.think.held) \in Nat
          /\ \A a \in 1..Len(s.think.held) : h[a] = s.think.held[a]
          /\ h[Len(s.think.held) + 1] = f
          /\ \A a \in 1..Len(s.think.held) : s.think.held[a] \in Nat
      <4> DEFINE l == s.think.held
      <4>1. l \in Seq(Nat)
        BY <1>2
      <4> HIDE DEF l
      <4>2. Len(l) \in Nat /\ \A a \in 1..Len(l) : l[a] \in Nat
        BY <4>1, LenProperties, ElementOfSeq
      <4>3. /\ Len(Append(l, f)) = Len(l) + 1 /\ Append(l, f)[Len(l) + 1] = f
            /\ \A a \in 1..Len(l) : Append(l, f)[a] = l[a]
        BY <1>1, <4>1, AppendProperties
      <4> QED BY <4>2, <4>3 DEF l
    <3> HIDE DEF h
    <3>3. \A a \in 1..Len(h) : h[a] <= f
      BY <1>1, <3>1, <3>2, SMTT(20)
    <3>4. ASSUME NEW a \in 1..Len(h), NEW b \in 1..Len(h), a < b
          PROVE  h[a] < h[b]
      <4>1. a \in 1..Len(s.think.held)
        BY <3>2, <3>4
      <4>2. CASE b \in 1..Len(s.think.held)
        BY <3>1, <3>2, <3>4, <4>1, <4>2
      <4>3. CASE b = Len(s.think.held) + 1
        BY <1>1, <3>1, <3>2, <4>1, <4>3, SMTT(20)
      <4> QED BY <3>2, <4>2, <4>3, SMTT(20)
    <3> QED BY <3>3, <3>4
  <2>11. Follow(y.view.blocks, "text", f, p.text)
    <3>1. CASE p.text = <<>>
      <4>1. Len(p.text) = 0
        BY <3>1
      <4> QED BY <4>1 DEF Follow
    <3>2. CASE p.text = <<f>>
      BY <1>3, <2>7, <2>8, <3>2
    <3>3. CASE s.think.state = "detecting" /\ p.text = Append(s.think.held, f)
      BY <2>9, <2>10, <3>3 DEF Follow
    <3> QED BY <2>2, <3>1, <3>2, <3>3
  <2>12. MEmits(y, r) /\ Rising(r.view.blocks, "text", f)
    BY <1>1, <2>2, <2>3, <2>7, <2>8, <2>11, MEmitTextGood
  <2>13. MGood(r) /\ MNamed(r) /\ r.sawReasoning = s.sawReasoning /\ r.think = p.think
    BY <2>7, <2>12 DEF MEmits, MKeeps
  <2>14. MWrites(s, r)
    <3>1. MWrites(x, y) /\ MWrites(y, r)
      BY <2>5, <2>6, <2>7, <2>12, MEmitsWrites
    <3>2. MWrites(s, y)
      BY <2>5, <2>7, <3>1, MWritesTransitive DEF MReady
    <3> QED BY <2>7, <2>13, <3>1, <3>2, MWritesTransitive DEF MReady
  <2>15. MUndecided(r, f)
    <3> SUFFICES ASSUME p.think.state = "detecting"
                 PROVE  /\ \A i \in 1..Len(r.view.blocks) : r.view.blocks[i].kind # "text"
                        /\ \A a, b \in 1..Len(p.think.held) : a < b => p.think.held[a] < p.think.held[b]
                        /\ \A a \in 1..Len(p.think.held) : p.think.held[a] <= f
      BY <2>13 DEF MUndecided
    <3>1. r = y
      BY <2>2, <2>3 DEF Messages!EmitText
    <3> QED BY <2>2, <2>9, <2>10, <3>1
  <2> QED BY <2>12, <2>13, <2>14, <2>15 DEF MReady
<1> QED BY <1>2, <1>4, <1>5

\* What is ready for a chunk is ready for a later one.
LEMMA MReadyLater ==
    ASSUME NEW s, NEW m \in Nat, MReady(s, m)
    PROVE  MReady(s, m + 1)
<1>1. s.view.blocks \in Blocks(Messages!MessageKind) /\ s.think.held \in Seq(Nat)
  BY MGoodBlocks DEF MReady
<1>2. Rising(s.view.blocks, "text", m + 1)
  <2>1. Spares(s.view.blocks, s.view.blocks, "text") /\ m <= m + 1 /\ m + 1 \in Nat
    BY DEF Spares
  <2> QED BY <1>1, <2>1, RisingSpared DEF MReady
<1>3. \A x \in 1..Len(s.think.held) : s.think.held[x] \in Nat
  BY <1>1, ElementOfSeq
<1>4. MUndecided(s, m + 1)
  BY <1>3 DEF MReady, MUndecided
<1> QED BY <1>2, <1>4 DEF MReady

\* finish, what the think splitter still holds: it comes after all text before.
LEMMA MFlushGood ==
    ASSUME NEW s, NEW m \in Nat, MReady(s, m), NEW r, r = Messages!FlushThink(s)
    PROVE  MGood(r) /\ MNamed(r) /\ Rising(r.view.blocks, "text", m) /\ MWrites(s, r)
<1>1. /\ s.view.blocks \in Blocks(Messages!MessageKind)
      /\ s.think \in Messages!Think /\ s.think.held \in Seq(Nat) /\ s.sawReasoning \in BOOLEAN
  BY MGoodBlocks DEF MReady
<1>2. CASE s.sawReasoning
  <2>1. r = s
    BY <1>2 DEF Messages!FlushThink
  <2>2. MEmits(s, s)
    BY MEmitsNothing DEF MReady
  <2> QED BY <2>1, <2>2, MEmitsWrites DEF MReady
<1>3. CASE ~s.sawReasoning
  <2> DEFINE q == Messages!ThinkFlush(s.think)
             w == s.sawReasoning
             k == [s.think EXCEPT !.held = <<>>]
             x == [s EXCEPT !.think.held = <<>>]
             y == Messages!EmitReasoning(x, q.reason)
  <2>1. r = Messages!EmitText(y, q.text)
    BY <1>3 DEF Messages!FlushThink
  <2>2. q.reason \in Seq(Nat) /\ q.text = IF s.think.state = "detecting" THEN s.think.held ELSE <<>>
    BY <1>1, MThinkFlushIs
  <2>3. q.text \in Seq(Nat)
    BY <1>1, <2>2
  <2> HIDE DEF q
  <2>4. k \in Messages!Think
    <3>1. <<>> \in Seq(Nat)
      OBVIOUS
    <3> QED BY <1>1, <3>1 DEF Messages!Think
  <2>13. x = MThinks(s, w, k)
    <3>1. x = [s EXCEPT !.think = k]
      OBVIOUS
    <3> HIDE DEF x, k
    <3> QED BY Zenon, <3>1 DEF MThinks, MReady, MGood, Messages!StreamState
  <2>14. MGood(s) /\ MNamed(s) /\ w \in BOOLEAN
    BY <1>1 DEF MReady
  <2> HIDE DEF k, x, w
  <2>5. MGood(x) /\ MNamed(x) /\ MWrites(s, x) /\ x.view = s.view
    BY <2>4, <2>13, <2>14, MSetThink
  <2>6. MEmits(x, y) /\ Spares(x.view.blocks, y.view.blocks, "text")
    BY <2>2, <2>5, MEmitReasoningGood
  <2> HIDE DEF y
  <2>7. MGood(y) /\ MNamed(y) /\ y.view.blocks \in Blocks(Messages!MessageKind)
    BY <2>6, MGoodBlocks DEF MEmits
  <2>8. Rising(y.view.blocks, "text", m)
    BY <1>1, <2>5, <2>6, <2>7, RisingSpared DEF MReady
  <2>9. Follow(y.view.blocks, "text", m, q.text)
    <3>1. CASE s.think.state = "detecting"
      <4>1. /\ \A a, b \in 1..Len(q.text) : a < b => q.text[a] < q.text[b]
            /\ \A a \in 1..Len(q.text) : q.text[a] <= m
        BY <1>3, <2>2, <3>1 DEF MReady, MUndecided
      <4>2. \A i \in 1..Len(y.view.blocks) : y.view.blocks[i].kind # "text"
        BY <1>3, <2>5, <2>6, <3>1 DEF MReady, MUndecided, Spares
      <4> QED BY <4>1, <4>2 DEF Follow
    <3>2. CASE s.think.state # "detecting"
      <4>1. Len(q.text) = 0
        BY <2>2, <3>2
      <4> QED BY <4>1 DEF Follow
    <3> QED BY <3>1, <3>2
  <2>10. MEmits(y, r) /\ Rising(r.view.blocks, "text", m)
    BY <2>1, <2>3, <2>7, <2>8, <2>9, MEmitTextGood
  <2>11. MGood(r) /\ MNamed(r)
    BY <2>10 DEF MEmits
  <2>12. MWrites(s, r)
    <3>1. MWrites(x, y) /\ MWrites(y, r)
      BY <2>5, <2>6, <2>7, <2>10, MEmitsWrites
    <3>2. MWrites(s, y)
      BY <2>5, <2>7, <3>1, MWritesTransitive DEF MReady
    <3> QED BY <2>7, <2>11, <3>1, <3>2, MWritesTransitive DEF MReady
  <2> QED BY <2>10, <2>11, <2>12
<1> QED BY <1>1, <1>2, <1>3

----------------------------------------------------------------------------
(* A tool call, and the end *)

\* A tool that is seen has got what it had.
LEMMA MSeeToolGood ==
    ASSUME NEW s, MGood(s), MNamed(s), NEW t \in Tool, NEW r, r = Messages!SeeTool(s, t)
    PROVE  /\ MGood(r) /\ MNamed(r) /\ r.view = s.view
           /\ r.hasTools /\ r.stop = s.stop /\ r.sawReasoning = s.sawReasoning
           /\ r.think = s.think /\ r.err = s.err
           /\ MCalled(r) <=> MCalled(s)
           /\ \A u \in Tool : r.tools[u].gate = s.tools[u].gate /\ MGot(r, u) = MGot(s, u)
<1> DEFINE mt == [s.tools[t] EXCEPT !.seen = TRUE]
           ts == [s.tools EXCEPT ![t] = mt]
<1>1. s \in Messages!StreamState /\ s.tools \in [Tool -> Messages!ToolState]
  BY Zenon DEF MGood, Messages!StreamState
<1>2. r = [s EXCEPT !.hasTools = TRUE, !.tools = ts]
  BY Zenon, <1>1 DEF Messages!SeeTool, Messages!StreamState
<1>3. s.tools[t] \in Messages!ToolState
  BY <1>1
<1>4. mt \in Messages!ToolState
  BY <1>3 DEF Messages!ToolState
<1>5. mt.started = s.tools[t].started /\ mt.closed = s.tools[t].closed
  BY <1>3 DEF Messages!ToolState
<1>6. mt.named = s.tools[t].named /\ mt.gate = s.tools[t].gate
  BY <1>3 DEF Messages!ToolState
<1>7. mt.block = s.tools[t].block /\ mt.pending = s.tools[t].pending
  BY <1>3 DEF Messages!ToolState
<1> HIDE DEF mt
<1>8. /\ ts \in [Tool -> Messages!ToolState] /\ ts[t] = mt
      /\ \A u \in Tool : u # t => ts[u] = s.tools[u]
  BY <1>1, <1>4
<1> HIDE DEF ts
<1>9. r \in Messages!StreamState
  BY Zenon, <1>1, <1>2, <1>8 DEF Messages!StreamState
<1>10. r.tools = ts /\ r.hasTools = TRUE /\ r.view = s.view
  BY Zenon, <1>1, <1>2 DEF Messages!StreamState
<1>11. /\ r.next = s.next /\ r.blockOpen = s.blockOpen
       /\ r.curKind = s.curKind /\ r.curBlock = s.curBlock
  BY Zenon, <1>1, <1>2 DEF Messages!StreamState
<1>12. /\ r.stop = s.stop /\ r.sawReasoning = s.sawReasoning
       /\ r.think = s.think /\ r.err = s.err
  BY Zenon, <1>1, <1>2 DEF Messages!StreamState
<1>13. \A u \in Tool : /\ r.tools[u].started = s.tools[u].started
                       /\ r.tools[u].closed = s.tools[u].closed
                       /\ r.tools[u].block = s.tools[u].block
                       /\ r.tools[u].pending = s.tools[u].pending
  BY Zenon, <1>5, <1>7, <1>8, <1>10
<1>14. \A u \in Tool : r.tools[u].named = s.tools[u].named /\ r.tools[u].gate = s.tools[u].gate
  BY Zenon, <1>6, <1>8, <1>10
<1>15. MGood(r)
  BY <1>9, <1>10, <1>11, <1>13, <1>14, MGoodAs
<1>16. MNamed(r)
  BY <1>13, <1>14 DEF MNamed
<1>17. ASSUME NEW u \in Tool
       PROVE  MGot(r, u) = MGot(s, u)
  <2>1. /\ r.tools[u].started = s.tools[u].started /\ r.tools[u].block = s.tools[u].block
        /\ r.tools[u].pending = s.tools[u].pending /\ r.view.blocks = s.view.blocks
    BY <1>10, <1>13
  <2> QED BY <2>1 DEF MGot
<1>18. MCalled(r) <=> MCalled(s)
  BY Zenon, <1>14 DEF MCalled
<1> QED BY <1>10, <1>12, <1>14, <1>15, <1>16, <1>17, <1>18

\* Every tool has got what came for it, up to the end of its arguments.
MCounts(s, came) == \A t \in Tool : Passed(MGot(s, t), s.tools[t].gate, came[t])

\* Text and thinking leave the account of the tools right.
LEMMA MCountsKept ==
    ASSUME NEW s, NEW r, MWrites(s, r), NEW came, MCounts(s, came)
    PROVE  MCounts(r, came)
BY Zenon DEF MWrites, MCounts

\* What has come once the delta d of chunk f is consumed.
MCame(s, d, f, came) ==
    IF d.args /\ ~s.tools[d.index].closed THEN [came EXCEPT ![d.index] = Append(@, f)] ELSE came

\* consume, one delta of a tool.
LEMMA MToolReady ==
    ASSUME NEW s, NEW m \in Nat, MReady(s, m), NEW d \in Messages!ToolDelta, NEW f \in Nat,
           NEW came \in [Tool -> Seq(Nat)], MCounts(s, came),
           NEW r \in Messages!ConsumeTool(s, d, f),
           NEW had, had = MCame(s, d, f, came)
    PROVE  /\ MReady(r, m) /\ MCounts(r, had) /\ had \in [Tool -> Seq(Nat)]
           /\ r.hasTools /\ r.stop = s.stop /\ r.err = s.err
           /\ MCalled(r) <=> MCalled(s) \/ (d.name /\ ~s.tools[d.index].closed)
           /\ Later(s.view.blocks, r.view.blocks)
<1> DEFINE t == d.index
<1>1. t \in Tool /\ d.args \in BOOLEAN
  BY DEF Messages!ToolDelta
<1>2. MGood(s) /\ MNamed(s) /\ s.view.blocks \in Blocks(Messages!MessageKind)
  BY MGoodBlocks DEF MReady
<1>3. /\ s.tools[t].gate \in Messages!Gate /\ s.tools[t].closed \in BOOLEAN
      /\ MGot(s, t) \in Seq(Nat)
  BY <1>1, <1>2, MToolTypes
<1>4. had \in [Tool -> Seq(Nat)]
  <2>1. came[t] \in Seq(Nat) /\ Append(came[t], f) \in Seq(Nat)
    BY <1>1, AppendProperties
  <2> QED BY <1>1, <2>1 DEF MCame
<1>5. CASE s.tools[t].closed
  <2> DEFINE v == Messages!SeeTool(s, t)
  <2>1. r = v
    BY <1>5 DEF Messages!ConsumeTool
  <2>2. had = came
    BY <1>5 DEF MCame
  <2> HIDE DEF t
  <2>3. /\ MGood(r) /\ MNamed(r) /\ r.view = s.view
        /\ r.hasTools /\ r.stop = s.stop /\ r.sawReasoning = s.sawReasoning
        /\ r.think = s.think /\ r.err = s.err
        /\ MCalled(r) <=> MCalled(s)
        /\ \A u \in Tool : r.tools[u].gate = s.tools[u].gate /\ MGot(r, u) = MGot(s, u)
    BY <1>1, <1>2, <2>1, MSeeToolGood
  <2>4. Later(s.view.blocks, r.view.blocks)
    BY <1>2, <2>3, LaterReflexive
  <2>5. MCounts(r, had)
    BY <2>2, <2>3 DEF MCounts
  <2>6. MReady(r, m)
    <3>1. r.view.blocks = s.view.blocks
      BY <2>3
    <3>2. MUndecided(r, m)
      BY <2>3, <3>1 DEF MReady, MUndecided
    <3> QED BY <2>3, <3>1, <3>2 DEF MReady
  <2> QED BY <1>4, <1>5, <2>3, <2>4, <2>5, <2>6 DEF t
<1>6. CASE ~s.tools[t].closed
  <2> DEFINE v == Messages!SeeTool(s, t)
             gates == IF d.args THEN Messages!GateFilter(s.tools[t].gate, f)
                                ELSE {[gate |-> s.tools[t].gate, args |-> <<>>]}
  <2>1. PICK g \in gates : r = Messages!ConsumeOpenTool(v, d, g)
    BY <1>6 DEF Messages!ConsumeTool
  <2>2. /\ g \in [gate : Messages!Gate, args : Seq(Nat)]
        /\ Passed(MGot(s, t) \o g.args, g.gate, had[t])
    <3> DEFINE gs == s.tools[t].gate
               got == MGot(s, t)
               ct == came[t]
    <3>1. gs \in Messages!Gate /\ got \in Seq(Nat) /\ ct \in Seq(Nat) /\ Passed(got, gs, ct)
      BY <1>1, <1>3 DEF MCounts
    <3>2. CASE d.args
      <4>1. g \in Messages!GateFilter(gs, f) /\ had[t] = Append(ct, f)
        BY <1>1, <1>6, <3>2 DEF MCame
      <4> HIDE DEF gs, got, ct
      <4>2. /\ g \in [gate : Messages!Gate, args : Seq(Nat)]
            /\ Passed(got \o g.args, g.gate, Append(ct, f))
        BY <3>1, <4>1, MGateFilterIs
      <4> QED BY <4>1, <4>2 DEF got
    <3>3. CASE ~d.args
      <4>1. g = [gate |-> gs, args |-> <<>>] /\ had[t] = ct
        BY <3>3 DEF MCame
      <4> HIDE DEF gs, ct
      <4>2. g.gate = gs /\ g.args = <<>>
        BY <4>1
      <4>3. MGot(s, t) \o <<>> = MGot(s, t)
        BY <1>3, ConcatEmptySeq
      <4>4. g \in [gate : Messages!Gate, args : Seq(Nat)]
        <5>1. <<>> \in Seq(Nat)
          OBVIOUS
        <5> QED BY <3>1, <4>1, <5>1
      <4> QED BY <3>1, <4>1, <4>2, <4>3, <4>4
    <3> QED BY <1>1, <3>2, <3>3
  <2> HIDE DEF v, gates
  <2>3. /\ MGood(r) /\ MNamed(r)
        /\ r.hasTools /\ r.stop = s.stop /\ r.sawReasoning = s.sawReasoning
        /\ MCalled(r) <=> MCalled(s) \/ d.name
        /\ r.think = s.think /\ r.err = s.err
        /\ Later(s.view.blocks, r.view.blocks)
        /\ Spares(s.view.blocks, r.view.blocks, "text")
        /\ r.tools[t].gate = g.gate
        /\ MGot(r, t) = MGot(s, t) \o g.args
        /\ \A u \in Tool : u # t =>
              r.tools[u].gate = s.tools[u].gate /\ MGot(r, u) = MGot(s, u)
    <3>1. r = Messages!ConsumeOpenTool(Messages!SeeTool(s, d.index), d, g)
      BY <2>1 DEF v
    <3>2. g \in [gate : Messages!Gate, args : Seq(Nat)] /\ ~s.tools[d.index].closed
      BY <1>6, <2>2
    <3>3. MFeedsTool(s, r, d.index, g) /\ MNames(s, r, d)
      <4> HIDE DEF t
      <4> QED BY <1>2, <3>1, <3>2, MOpenToolGood
    <3>4. MCalled(r) <=> MCalled(s) \/ d.name
      BY Zenon, <1>1, <3>3 DEF MNames, MCalled
    <3> QED BY <3>3, <3>4 DEF MFeedsTool
  <2>4. \A u \in Tool : u # t => had[u] = came[u]
    BY <1>1 DEF MCame
  <2> HIDE DEF t
  <2>5. MCounts(r, had)
    BY <2>2, <2>3, <2>4 DEF MCounts
  <2>6. MReady(r, m)
    <3>1. r.view.blocks \in Blocks(Messages!MessageKind) /\ m <= m
      BY <2>3, MGoodBlocks
    <3>2. Rising(r.view.blocks, "text", m)
      BY <1>2, <2>3, <3>1, RisingSpared DEF MReady
    <3>3. MUndecided(r, m)
      BY <2>3 DEF MReady, MUndecided, Spares
    <3> QED BY <2>3, <3>2, <3>3 DEF MReady
  <2> QED BY <1>4, <1>6, <2>3, <2>5, <2>6 DEF t
<1> QED BY <1>3, <1>5, <1>6

\* The state after the last event.
MEnded(s, m, r) ==
    /\ r \in Messages!StreamState
    /\ r.view.legal /\ r.view.phase = IF s.err THEN "failed" ELSE "completed"
    /\ \A i \in 1..Len(r.view.blocks) : ~r.view.blocks[i].open
    /\ Rising(r.view.blocks, "text", m)
    /\ MUsed(r) /\ r.hasTools = s.hasTools /\ r.err = s.err
    /\ r.stop = IF s.err \/ s.stop # "" THEN s.stop ELSE "end_turn"
    /\ Later(s.view.blocks, r.view.blocks)
    /\ MCalled(r) <=> MCalled(s)
    /\ \A t \in Tool : r.tools[t].gate = s.tools[t].gate /\ MGot(r, t) = MGot(s, t)

\* The state after the last event.
MEndWith(c, stop, w) == [c EXCEPT !.stop = stop, !.view = w]

\* message_stop and error are legal when no block is open.
LEMMA MEndView ==
    ASSUME NEW v, MLive(v), \A i \in 1..Len(v.blocks) : ~v.blocks[i].open,
           NEW o \in Messages!Client!Outcome, NEW w, w = Messages!Client!EndStream(v, o)
    PROVE  /\ w \in Messages!Client!View /\ w.legal /\ w.phase = o /\ w.blocks = v.blocks
<1>1. v \in Messages!Client!View /\ v.legal = TRUE /\ v.phase = "open"
  BY DEF MLive, Messages!Client!View
<1>2. Messages!Client!OpenBlocks(v) = {}
  BY <1>1, MViewBlocks DEF Messages!Client!OpenBlocks
<1>3. w = [v EXCEPT !.phase = o, !.legal = TRUE]
  BY <1>1, <1>2 DEF Messages!Client!EndStream
<1>4. w \in Messages!Client!View
  BY <1>1, <1>3 DEF Messages!Client!View, Messages!Client!Phase
<1>5. w.legal = TRUE /\ w.phase = o /\ w.blocks = v.blocks
  BY <1>1, <1>3 DEF Messages!Client!View
<1> QED BY <1>4, <1>5

\* finish: think splitter, blocks and tools, stop reason and last event.
LEMMA MFinishGood ==
    ASSUME NEW s, NEW m \in Nat, MReady(s, m), NEW r, r = Messages!FinishStream(s)
    PROVE  MEnded(s, m, r)
<1> DEFINE q == IF s.err THEN s ELSE Messages!FlushThink(s)
           c == Messages!CloseBlock(q)
           e == Messages!CloseTools(c)
           o == IF s.err THEN "failed" ELSE "completed"
           w == Messages!Client!EndStream(e.view, o)
           stop == IF s.err \/ e.stop # "" THEN e.stop ELSE "end_turn"
<1>1. s \in Messages!StreamState /\ s.err \in BOOLEAN /\ s.view.phase = "open"
  BY Zenon DEF MReady, MGood, MLive, Messages!StreamState
<1>2. Messages!EnsureStarted(s) = s
  BY <1>1 DEF Messages!EnsureStarted
<1>3. r = IF s.err THEN [e EXCEPT !.view = w]
          ELSE [e EXCEPT !.stop = IF e.stop = "" THEN "end_turn" ELSE e.stop, !.view = w]
  BY <1>2 DEF Messages!FinishStream
<1>4. MGood(q) /\ MNamed(q) /\ Rising(q.view.blocks, "text", m) /\ MWrites(s, q)
  <2>1. CASE s.err
    <3>1. MEmits(s, s)
      BY MEmitsNothing DEF MReady
    <3> QED BY <2>1, <3>1, MEmitsWrites DEF MReady
  <2>2. CASE ~s.err
    <3> DEFINE x == Messages!FlushThink(s)
    <3>1. q = x
      BY <2>2
    <3> HIDE DEF q
    <3>2. MGood(x) /\ MNamed(x) /\ Rising(x.view.blocks, "text", m) /\ MWrites(s, x)
      BY MFlushGood
    <3> QED BY <3>1, <3>2
  <2> QED BY <1>1, <2>1, <2>2
<1> HIDE DEF q
<1>5. /\ MGood(c) /\ ~c.blockOpen /\ MKeeps(q, c) /\ c.tools = q.tools
      /\ SameWords(q.view.blocks, c.view.blocks) /\ Later(q.view.blocks, c.view.blocks)
  BY <1>4, MCloseBlockGood
<1> HIDE DEF c
<1>6. MNamed(c)
  BY <1>4, <1>5 DEF MNamed
<1>7. /\ MGood(e) /\ MKeeps(c, e) /\ MToolsAs(c, e)
      /\ \A i \in 1..Len(e.view.blocks) : ~e.view.blocks[i].open
      /\ SameWords(c.view.blocks, e.view.blocks) /\ Later(c.view.blocks, e.view.blocks)
  BY <1>5, <1>6, MCloseToolsGood
<1> HIDE DEF e
<1>8. MEmits(q, c)
  <2>1. MToolsAs(q, c)
    BY <1>5 DEF MToolsAs
  <2> QED BY <1>5, <1>6, <2>1, SameSpares DEF MEmits
<1>9. MEmits(c, e)
  <2>1. MNamed(e)
    BY <1>6, <1>7, MNamedAs
  <2> QED BY <1>7, <2>1, SameSpares DEF MEmits
<1>10. MWrites(s, e)
  <2>1. MWrites(q, c) /\ MWrites(c, e)
    BY <1>4, <1>5, <1>8, <1>9, MEmitsWrites
  <2>2. MWrites(s, c)
    BY <1>4, <1>5, <2>1, MWritesTransitive DEF MReady
  <2> QED BY <1>5, <1>7, <2>1, <2>2, MWritesTransitive DEF MReady
<1>11. Rising(e.view.blocks, "text", m)
  <2>1. Spares(q.view.blocks, c.view.blocks, "text") /\ Spares(c.view.blocks, e.view.blocks, "text")
    BY <1>5, <1>7, SameSpares
  <2>2. Spares(q.view.blocks, e.view.blocks, "text")
    BY <2>1, SpareTransitive
  <2>3. /\ q.view.blocks \in Blocks(Messages!MessageKind)
        /\ e.view.blocks \in Blocks(Messages!MessageKind) /\ m <= m
    BY <1>4, <1>7, MGoodBlocks
  <2> QED BY <1>4, <2>2, <2>3, RisingSpared
<1>12. w \in Messages!Client!View /\ w.legal /\ w.phase = o /\ w.blocks = e.view.blocks
  <2> DEFINE v == e.view
  <2>1. MLive(v) /\ \A i \in 1..Len(v.blocks) : ~v.blocks[i].open
    BY <1>7 DEF MGood
  <2>2. o \in Messages!Client!Outcome
    BY DEF Messages!Client!Outcome
  <2>3. w = Messages!Client!EndStream(v, o)
    OBVIOUS
  <2> HIDE DEF w, o, v
  <2>4. w \in Messages!Client!View /\ w.legal /\ w.phase = o /\ w.blocks = v.blocks
    BY <2>1, <2>2, <2>3, MEndView
  <2> QED BY <2>4 DEF v
<1>13. e \in Messages!StreamState /\ e.stop \in Messages!StopReason
  BY Zenon, <1>7 DEF MGood, Messages!StreamState
<1>14. r = MEndWith(e, stop, w)
  <2> HIDE DEF w
  <2>1. CASE s.err
    <3>1. r = [e EXCEPT !.view = w] /\ stop = e.stop
      BY <1>3, <2>1
    <3> HIDE DEF stop
    <3> QED BY Zenon, <1>13, <3>1 DEF MEndWith, Messages!StreamState
  <2>2. CASE ~s.err
    <3>1. r = [e EXCEPT !.stop = stop, !.view = w]
      BY <1>3, <2>2
    <3> QED BY <3>1 DEF MEndWith
  <2> QED BY Zenon, <1>1, <2>1, <2>2
<1>15. stop \in Messages!StopReason
  BY Zenon, <1>13 DEF Messages!StopReason
<1>16. stop = IF s.err \/ s.stop # "" THEN s.stop ELSE "end_turn"
  BY <1>10 DEF MWrites
<1> HIDE DEF w, stop
<1>17. r \in Messages!StreamState
  BY Zenon, <1>12, <1>13, <1>14, <1>15 DEF MEndWith, Messages!StreamState
<1>18. r.view = w /\ r.stop = stop /\ r.tools = e.tools
  BY Zenon, <1>13, <1>14 DEF MEndWith, Messages!StreamState
<1>19. r.hasTools = e.hasTools /\ r.err = e.err
  BY Zenon, <1>13, <1>14 DEF MEndWith, Messages!StreamState
<1>20. r.view.blocks = e.view.blocks
  BY <1>12, <1>18
<1>21. ASSUME NEW t \in Tool
       PROVE  r.tools[t].gate = s.tools[t].gate /\ MGot(r, t) = MGot(s, t)
  <2>1. MGot(r, t) = MGot(e, t)
    BY <1>18, <1>20 DEF MGot
  <2>2. r.tools[t].gate = e.tools[t].gate
    BY <1>18
  <2> QED BY <1>10, <2>1, <2>2 DEF MWrites
<1>22. MUsed(r)
  BY <1>7, <1>18, <1>20 DEF MGood, MUsed, MHas, MCalled
<1>23. r.hasTools = s.hasTools /\ r.err = s.err
  BY <1>10, <1>19 DEF MWrites
<1>24. Later(s.view.blocks, r.view.blocks)
  BY <1>10, <1>20 DEF MWrites
<1>25. r.view.legal /\ r.view.phase = o
  BY <1>12, <1>18
<1>26. MCalled(r) <=> MCalled(s)
  BY <1>10, <1>18 DEF MWrites, MCalled
<1> QED BY Zenon, <1>7, <1>11, <1>16, <1>26, <1>17, <1>18, <1>20, <1>21, <1>22, <1>23, <1>24, <1>25 DEF MEnded

----------------------------------------------------------------------------
(* The inductive invariant of a Messages stream *)

\* Nothing has happened.
MStarts ==
    /\ st = Messages!NewStreamState
    /\ n = 0 /\ fed = [t \in Tool |-> <<>>]
    /\ up.error = FALSE /\ up.finish = "" /\ up.late = FALSE /\ up.calls = "none"

\* What the encoder remembers of finish reasons and tool calls is what the upstream said.
MTold(s, u) ==
    /\ s.hasTools <=> u.calls # "none"
    /\ MCalled(s) <=> u.calls = "named"
    /\ u.finish # "" /\ ~u.late => s.stop = Messages!AnthropicStopReason(u.finish, s.hasTools)
    /\ s.stop = "max_tokens" <=> u.finish = "length"
    /\ s.stop = "tool_use" => u.finish = "tool_calls" \/ u.calls # "none"

\* The upstream is being read.
MScans ==
    /\ MReady(st, n) /\ MCounts(st, fed)
    /\ st.err = up.error
    /\ MTold(st, up)

\* The last event is sent.
MStops ==
    /\ st.view.phase = IF up.error THEN "failed" ELSE "completed"
    /\ st.view.legal
    /\ \A i \in 1..Len(st.view.blocks) : ~st.view.blocks[i].open
    /\ Rising(st.view.blocks, "text", n) /\ MCounts(st, fed)
    /\ Messages!StopReasonTold

MInv == /\ Messages!TypeOK
        /\ pc = "start" => MStarts
        /\ pc \in {"scan", "tools"} => MScans
        /\ pc = "closed" => MStops

\* What one step does to the client's view.
MOnward(v, w) ==
    /\ w \in Messages!Client!View /\ w.legal
    /\ Later(v.blocks, w.blocks)
    /\ v.phase # "idle" => w.phase # "idle"
    /\ v.phase \in Messages!Client!Outcome => w = v
    /\ w.phase \in Messages!Client!Outcome =>
          \A i \in 1..Len(w.blocks) : ~w.blocks[i].open

\* Between the first and the last event only the blocks matter.
LEMMA MLiveOnward ==
    ASSUME NEW v, MLive(v), NEW w, MLive(w), Later(v.blocks, w.blocks)
    PROVE  MOnward(v, w)
BY DEF MLive, MOnward, Messages!Client!Outcome

\* Before the first event nothing is buffered, open or sent.
LEMMA MInitInv ==
    ASSUME Messages!Init
    PROVE  MInv /\ st.view = Client!Idle
<1>1. Messages!Client!Idle \in Messages!Client!View
  <2>1. <<>> \in Seq(Messages!Client!Block)
    OBVIOUS
  <2> QED BY <2>1 DEF Messages!Client!Idle, Messages!Client!View, Messages!Client!Phase
<1>2. Messages!NewTool \in Messages!ToolState
  <2>1. <<>> \in Seq(Nat)
    OBVIOUS
  <2> QED BY <2>1 DEF Messages!NewTool, Messages!ToolState, Messages!NewGate, Messages!Gate
<1>3. Messages!NewThink \in Messages!Think
  <2>1. <<>> \in Seq(Nat)
    OBVIOUS
  <2> QED BY <2>1 DEF Messages!NewThink, Messages!Think
<1>4. Messages!NewStreamState \in Messages!StreamState
  BY <1>1, <1>2, <1>3 DEF Messages!NewStreamState, Messages!StreamState, Messages!StopReason
<1>5. chunk \in [tools : Seq(Messages!ToolDelta), finish : Messages!FinishReason]
  <2>1. <<>> \in Seq(Messages!ToolDelta)
    OBVIOUS
  <2> QED BY Zenon, <2>1 DEF Messages!Init, Messages!NoChunk, Messages!FinishReason
<1>6. fed \in [Tool -> Seq(Nat)]
  <2>1. <<>> \in Seq(Nat)
    OBVIOUS
  <2> QED BY Zenon, <2>1 DEF Messages!Init
<1>7. up \in Messages!UpType
  <2>1. <<>> \in Seq(Answer)
    OBVIOUS
  <2> QED BY Zenon, <2>1 DEF Messages!Init, Messages!FinishReason, Messages!UpType
<1>8. Messages!TypeOK
  BY Zenon, <1>4, <1>5, <1>6, <1>7 DEF Messages!TypeOK, Messages!Init
<1>9. pc = "start" /\ MStarts
  BY Zenon DEF Messages!Init, MStarts
<1>10. st.view = Client!Idle
  BY Zenon DEF Messages!Init, Messages!NewStreamState, Messages!Client!Idle, Client!Idle
<1> QED BY <1>8, <1>9, <1>10 DEF MInv

\* message_start.
LEMMA MBeginGood ==
    ASSUME MInv, Messages!Begin
    PROVE  MInv' /\ MOnward(st.view, st'.view)
<1> DEFINE s == Messages!NewStreamState
           v == [phase |-> "open", blocks |-> <<>>, legal |-> TRUE]
           r == [curKind |-> "", curBlock |-> 0, next |-> 1, blockOpen |-> FALSE,
                 tools |-> [t \in Tool |-> Messages!NewTool],
                 hasTools |-> FALSE, stop |-> "", sawReasoning |-> FALSE,
                 think |-> Messages!NewThink, err |-> FALSE, view |-> v]
<1>1. /\ MStarts /\ Messages!TypeOK /\ pc' = "scan" /\ st' = Messages!EnsureStarted(st)
      /\ UNCHANGED <<chunk, n, fed, up>>
  BY DEF MInv, Messages!Begin
<1>2. st' = r
  BY Zenon, <1>1 DEF MStarts, Messages!EnsureStarted, Messages!NewStreamState,
              Messages!Client!StartStream, Messages!Client!Idle
<1>3. MLive(v)
  <2>1. <<>> \in Seq(Messages!Client!Block)
    OBVIOUS
  <2> QED BY <2>1 DEF MLive, Messages!Client!View, Messages!Client!Phase
<1>4. Messages!NewTool \in Messages!ToolState /\ Messages!NewThink \in Messages!Think
  <2>1. <<>> \in Seq(Nat)
    OBVIOUS
  <2> QED BY <2>1 DEF Messages!NewTool, Messages!ToolState, Messages!NewGate, Messages!Gate,
                      Messages!NewThink, Messages!Think
<1>5. r \in Messages!StreamState
  BY <1>3, <1>4 DEF MLive, Messages!StreamState, Messages!StopReason
<1>6. Len(r.view.blocks) = 0 /\ r.view = v
  OBVIOUS
<1>7. \A t \in Tool : /\ ~r.tools[t].started /\ ~r.tools[t].named
                      /\ r.tools[t].gate = Messages!NewGate /\ r.tools[t].pending = <<>>
  BY DEF Messages!NewTool
<1>8. MGood(r)
  <2>1. MCurrent(r)
    BY <1>6 DEF MCurrent
  <2>2. MTools(r) /\ MOpen(r)
    BY <1>6, <1>7 DEF MTools, MOpen, MHolds
  <2>3. MUsed(r)
    <3> HIDE DEF r
    <3> QED BY <1>6 DEF MUsed, MHas
  <2> QED BY Zenon, <1>3, <1>5, <1>6, <2>1, <2>2, <2>3 DEF MGood
<1>9. MNamed(r)
  BY <1>7 DEF MNamed
<1>10. Rising(r.view.blocks, "text", 0)
  BY <1>6 DEF Rising
<1>11. MUndecided(r, 0)
  <2>1. Len(r.think.held) = 0
    BY DEF Messages!NewThink
  <2> QED BY <1>6, <2>1 DEF MUndecided
<1>12. \A t \in Tool : MGot(r, t) = <<>>
  <2>1. <<>> \o <<>> = <<>>
    OBVIOUS
  <2> QED BY Zenon, <1>7, <2>1 DEF MGot
<1>13. r.err = FALSE
  OBVIOUS
<1> HIDE DEF r
<1>14. MCounts(r, fed)
  <2>1. \A t \in Tool : fed[t] = <<>>
    BY Zenon, <1>1 DEF MStarts
  <2>2. <<>> \o <<>> = <<>>
    OBVIOUS
  <2>3. ASSUME NEW t \in Tool
        PROVE  Passed(MGot(r, t), r.tools[t].gate, fed[t])
    <3>1. /\ r.tools[t].gate.mode = "undecided" /\ r.tools[t].gate.held = <<>>
          /\ r.tools[t].gate.done = FALSE
      BY <1>7 DEF Messages!NewGate
    <3>2. MGot(r, t) = <<>> /\ fed[t] = <<>>
      BY <1>12, <2>1
    <3> QED BY <2>2, <3>1, <3>2 DEF Passed
  <2> QED BY Zenon, <2>3 DEF MCounts
<1>15. (Messages!TypeOK)'
  BY <1>1, <1>2, <1>5 DEF Messages!TypeOK
<1>19. MTold(r, up)
  <2>1. r.hasTools = FALSE /\ r.stop = ""
    BY DEF r
  <2>2. ~MCalled(r)
    BY <1>7 DEF MCalled
  <2> QED BY <1>1, <2>1, <2>2 DEF MStarts, MTold
<1>16. MScans'
  BY Zenon, <1>1, <1>2, <1>8, <1>9, <1>10, <1>11, <1>13, <1>14, <1>19 DEF MStarts, MScans, MReady
<1>17. MInv'
  BY <1>1, <1>15, <1>16 DEF MInv
<1>18. MOnward(st.view, v)
  <2>1. st.view.blocks = <<>> /\ st.view.phase = "idle"
    BY Zenon, <1>1 DEF MStarts, Messages!NewStreamState, Messages!Client!Idle
  <2>2. Later(<<>>, <<>>)
    BY DEF Later
  <2> QED BY <1>3, <2>1, <2>2 DEF MOnward, MLive, Messages!Client!Outcome
<1> QED BY <1>2, <1>6, <1>17, <1>18

\* What the steps between the first and the last event have to show.
LEMMA MScansInv ==
    ASSUME MInv, pc \in {"scan", "tools"}, pc' \in {"scan", "tools"},
           (Messages!TypeOK)', MScans', Later(st.view.blocks, st'.view.blocks)
    PROVE  MInv' /\ MOnward(st.view, st'.view)
<1>1. MInv'
  BY DEF MInv
<1>2. MLive(st.view) /\ MLive(st'.view)
  BY Zenon DEF MInv, MScans, MReady, MGood
<1> QED BY <1>1, <1>2, MLiveOnward

\* A stream is started once.
LEMMA MStartedIs ==
    ASSUME NEW s, MGood(s)
    PROVE  Messages!EnsureStarted(s) = s
BY DEF MGood, MLive, Messages!EnsureStarted

\* A chunk: its reasoning, then its content.
LEMMA MTakeGood ==
    ASSUME MInv, NEW c \in Messages!ChunkShape, Messages!Take(c),
           up'.error = up.error, up'.finish = up.finish, up'.late = up.late,
           up'.calls = up.calls, up' \in Messages!UpType
    PROVE  MInv' /\ MOnward(st.view, st'.view)
<1> DEFINE b == Messages!EnsureStarted(st)
           r == IF c.reason THEN Messages!ConsumeReasoning(b, n + 1) ELSE b
<1>1. /\ pc = "scan" /\ n' = n + 1
      /\ IF c.content THEN st' \in Messages!ConsumeContent(r, n + 1) ELSE st' = r
      /\ chunk' = [tools |-> c.tools, finish |-> c.finish]
      /\ pc' \in {"scan", "tools"} /\ fed' = fed
  BY Zenon DEF Messages!Take
<1>2. MReady(st, n) /\ MScans /\ Messages!TypeOK /\ n \in Nat
  BY Zenon, <1>1 DEF MInv, MScans, Messages!TypeOK
<1>3. b = st
  BY <1>2, MStartedIs DEF MReady
<1>4. MReady(r, n) /\ MWrites(st, r)
  <2>1. CASE c.reason
    <3> DEFINE f == n + 1
    <3>1. f \in Nat /\ r = Messages!ConsumeReasoning(st, f)
      BY <1>2, <1>3, <2>1
    <3> HIDE DEF f, r
    <3> QED BY <1>2, <3>1, MReasoningReady
  <2>2. CASE ~c.reason
    <3>1. r = st
      BY <1>3, <2>2
    <3> HIDE DEF r
    <3>2. MEmits(st, st)
      BY <1>2, MEmitsNothing DEF MReady
    <3>3. MWrites(st, st)
      BY <1>2, <3>2, MEmitsWrites DEF MReady
    <3> QED BY <1>2, <3>1, <3>3
  <2> QED BY <2>1, <2>2
<1> HIDE DEF b, r
<1>5. MReady(st', n + 1) /\ MWrites(r, st')
  <2>1. CASE c.content
    <3>1. st' \in Messages!ConsumeContent(r, n + 1)
      BY <1>1, <2>1
    <3> QED BY <1>2, <1>4, <3>1, MContentReady
  <2>2. CASE ~c.content
    <3>1. st' = r
      BY <1>1, <2>2
    <3>2. MEmits(r, r)
      BY <1>4, MEmitsNothing DEF MReady
    <3>3. MWrites(r, r)
      BY <1>4, <3>2, MEmitsWrites DEF MReady
    <3>4. MReady(r, n + 1)
      BY <1>2, <1>4, MReadyLater
    <3> QED BY <3>1, <3>3, <3>4
  <2> QED BY <2>1, <2>2
<1>6. MWrites(st, st')
  BY <1>2, <1>4, <1>5, MWritesTransitive DEF MReady
<1>7. MCounts(st', fed')
  <2>1. MCounts(st', fed)
    BY Zenon, <1>2, <1>6, MCountsKept DEF MScans
  <2> QED BY <1>1, <2>1
<1>8. st' \in Messages!StreamState
  BY <1>5 DEF MReady, MGood
<1>9. chunk' \in [tools : Seq(Messages!ToolDelta), finish : Messages!FinishReason]
  BY <1>1 DEF Messages!ChunkShape
<1>10. (Messages!TypeOK)'
  BY <1>1, <1>2, <1>8, <1>9 DEF Messages!TypeOK
<1>11. MReady(st, n)'
  BY <1>1, <1>5
<1>12. MCounts(st, fed)'
  BY <1>7
<1>13. MScans'
  <2>1. MTold(st', up')
    BY <1>2, <1>6 DEF MScans, MTold, MWrites
  <2> QED BY Zenon, <1>2, <1>6, <1>11, <1>12, <2>1 DEF MScans, MWrites
<1>14. Later(st.view.blocks, st'.view.blocks)
  BY <1>6 DEF MWrites
<1> QED BY <1>1, <1>10, <1>13, <1>14, MScansInv

\* What the upstream sends has the shape of a chunk, in each instance.
LEMMA MChunks == Chunk \subseteq Messages!ChunkShape /\ Answer \subseteq Messages!AnswerShape
<1>1. ChunkShape = Messages!ChunkShape /\ AnswerShape = Messages!AnswerShape
  BY DEF ChunkShape, Messages!ChunkShape, AnswerShape, Messages!AnswerShape,
         ToolDelta, Messages!ToolDelta, FinishReason, Messages!FinishReason
<1> QED BY <1>1, ConstantsAssumption DEF ConstantsAssumption

\* A chunk of a streamed answer.
LEMMA MReadChunkGood ==
    ASSUME MInv, NEW c \in Chunk, Messages!ReadChunk(c)
    PROVE  MInv' /\ MOnward(st.view, st'.view)
<1>1. c \in Messages!ChunkShape /\ Messages!Take(c) /\ up' = up
  BY MChunks DEF Messages!ReadChunk
<1>2. up \in Messages!UpType
  BY DEF MInv, Messages!TypeOK
<1> QED BY <1>1, <1>2, MTakeGood

\* An answer in one piece.
LEMMA MReadAnswerGood ==
    ASSUME MInv, NEW a \in Answer, Messages!ReadAnswer(a)
    PROVE  MInv' /\ MOnward(st.view, st'.view)
<1> DEFINE c == Messages!ChatJSONToSSE(a)
<1>1. /\ Messages!Take(c)
      /\ up' = [up EXCEPT !.answer = <<a>>]
  BY DEF Messages!ReadAnswer
<1>2. c \in Messages!ChunkShape
  <2>1. a \in Messages!AnswerShape
    BY MChunks
  <2>2. (IF a.finish = "" THEN "stop" ELSE a.finish) \in Messages!FinishReason
    BY Zenon, <2>1 DEF Messages!AnswerShape, Messages!FinishReason
  <2> QED BY Zenon, <2>1, <2>2 DEF Messages!ChatJSONToSSE, Messages!ChunkShape, Messages!AnswerShape
<1>3. up \in Messages!UpType
  BY DEF MInv, Messages!TypeOK
<1>4. <<a>> \in Seq(Answer)
  OBVIOUS
<1>5. up' \in Messages!UpType
  BY <1>1, <1>3, <1>4 DEF Messages!UpType
<1>6. /\ up'.error = up.error /\ up'.finish = up.finish
      /\ up'.late = up.late /\ up'.calls = up.calls
  BY <1>1, <1>3 DEF Messages!UpType
<1> HIDE DEF c
<1> QED BY <1>1, <1>2, <1>5, <1>6, MTakeGood

\* The next tool call of a chunk.
LEMMA MReadToolCallGood ==
    ASSUME MInv, Messages!ReadToolCall
    PROVE  MInv' /\ MOnward(st.view, st'.view)
<1> DEFINE d == Head(chunk.tools)
<1>1. /\ pc = "tools" /\ pc' = pc /\ n' = n
      /\ st' \in Messages!ConsumeTool(st, d, n)
      /\ fed' = IF d.args /\ ~st.tools[d.index].closed
                THEN [fed EXCEPT ![d.index] = Append(@, n)] ELSE fed
  BY Zenon DEF Messages!ReadToolCall
<1>2. /\ chunk' = [chunk EXCEPT !.tools = Tail(@)]
      /\ up' = [up EXCEPT !.late = TRUE, !.calls = Messages!Called(up.calls, d)]
      /\ chunk.tools # <<>>
  BY Zenon DEF Messages!ReadToolCall
<1>3. MScans /\ MReady(st, n) /\ MCounts(st, fed)
  BY Zenon, <1>1 DEF MInv, MScans
<1>4. Messages!TypeOK /\ n \in Nat /\ fed \in [Tool -> Seq(Nat)]
  BY DEF MInv, Messages!TypeOK
<1>5. chunk \in [tools : Seq(Messages!ToolDelta), finish : Messages!FinishReason]
  BY DEF MInv, Messages!TypeOK
<1>6. d \in Messages!ToolDelta /\ Tail(chunk.tools) \in Seq(Messages!ToolDelta)
  <2>1. chunk.tools \in Seq(Messages!ToolDelta)
    BY <1>5
  <2> QED BY Zenon, <1>2, <2>1, HeadTailProperties
<1> HIDE DEF d
<1>7. /\ MReady(st', n) /\ MCounts(st', fed') /\ fed' \in [Tool -> Seq(Nat)]
      /\ st'.hasTools /\ st'.stop = st.stop /\ st'.err = st.err
      /\ MCalled(st') <=> MCalled(st) \/ (d.name /\ ~st.tools[d.index].closed)
      /\ Later(st.view.blocks, st'.view.blocks)
  <2> DEFINE r == st'
             had == fed'
  <2>1. r \in Messages!ConsumeTool(st, d, n) /\ had = MCame(st, d, n, fed)
    BY <1>1 DEF MCame
  <2> HIDE DEF r, had
  <2>2. /\ MReady(r, n) /\ MCounts(r, had) /\ had \in [Tool -> Seq(Nat)]
        /\ r.hasTools /\ r.stop = st.stop /\ r.err = st.err
        /\ MCalled(r) <=> MCalled(st) \/ (d.name /\ ~st.tools[d.index].closed)
        /\ Later(st.view.blocks, r.view.blocks)
    BY <1>3, <1>4, <1>6, <2>1, MToolReady
  <2> QED BY <2>2 DEF r, had
<1>8. chunk' \in [tools : Seq(Messages!ToolDelta), finish : Messages!FinishReason]
  BY Zenon, <1>2, <1>5, <1>6
<1>9. up \in Messages!UpType
  BY <1>4 DEF Messages!TypeOK
<1>10. /\ up' \in Messages!UpType /\ up'.error = up.error /\ up'.finish = up.finish
       /\ up'.late = TRUE /\ up'.calls = Messages!Called(up.calls, d)
  <2> DEFINE k == Messages!Called(up.calls, d)
  <2>1. k \in {"none", "nameless", "named"}
    BY Zenon, <1>9 DEF Messages!Called, Messages!UpType
  <2>2. up' = [up EXCEPT !.late = TRUE, !.calls = k]
    BY <1>2
  <2> HIDE DEF k
  <2>3. /\ up' \in Messages!UpType /\ up'.error = up.error /\ up'.finish = up.finish
        /\ up'.late = TRUE /\ up'.calls = k
    BY <1>9, <2>1, <2>2 DEF Messages!UpType
  <2> QED BY <2>3 DEF k
<1>15. MTold(st', up')
  <2>1. up'.calls # "none" /\ (up'.calls = "named" <=> MCalled(st'))
    BY <1>3, <1>7, <1>10 DEF MScans, MTold, Messages!Called
  <2>2. st.stop = "tool_use" => up.finish = "tool_calls" \/ up.calls # "none"
    BY <1>3 DEF MScans, MTold
  <2>3. st.stop = "max_tokens" <=> up.finish = "length"
    BY <1>3 DEF MScans, MTold
  <2> QED BY <1>7, <1>10, <2>1, <2>2, <2>3 DEF MTold
<1>11. st' \in Messages!StreamState
  BY <1>7 DEF MReady, MGood
<1>12. (Messages!TypeOK)'
  BY Zenon, <1>1, <1>4, <1>7, <1>8, <1>10, <1>11 DEF Messages!TypeOK
<1>13. MReady(st, n)'
  BY <1>1, <1>7
<1>14. MScans'
  BY Zenon, <1>3, <1>7, <1>10, <1>13, <1>15 DEF MScans
<1> QED BY <1>1, <1>7, <1>12, <1>14, MScansInv

\* Only how the stream ends is new.
MAround(s, stop, err) == [s EXCEPT !.stop = stop, !.err = err]

\* How the stream will end concerns no block and no tool.
LEMMA MAroundReady ==
    ASSUME NEW s, NEW m \in Nat, MReady(s, m), NEW stop \in Messages!StopReason,
           NEW err \in BOOLEAN, NEW r, r = MAround(s, stop, err)
    PROVE  /\ MReady(r, m) /\ r.stop = stop /\ r.err = err
           /\ r.view = s.view /\ r.tools = s.tools /\ r.hasTools = s.hasTools
<1>1. s \in Messages!StreamState
  BY DEF MReady, MGood
<1>2. r \in Messages!StreamState
  BY Zenon, <1>1 DEF MAround, Messages!StreamState
<1>3. r.stop = stop /\ r.err = err /\ r.hasTools = s.hasTools
  BY Zenon, <1>1 DEF MAround, Messages!StreamState
<1>4. r.view = s.view /\ r.tools = s.tools /\ r.next = s.next
  BY Zenon, <1>1 DEF MAround, Messages!StreamState
<1>5. r.blockOpen = s.blockOpen /\ r.curKind = s.curKind /\ r.curBlock = s.curBlock
  BY Zenon, <1>1 DEF MAround, Messages!StreamState
<1>6. r.sawReasoning = s.sawReasoning /\ r.think = s.think
  BY Zenon, <1>1 DEF MAround, Messages!StreamState
<1>7. MGood(r)
  BY <1>2, <1>3, <1>4, <1>5, MGoodAs DEF MReady
<1>8. MNamed(r)
  BY <1>4 DEF MReady, MNamed
<1>9. Rising(r.view.blocks, "text", m)
  BY <1>4 DEF MReady
<1>10. MUndecided(r, m)
  BY <1>4, <1>6 DEF MReady, MUndecided
<1> QED BY <1>3, <1>4, <1>7, <1>8, <1>9, <1>10 DEF MReady

\* What a tool got is in its block and its buffer.
LEMMA MSameGot ==
    ASSUME NEW s, NEW r, r.view = s.view, r.tools = s.tools, NEW came, MCounts(s, came)
    PROVE  MCounts(r, came)
<1> SUFFICES ASSUME NEW t \in Tool
             PROVE  Passed(MGot(r, t), r.tools[t].gate, came[t])
  BY Zenon DEF MCounts
<1>1. r.tools[t] = s.tools[t] /\ r.view.blocks = s.view.blocks
  OBVIOUS
<1>2. MGot(r, t) = MGot(s, t)
  BY <1>1 DEF MGot
<1> QED BY <1>1, <1>2 DEF MCounts

\* The finish reason of a chunk.
LEMMA MReadFinishReasonGood ==
    ASSUME MInv, Messages!ReadFinishReason
    PROVE  MInv' /\ MOnward(st.view, st'.view)
<1>1. /\ pc = "tools" /\ pc' = "scan" /\ chunk' = Messages!NoChunk /\ n' = n /\ fed' = fed
      /\ MScans /\ MReady(st, n) /\ MCounts(st, fed)
  BY Zenon DEF Messages!ReadFinishReason, MInv, MScans
<1>2. Messages!TypeOK /\ n \in Nat
  BY DEF MInv, Messages!TypeOK
<1>3. st \in Messages!StreamState /\ st.hasTools \in BOOLEAN /\ st.err \in BOOLEAN
  BY Zenon, <1>2 DEF Messages!TypeOK, Messages!StreamState
<1>4. /\ chunk.finish \in Messages!FinishReason
      /\ up \in Messages!UpType
  BY <1>2 DEF Messages!TypeOK
<1>5. chunk' \in [tools : Seq(Messages!ToolDelta), finish : Messages!FinishReason]
  <2>1. <<>> \in Seq(Messages!ToolDelta)
    OBVIOUS
  <2> QED BY Zenon, <1>1, <2>1 DEF Messages!NoChunk, Messages!FinishReason
<1>6. Later(st.view.blocks, st.view.blocks)
  BY <1>1, MGoodBlocks, LaterReflexive DEF MReady
<1>7. CASE chunk.finish = ""
  <2>1. st' = st /\ up' = up
    BY Zenon, <1>7 DEF Messages!ReadFinishReason
  <2>2. (Messages!TypeOK)'
    BY <1>1, <1>2, <1>5, <2>1 DEF Messages!TypeOK
  <2>3. MScans'
    BY Zenon, <1>1, <2>1 DEF MScans
  <2> QED BY <1>1, <1>6, <2>1, <2>2, <2>3, MScansInv
<1>8. CASE chunk.finish # ""
  <2> DEFINE k == Messages!AnthropicStopReason(chunk.finish, st.hasTools)
             e == st.err
  <2>1. /\ st' = [st EXCEPT !.stop = k]
        /\ up' = [up EXCEPT !.finish = chunk.finish, !.late = FALSE]
    BY Zenon, <1>8 DEF Messages!ReadFinishReason
  <2>2. k \in Messages!StopReason
    BY Zenon, <1>3, <1>4 DEF Messages!AnthropicStopReason, Messages!StopReason, Messages!FinishReason
  <2>3. st' = MAround(st, k, e)
    <3> HIDE DEF k
    <3> QED BY Zenon, <1>3, <2>1 DEF MAround, Messages!StreamState
  <2>4. k = Messages!AnthropicStopReason(chunk.finish, st.hasTools) /\ e = st.err /\ e \in BOOLEAN
    BY <1>3
  <2> HIDE DEF k, e
  <2>5. /\ MReady(st', n) /\ st'.stop = k /\ st'.err = e
        /\ st'.view = st.view /\ st'.tools = st.tools /\ st'.hasTools = st.hasTools
    BY <1>1, <1>2, <2>2, <2>3, <2>4, MAroundReady
  <2>6. /\ up' \in Messages!UpType
        /\ up'.error = up.error /\ up'.finish = chunk.finish
        /\ up'.late = FALSE /\ up'.calls = up.calls
    BY <1>4, <2>1 DEF Messages!UpType
  <2>7. MCounts(st', fed)
    BY <1>1, <2>5, MSameGot
  <2>8. MReady(st, n)' /\ MCounts(st, fed)'
    BY <1>1, <2>5, <2>7
  <2>9. st' \in Messages!StreamState
    BY <2>5 DEF MReady, MGood
  <2>10. (Messages!TypeOK)'
    BY <1>1, <1>2, <1>5, <2>6, <2>9 DEF Messages!TypeOK
  <2>12. MTold(st', up')
    <3>1. /\ k = "max_tokens" <=> chunk.finish = "length"
          /\ k = "tool_use" => chunk.finish = "tool_calls" \/ st.hasTools
      BY Zenon, <1>4, <2>4 DEF Messages!AnthropicStopReason, Messages!FinishReason
    <3>2. /\ st.hasTools <=> up.calls # "none"
          /\ MCalled(st) <=> up.calls = "named"
      BY <1>1 DEF MScans, MTold
    <3>3. MCalled(st') <=> MCalled(st)
      BY <2>5 DEF MCalled
    <3> QED BY Zenon, <2>4, <2>5, <2>6, <3>1, <3>2, <3>3 DEF MTold
  <2>11. MScans'
    BY Zenon, <1>1, <2>4, <2>5, <2>6, <2>8, <2>12 DEF MScans
  <2> QED BY <1>1, <1>6, <2>5, <2>10, <2>11, MScansInv
<1> QED BY Zenon, <1>7, <1>8

\* An error inside the stream.
LEMMA MReadErrorGood ==
    ASSUME MInv, Messages!ReadError
    PROVE  MInv' /\ MOnward(st.view, st'.view)
<1>1. /\ pc = "scan" /\ pc' = pc /\ chunk' = chunk /\ n' = n /\ fed' = fed
      /\ st' = [st EXCEPT !.err = TRUE] /\ up' = [up EXCEPT !.error = TRUE]
  BY DEF Messages!ReadError
<1>2. MScans /\ MReady(st, n) /\ MCounts(st, fed) /\ Messages!TypeOK /\ n \in Nat
  BY Zenon, <1>1 DEF MInv, MScans, Messages!TypeOK
<1> DEFINE k == st.stop
           e == TRUE
<1>3. st \in Messages!StreamState /\ k \in Messages!StopReason
  BY Zenon, <1>2 DEF Messages!TypeOK, Messages!StreamState
<1>4. up \in Messages!UpType
  BY <1>2 DEF Messages!TypeOK
<1>5. st' = MAround(st, k, e)
  BY Zenon, <1>1, <1>3 DEF MAround, Messages!StreamState
<1>6. k = st.stop /\ e = TRUE
  OBVIOUS
<1>15. e \in BOOLEAN
  OBVIOUS
<1> HIDE DEF k, e
<1>7. /\ MReady(st', n) /\ st'.stop = k /\ st'.err = e
      /\ st'.view = st.view /\ st'.tools = st.tools /\ st'.hasTools = st.hasTools
  BY <1>2, <1>3, <1>5, <1>15, MAroundReady
<1>8. /\ up' \in Messages!UpType
      /\ up'.error = TRUE /\ up'.finish = up.finish
      /\ up'.late = up.late /\ up'.calls = up.calls
  BY <1>1, <1>4 DEF Messages!UpType
<1>9. MCounts(st', fed)
  BY <1>2, <1>7, MSameGot
<1>10. MReady(st, n)' /\ MCounts(st, fed)'
  BY <1>1, <1>7, <1>9
<1>11. st' \in Messages!StreamState
  BY <1>7 DEF MReady, MGood
<1>12. (Messages!TypeOK)'
  BY <1>1, <1>2, <1>8, <1>11 DEF Messages!TypeOK
<1>16. MTold(st', up')
  <2>1. MCalled(st') <=> MCalled(st)
    BY <1>7 DEF MCalled
  <2> QED BY Zenon, <1>2, <1>6, <1>7, <1>8, <2>1 DEF MScans, MTold
<1>13. MScans'
  BY Zenon, <1>2, <1>6, <1>7, <1>8, <1>10, <1>16 DEF MScans
<1>14. Later(st.view.blocks, st'.view.blocks)
  BY <1>2, <1>7, MGoodBlocks, LaterReflexive DEF MReady
<1> QED BY <1>1, <1>12, <1>13, <1>14, MScansInv

\* The end of the upstream, or its cut.
LEMMA MReadEndGood ==
    ASSUME MInv, NEW how \in {"done", "cut"}, Messages!ReadEnd(how)
    PROVE  MInv' /\ MOnward(st.view, st'.view)
<1>1. /\ pc = "scan" /\ pc' = "closed" /\ chunk' = chunk /\ n' = n /\ fed' = fed
      /\ st' = Messages!FinishStream(st) /\ up' = [up EXCEPT !.ended = how]
  BY DEF Messages!ReadEnd
<1>2. MScans /\ MReady(st, n) /\ MCounts(st, fed) /\ Messages!TypeOK /\ n \in Nat
  BY Zenon, <1>1 DEF MInv, MScans, Messages!TypeOK
<1>3. up \in Messages!UpType
  BY <1>2 DEF Messages!TypeOK
<1>4. MEnded(st, n, st')
  BY <1>1, <1>2, MFinishGood
<1>5. /\ st' \in Messages!StreamState
      /\ st'.view.legal /\ st'.view.phase = (IF st.err THEN "failed" ELSE "completed")
      /\ \A i \in 1..Len(st'.view.blocks) : ~st'.view.blocks[i].open
      /\ Rising(st'.view.blocks, "text", n)
  BY Zenon, <1>4 DEF MEnded
<1>6. /\ MUsed(st') /\ st'.hasTools = st.hasTools /\ st'.err = st.err
      /\ st'.stop = IF st.err \/ st.stop # "" THEN st.stop ELSE "end_turn"
      /\ Later(st.view.blocks, st'.view.blocks)
      /\ MCalled(st') <=> MCalled(st)
  BY Zenon, <1>4 DEF MEnded
<1>7. /\ up' \in Messages!UpType
      /\ up'.error = up.error /\ up'.finish = up.finish
      /\ up'.late = up.late /\ up'.calls = up.calls
  BY <1>1, <1>3 DEF Messages!UpType
<1>8. MCounts(st', fed)
  BY Zenon, <1>2, <1>4 DEF MEnded, MCounts
<1>9. (Messages!TypeOK)'
  BY <1>1, <1>2, <1>5, <1>7 DEF Messages!TypeOK
<1>10. (Messages!StopReasonTold)'
  <2> SUFFICES ASSUME st'.view.phase = "completed"
               PROVE  /\ MHas(st') <=> up'.calls = "named"
                      /\ st'.stop = "max_tokens" <=> up'.finish = "length"
                      /\ MHas(st') /\ up'.finish \in {"stop", "tool_calls"} /\ ~up'.late =>
                            st'.stop = "tool_use"
                      /\ st'.stop = "tool_use" =>
                            MHas(st') \/ up'.finish = "tool_calls" \/ up'.calls = "nameless"
    <3>1. DOMAIN st'.view.blocks = 1..Len(st'.view.blocks)
      <4>1. st'.view \in Messages!Client!View
        BY Zenon, <1>5 DEF Messages!StreamState
      <4> QED BY <4>1, MViewBlocks
    <3> QED BY Zenon, <3>1 DEF Messages!StopReasonTold, MHas
  <2>1. MTold(st, up) /\ up.calls \in {"none", "nameless", "named"}
    BY Zenon, <1>2, <1>3 DEF MScans, Messages!UpType
  <2>2. MHas(st') <=> MCalled(st)
    <3>1. MHas(st') => MCalled(st)
      BY <1>6 DEF MUsed
    <3>2. ASSUME NEW t \in Tool, st.tools[t].named
          PROVE  MHas(st')
      <4> DEFINE i == st.tools[t].block
      <4>1. st.tools[t].started
        BY <1>2, <3>2 DEF MReady, MNamed
      <4>2. i \in 1..Len(st.view.blocks) /\ st.view.blocks[i].kind = "tool_use"
        BY Zenon, <1>2, <4>1 DEF MReady, MGood, MTools
      <4> HIDE DEF i
      <4>3. Len(st.view.blocks) \in Nat /\ Len(st'.view.blocks) \in Nat
        <5>1. st'.view \in Messages!Client!View
          BY Zenon, <1>5 DEF Messages!StreamState
        <5> QED BY <1>2, <5>1, MGoodBlocks, MViewBlocks DEF MReady
      <4>5. Client!Grows(st.view.blocks[i], st'.view.blocks[i])
        BY <1>6, <4>2, Zenon DEF Later
      <4>6. i \in 1..Len(st'.view.blocks)
        <5>1. Len(st.view.blocks) <= Len(st'.view.blocks)
          BY <1>6, Zenon DEF Later
        <5> QED BY <4>2, <4>3, <5>1
      <4>4. i \in 1..Len(st'.view.blocks) /\ st'.view.blocks[i].kind = "tool_use"
        BY <4>2, <4>5, <4>6, Zenon DEF Client!Grows
      <4> QED BY <4>4 DEF MHas
    <3> QED BY <3>1, <3>2 DEF MCalled
  <2>3. st'.stop = "max_tokens" <=> st.stop = "max_tokens"
    BY Zenon, <1>6
  <2>4. st'.stop = "tool_use" <=> st.stop = "tool_use"
    BY Zenon, <1>6
  <2>5. MCalled(st) /\ up.finish \in {"stop", "tool_calls"} /\ ~up.late => st.stop = "tool_use"
    BY Zenon, <2>1 DEF MTold, Messages!AnthropicStopReason
  <2> QED BY <1>7, <2>1, <2>2, <2>3, <2>4, <2>5 DEF MTold
<1>11. MStops'
  <2>1. Rising(st.view.blocks, "text", n)' /\ MCounts(st, fed)'
    BY <1>1, <1>5, <1>8
  <2> QED BY Zenon, <1>2, <1>5, <1>7, <1>10, <2>1 DEF MScans, MStops
<1>12. MInv'
  BY <1>1, <1>9, <1>11 DEF MInv
<1>13. MOnward(st.view, st'.view)
  <2>1. st'.view \in Messages!Client!View
    BY Zenon, <1>5 DEF Messages!StreamState
  <2>2. st.view.phase = "open"
    BY <1>2 DEF MReady, MGood, MLive
  <2> QED BY Zenon, <1>5, <1>6, <2>1, <2>2 DEF MOnward, Messages!Client!Outcome
<1> QED BY <1>12, <1>13

\* A step of a Messages stream.
LEMMA MStepGood ==
    ASSUME MInv, Messages!Next
    PROVE  MInv' /\ MOnward(st.view, st'.view)
<1>1. CASE Messages!Begin
  BY <1>1, MBeginGood
<1>2. CASE \E c \in Chunk : Messages!ReadChunk(c)
  BY <1>2, MReadChunkGood
<1>3. CASE \E a \in Answer : Messages!ReadAnswer(a)
  BY <1>3, MReadAnswerGood
<1>4. CASE Messages!ReadToolCall
  BY <1>4, MReadToolCallGood
<1>5. CASE Messages!ReadFinishReason
  BY <1>5, MReadFinishReasonGood
<1>6. CASE Messages!ReadError
  BY <1>6, MReadErrorGood
<1>7. CASE \E how \in {"done", "cut"} : Messages!ReadEnd(how)
  BY <1>7, MReadEndGood
<1> QED BY <1>1, <1>2, <1>3, <1>4, <1>5, <1>6, <1>7 DEF Messages!Next

----------------------------------------------------------------------------
(* The events of a Responses stream *)

\* A legal stream between its first and its last event.
RLive(v) == v \in Responses!Client!View /\ v.legal /\ v.phase = "open"

\* The items of a view are a sequence of blocks.
LEMMA RViewBlocks ==
    ASSUME NEW v \in Responses!Client!View
    PROVE  /\ v.blocks \in Blocks(Responses!ItemKind)
           /\ Len(v.blocks) \in Nat /\ DOMAIN v.blocks = 1..Len(v.blocks)
<1>1. v.blocks \in Blocks(Responses!ItemKind)
  BY DEF Responses!Client!View, Responses!Client!Block, Blocks
<1> QED BY <1>1, BlocksLen

\* output_item.done of open items is legal and only closes them.
LEMMA RCloseView ==
    ASSUME NEW v, RLive(v), NEW I \in SUBSET {i \in 1..Len(v.blocks) : v.blocks[i].open}
    PROVE  /\ RLive(Responses!Client!CloseBlocks(v, I))
           /\ Responses!Client!CloseBlocks(v, I).blocks = Closed(v.blocks, I)
<1> DEFINE w == Responses!Client!CloseBlocks(v, I)
<1>1. DOMAIN v.blocks = 1..Len(v.blocks) /\ v.blocks \in Blocks(Responses!ItemKind)
  BY RViewBlocks DEF RLive
<1>2. I \subseteq Responses!Client!OpenBlocks(v)
  BY <1>1 DEF Responses!Client!OpenBlocks
<1>3. w = [v EXCEPT !.blocks = Closed(v.blocks, I), !.legal = TRUE]
  BY <1>2 DEF Responses!Client!CloseBlocks, RLive, Responses!Client!View, Closed
<1>4. Closed(v.blocks, I) \in Seq(Responses!Client!Block)
  BY <1>1, ClosedBlocks DEF Blocks, Responses!Client!Block
<1> QED BY <1>3, <1>4 DEF RLive, Responses!Client!View

\* A delta of an open item is legal and only lengthens it.
LEMMA RDeltaView ==
    ASSUME NEW v, RLive(v), NEW i \in 1..Len(v.blocks), v.blocks[i].open, NEW fs \in Seq(Nat)
    PROVE  /\ RLive(Responses!Client!Delta(v, i, fs))
           /\ Responses!Client!Delta(v, i, fs).blocks = Fed(v.blocks, i, fs)
<1> DEFINE w == Responses!Client!Delta(v, i, fs)
<1>1. DOMAIN v.blocks = 1..Len(v.blocks) /\ v.blocks \in Blocks(Responses!ItemKind)
  BY RViewBlocks DEF RLive
<1>2. i \in Responses!Client!OpenBlocks(v)
  BY <1>1 DEF Responses!Client!OpenBlocks
<1>3. w = [v EXCEPT !.blocks = Fed(v.blocks, i, fs), !.legal = TRUE]
  BY <1>2 DEF Responses!Client!Delta, RLive, Responses!Client!View, Fed
<1>4. Fed(v.blocks, i, fs) \in Seq(Responses!Client!Block)
  BY <1>1, FedBlocks DEF Blocks, Responses!Client!Block
<1> QED BY <1>3, <1>4 DEF RLive, Responses!Client!View

\* output_item.added is legal when nothing but tool items is open.
LEMMA ROpenView ==
    ASSUME NEW v, RLive(v), NEW k \in Responses!ItemKind,
           \A i \in 1..Len(v.blocks) : v.blocks[i].open => v.blocks[i].kind = "function_call"
    PROVE  /\ RLive(Responses!Client!OpenBlock(v, Len(v.blocks) + 1, k))
           /\ Responses!Client!OpenBlock(v, Len(v.blocks) + 1, k).blocks =
                Append(v.blocks, NewBlock(k))
<1> DEFINE w == Responses!Client!OpenBlock(v, Len(v.blocks) + 1, k)
<1>1. DOMAIN v.blocks = 1..Len(v.blocks) /\ v.blocks \in Blocks(Responses!ItemKind)
  BY RViewBlocks DEF RLive
<1>2. \A j \in Responses!Client!OpenBlocks(v) :
         <<v.blocks[j].kind, k>> \in {"function_call"} \X Responses!ItemKind
  BY <1>1 DEF Responses!Client!OpenBlocks
<1>3. w = [v EXCEPT !.blocks = Append(v.blocks, NewBlock(k)), !.legal = TRUE]
  BY <1>2 DEF Responses!Client!OpenBlock, RLive, Responses!Client!View, NewBlock
<1>4. Append(v.blocks, NewBlock(k)) \in Seq(Responses!Client!Block)
  BY <1>1, OpenedBlocks DEF Blocks, Responses!Client!Block
<1> QED BY <1>3, <1>4 DEF RLive, Responses!Client!View

\* The terminal event is legal when no item is open.
LEMMA REndView ==
    ASSUME NEW v, RLive(v), \A i \in 1..Len(v.blocks) : ~v.blocks[i].open,
           NEW o \in Responses!Client!Outcome, NEW w, w = Responses!Client!EndStream(v, o)
    PROVE  /\ w \in Responses!Client!View /\ w.legal /\ w.phase = o /\ w.blocks = v.blocks
<1>1. v \in Responses!Client!View /\ v.legal = TRUE /\ v.phase = "open"
  BY DEF RLive, Responses!Client!View
<1>2. Responses!Client!OpenBlocks(v) = {}
  BY <1>1, RViewBlocks DEF Responses!Client!OpenBlocks
<1>3. w = [v EXCEPT !.phase = o, !.legal = TRUE]
  BY <1>1, <1>2 DEF Responses!Client!EndStream
<1>4. w \in Responses!Client!View
  BY <1>1, <1>3 DEF Responses!Client!View, Responses!Client!Phase
<1>5. w.legal = TRUE /\ w.phase = o /\ w.blocks = v.blocks
  BY <1>1, <1>3 DEF Responses!Client!View
<1> QED BY <1>4, <1>5

----------------------------------------------------------------------------
(* The items that are finished *)

\* Block i of b as the terminal event lists it.
RItem(b, i) == [index |-> i, frags |-> b[i].frags]

RItems(b, I) == {RItem(b, i) : i \in I}

\* The blocks that are closed.
RShut(b) == {i \in 1..Len(b) : ~b[i].open}

\* Items are made of their fragments.
LEMMA RItemsAs ==
    ASSUME NEW b, NEW c, NEW I, \A i \in I : c[i].frags = b[i].frags
    PROVE  RItems(c, I) = RItems(b, I)
BY DEF RItems, RItem

\* Items of the stream are items.
LEMMA RItemsType ==
    ASSUME NEW K, NEW b \in Blocks(K), NEW I \in SUBSET (1..Len(b))
    PROVE  RItems(b, I) \in SUBSET Responses!Item
<1>1. ASSUME NEW i \in I
      PROVE  i \in Nat /\ b[i].frags \in Seq(Nat)
  <2>1. i \in 1..Len(b) /\ Len(b) \in Nat
    BY BlocksLen
  <2>2. b[i].frags \in Seq(Nat)
    BY <2>1, BlockType
  <2> QED BY <2>1, <2>2
<1> QED BY <1>1 DEF RItems, RItem, Responses!Item

\* The items that are closed are finished, and those that were.
LEMMA RShutClosed ==
    ASSUME NEW K, NEW b \in Blocks(K), NEW I \in SUBSET {i \in 1..Len(b) : b[i].open}
    PROVE  RShut(Closed(b, I)) = RShut(b) \cup I
<1>1. /\ Len(Closed(b, I)) = Len(b)
      /\ \A i \in 1..Len(b) : Closed(b, I)[i].open = (b[i].open /\ i \notin I)
  BY ClosedBlocks
<1> QED BY <1>1 DEF RShut

\* A delta concerns no finished item.
LEMMA RShutFed ==
    ASSUME NEW K, NEW b \in Blocks(K), NEW i \in 1..Len(b), b[i].open, NEW fs \in Seq(Nat)
    PROVE  /\ RShut(Fed(b, i, fs)) = RShut(b)
           /\ RItems(Fed(b, i, fs), RShut(b)) = RItems(b, RShut(b))
<1> DEFINE c == Fed(b, i, fs)
<1>1. /\ Len(c) = Len(b) /\ c[i].open /\ \A j \in 1..Len(b) : j # i => c[j] = b[j]
  BY FedBlocks
<1> HIDE DEF c
<1>2. RShut(c) = RShut(b)
  BY <1>1 DEF RShut
<1>3. \A j \in RShut(b) : c[j].frags = b[j].frags
  BY <1>1 DEF RShut
<1> QED BY <1>2, <1>3, RItemsAs DEF c

\* A new item is not finished.
LEMMA RShutOpened ==
    ASSUME NEW K, NEW b \in Blocks(K), NEW k \in K
    PROVE  /\ RShut(Append(b, NewBlock(k))) = RShut(b)
           /\ RItems(Append(b, NewBlock(k)), RShut(b)) = RItems(b, RShut(b))
<1> DEFINE c == Append(b, NewBlock(k))
<1>1. /\ Len(c) = Len(b) + 1 /\ Len(b) \in Nat /\ \A j \in 1..Len(b) : c[j] = b[j]
      /\ c[Len(b) + 1] = NewBlock(k)
  BY OpenedBlocks, BlocksLen
<1> HIDE DEF c
<1>2. c[Len(b) + 1].open
  BY <1>1 DEF NewBlock
<1>3. RShut(c) = RShut(b)
  BY <1>1, <1>2 DEF RShut
<1>4. \A j \in RShut(b) : c[j].frags = b[j].frags
  BY <1>1 DEF RShut
<1> QED BY <1>3, <1>4, RItemsAs DEF c

\* What the code makes of the outputs when the items of I are done.
LEMMA RItemsClosed ==
    ASSUME NEW K, NEW b \in Blocks(K), NEW I \in SUBSET {i \in 1..Len(b) : b[i].open}
    PROVE  LET c == Closed(b, I)
               old == RItems(b, RShut(b))
           IN RItems(c, RShut(c)) = {o \in old : o.index \notin I} \cup RItems(b, I)
<1> DEFINE c == Closed(b, I)
           old == RItems(b, RShut(b))
<1>1. RShut(c) = RShut(b) \cup I
  BY RShutClosed
<1>2. \A i \in RShut(c) : c[i].frags = b[i].frags
  BY <1>1, ClosedBlocks DEF RShut
<1> HIDE DEF c
<1>3. RItems(c, RShut(c)) = RItems(b, RShut(b) \cup I)
  BY <1>1, <1>2, RItemsAs
<1>4. RItems(b, RShut(b) \cup I) = old \cup RItems(b, I)
  BY DEF RItems
<1>5. \A o \in old : o.index \notin I
  <2> SUFFICES ASSUME NEW i \in RShut(b), i \in I
               PROVE  FALSE
    BY DEF RItems, RItem
  <2> QED BY DEF RShut
<1> QED BY <1>3, <1>4, <1>5 DEF c

----------------------------------------------------------------------------
(* The encoder of a Responses stream between two of its methods *)

\* No item is current.
RNone == ""

\* What may be current.
RCurs == {"", "reasoning", "message"}

\* What is current is nothing, reasoning or a message.
LEMMA RCursAre ==
    /\ RCurs = {RNone} \cup {"reasoning", "message"}
    /\ RNone # "reasoning" /\ RNone # "message"
BY Zenon DEF RCurs, RNone

\* Responses!StreamState by the name of RNone.
RState == [cur : RCurs, curItem : Nat, next : Nat,
           textBuf : Seq(Nat), reasonBuf : Seq(Nat),
           tools : [Tool -> Responses!ToolState], outputs : SUBSET Responses!Item,
           incomplete : BOOLEAN, sawReasoning : BOOLEAN, think : Responses!Think,
           err : BOOLEAN, final : Seq(Responses!Item), view : Responses!Client!View]

\* The type of the state by the names of this module.
LEMMA RStateIs == Responses!StreamState = RState
BY DEF RState, RCurs, Responses!StreamState

\* What is buffered of the current item.
RBuffer(s) == IF s.cur = "message" THEN s.textBuf ELSE s.reasonBuf

\* The current item is the last one and open; the buffer of its kind is what was sent
\* of it, the other one is empty.
RCurrent(s) ==
    /\ s.next = Len(s.view.blocks) + 1
    /\ s.cur # RNone => /\ s.curItem \in 1..Len(s.view.blocks)
                     /\ s.curItem = Len(s.view.blocks)
                     /\ s.view.blocks[s.curItem].open
                     /\ s.view.blocks[s.curItem].kind = s.cur
                     /\ s.view.blocks[s.curItem].frags = RBuffer(s)
    /\ s.cur # "message" => s.textBuf = <<>>
    /\ s.cur # "reasoning" => s.reasonBuf = <<>>

\* A tool in the map has an open item of its own, with what is buffered for it.
RToolIs(s, t) ==
    /\ s.tools[t].item \in 1..Len(s.view.blocks)
    /\ s.view.blocks[s.tools[t].item].open
    /\ s.view.blocks[s.tools[t].item].kind = "function_call"
    /\ s.view.blocks[s.tools[t].item].frags = s.tools[t].args
    /\ \A u \in Tool : s.tools[u].seen /\ t # u => s.tools[t].item # s.tools[u].item

RTools(s) == \A t \in Tool : s.tools[t].seen => RToolIs(s, t)

\* Whatever is open belongs to a tool or is the current item.
ROpen(s) ==
    \A i \in 1..Len(s.view.blocks) : s.view.blocks[i].open =>
        \/ s.cur # RNone /\ i = s.curItem
        \/ \E t \in Tool : s.tools[t].seen /\ s.tools[t].item = i

\* The outputs are the items that are finished, as they were streamed.
ROutputs(s) == s.outputs = RItems(s.view.blocks, RShut(s.view.blocks))

\* A state of the encoder in which what it remembers is what the client sees.
RGood(s) == /\ s \in Responses!StreamState
            /\ RLive(s.view) /\ RCurrent(s) /\ RTools(s) /\ ROpen(s) /\ ROutputs(s)

\* What the methods that emit events leave alone.
RKeeps(s, r) ==
    /\ r.incomplete = s.incomplete /\ r.sawReasoning = s.sawReasoning
    /\ r.think = s.think /\ r.err = s.err

\* The state with other items.
RSet(s, w, outputs, text, reason, cur, item, next) ==
    [s EXCEPT !.view = w, !.outputs = outputs, !.textBuf = text, !.reasonBuf = reason,
              !.cur = cur, !.curItem = item, !.next = next]

\* What changes with the items, and what does not.
LEMMA RSetIs ==
    ASSUME NEW s \in Responses!StreamState, NEW w \in Responses!Client!View,
           NEW outputs \in SUBSET Responses!Item, NEW text \in Seq(Nat), NEW reason \in Seq(Nat),
           NEW cur \in RCurs, NEW item \in Nat, NEW next \in Nat,
           NEW r, r = RSet(s, w, outputs, text, reason, cur, item, next)
    PROVE  /\ r \in Responses!StreamState /\ RKeeps(s, r) /\ r.tools = s.tools
           /\ r.view = w /\ r.outputs = outputs /\ r.textBuf = text /\ r.reasonBuf = reason
           /\ r.cur = cur /\ r.curItem = item /\ r.next = next
<1>1. r \in Responses!StreamState
  BY RStateIs DEF RSet, RState
<1>2. RKeeps(s, r)
  BY RStateIs DEF RSet, RState, RKeeps
<1>3. r.tools = s.tools /\ r.view = w /\ r.outputs = outputs
  BY RStateIs DEF RSet, RState
<1>4. r.textBuf = text /\ r.reasonBuf = reason
  BY RStateIs DEF RSet, RState
<1>5. r.cur = cur /\ r.curItem = item /\ r.next = next
  BY RStateIs DEF RSet, RState
<1> QED BY <1>1, <1>2, <1>3, <1>4, <1>5

\* What the proofs need of the types of a good state.
LEMMA RGoodTypes ==
    ASSUME NEW s, RGood(s)
    PROVE  /\ s.view.blocks \in Blocks(Responses!ItemKind)
           /\ Len(s.view.blocks) \in Nat
           /\ s.cur \in RCurs /\ s.curItem \in Nat /\ s.next \in Nat
           /\ s.textBuf \in Seq(Nat) /\ s.reasonBuf \in Seq(Nat) /\ s.outputs \in SUBSET Responses!Item
           /\ s.tools \in [Tool -> Responses!ToolState]
           /\ s.think \in Responses!Think /\ s.think.held \in Seq(Nat)
           /\ s.sawReasoning \in BOOLEAN
<1>1. s.view.blocks \in Blocks(Responses!ItemKind) /\ Len(s.view.blocks) \in Nat
  BY RViewBlocks DEF RGood, RLive
<1>2. s.cur \in RCurs /\ s.curItem \in Nat /\ s.next \in Nat
  BY RStateIs DEF RGood, RState
<1>3. s.textBuf \in Seq(Nat) /\ s.reasonBuf \in Seq(Nat) /\ s.outputs \in SUBSET Responses!Item
  BY RStateIs DEF RGood, RState
<1>4. s.tools \in [Tool -> Responses!ToolState]
  BY RStateIs DEF RGood, RState
<1>5. s.think \in Responses!Think /\ s.sawReasoning \in BOOLEAN
  BY RStateIs, Zenon DEF RGood, RState
<1>6. s.think.held \in Seq(Nat)
  BY <1>5 DEF Responses!Think
<1> QED BY <1>1, <1>2, <1>3, <1>4, <1>5, <1>6

\* The items of the tools stay as they are when others are opened, fed or closed.
LEMMA RToolsKept ==
    ASSUME NEW s, NEW r, RTools(s), r.tools = s.tools,
           Len(s.view.blocks) \in Nat, Len(r.view.blocks) \in Nat,
           Len(s.view.blocks) <= Len(r.view.blocks),
           \A t \in Tool : s.tools[t].seen =>
              r.view.blocks[s.tools[t].item] = s.view.blocks[s.tools[t].item]
    PROVE  RTools(r)
<1> SUFFICES ASSUME NEW t \in Tool, s.tools[t].seen
             PROVE  RToolIs(r, t)
  BY DEF RTools
<1>1. RToolIs(s, t)
  BY DEF RTools
<1>2. /\ r.tools[t] = s.tools[t]
      /\ r.view.blocks[s.tools[t].item] = s.view.blocks[s.tools[t].item]
  OBVIOUS
<1>3. /\ s.tools[t].item \in 1..Len(s.view.blocks)
      /\ s.view.blocks[s.tools[t].item].open
      /\ s.view.blocks[s.tools[t].item].kind = "function_call"
      /\ s.view.blocks[s.tools[t].item].frags = s.tools[t].args
  BY <1>1 DEF RToolIs
<1>4. \A u \in Tool : r.tools[u].seen /\ t # u => r.tools[t].item # r.tools[u].item
  BY <1>1 DEF RToolIs
<1>5. s.tools[t].item \in 1..Len(r.view.blocks)
  BY <1>3
<1> QED BY <1>2, <1>3, <1>4, <1>5 DEF RToolIs

\* The current item is not one of a tool.
LEMMA RApart ==
    ASSUME NEW s, RGood(s), s.cur # RNone, NEW t \in Tool, s.tools[t].seen
    PROVE  /\ s.tools[t].item \in 1..Len(s.view.blocks)
           /\ s.tools[t].item # s.curItem
<1>1. s.cur \in {"reasoning", "message"}
  BY RGoodTypes, RCursAre
<1>2. RToolIs(s, t) /\ s.view.blocks[s.curItem].kind = s.cur
  BY DEF RGood, RTools, RCurrent
<1> QED BY <1>1, <1>2 DEF RToolIs

\* closeCurrent: the item is finished as it was streamed.
LEMMA RCloseCurrentGood ==
    ASSUME NEW s, RGood(s), NEW r, r = Responses!CloseCurrent(s)
    PROVE  /\ RGood(r) /\ r.cur = RNone /\ RKeeps(s, r) /\ r.tools = s.tools
           /\ SameWords(s.view.blocks, r.view.blocks)
           /\ Later(s.view.blocks, r.view.blocks)
<1>1. /\ s.view.blocks \in Blocks(Responses!ItemKind) /\ Len(s.view.blocks) \in Nat
      /\ s.cur \in RCurs /\ s.curItem \in Nat /\ s.next \in Nat
      /\ s.textBuf \in Seq(Nat) /\ s.reasonBuf \in Seq(Nat) /\ s.outputs \in SUBSET Responses!Item
  BY RGoodTypes
<1>2. CASE s.cur = RNone
  <2>1. r = s
    BY Zenon, <1>2 DEF Responses!CloseCurrent, RNone
  <2> QED BY <1>1, <1>2, <2>1, LaterReflexive DEF RKeeps, SameWords
<1>3. CASE s.cur # RNone
  <2> DEFINE v == s.view
             b == v.blocks
             i == s.curItem
             I == {i}
             w == Responses!Client!CloseBlocks(v, I)
             buf == RBuffer(s)
             out == Responses!Record(s.outputs, i, buf)
             none == <<>>
             idle == RNone
             x == s.next
  <2>1. /\ i \in 1..Len(b) /\ i = Len(b) /\ b[i].open /\ b[i].kind = s.cur /\ b[i].frags = buf
        /\ s.cur # "message" => s.textBuf = <<>>
        /\ s.cur # "reasoning" => s.reasonBuf = <<>>
        /\ x = Len(b) + 1
    BY <1>3 DEF RGood, RCurrent
  <2>2. I \in SUBSET {j \in 1..Len(b) : b[j].open}
    BY <2>1
  <2>3. r = RSet(s, w, out, none, none, idle, i, x)
    <3>1. CASE s.cur = "reasoning"
      <4>1. s.textBuf = none /\ buf = s.reasonBuf
        BY <2>1, <3>1 DEF RBuffer
      <4>2. r = [s EXCEPT !.view = w, !.outputs = out, !.reasonBuf = none, !.cur = idle]
        BY <3>1, <4>1 DEF Responses!CloseCurrent, RNone
      <4> HIDE DEF w, out, none, idle, buf
      <4> QED BY <4>1, <4>2, RStateIs DEF RSet, RGood, RState
    <3>2. CASE s.cur = "message"
      <4>1. s.reasonBuf = none /\ buf = s.textBuf
        BY <2>1, <3>2 DEF RBuffer
      <4>2. r = [s EXCEPT !.view = w, !.outputs = out, !.textBuf = none, !.cur = idle]
        BY <3>2, <4>1 DEF Responses!CloseCurrent, RNone
      <4> HIDE DEF w, out, none, idle, buf
      <4> QED BY <4>1, <4>2, RStateIs DEF RSet, RGood, RState
    <3>3. s.cur = "reasoning" \/ s.cur = "message"
      BY <1>1, <1>3, RCursAre
    <3> QED BY <3>1, <3>2, <3>3
  <2>4. RLive(w) /\ w.blocks = Closed(b, I)
    BY <2>2, RCloseView DEF RGood
  <2>16. i = s.curItem /\ I = {i} /\ buf = RBuffer(s)
    OBVIOUS
  <2> HIDE DEF w, i, I, buf
  <2>5. /\ Len(w.blocks) = Len(b)
        /\ \A j \in 1..Len(b) :
              /\ w.blocks[j].kind = b[j].kind /\ w.blocks[j].frags = b[j].frags
              /\ w.blocks[j].open = (b[j].open /\ j \notin I)
        /\ Later(b, w.blocks)
    <3>1. b \in Blocks(Responses!ItemKind)
      BY <1>1
    <3> HIDE DEF b, v
    <3> QED BY <2>2, <2>4, <3>1, ClosedBlocks
  <2>6. out = RItems(w.blocks, RShut(w.blocks))
    <3>1. RItems(w.blocks, RShut(w.blocks))
            = {o \in RItems(b, RShut(b)) : o.index \notin I} \cup RItems(b, I)
      BY <1>1, <2>2, <2>4, RItemsClosed
    <3>2. RItems(b, I) = {[index |-> i, frags |-> buf]}
      BY <2>1, <2>16 DEF RItems, RItem
    <3>3. s.outputs = RItems(b, RShut(b))
      BY DEF RGood, ROutputs
    <3> QED BY <2>16, <3>1, <3>2, <3>3 DEF Responses!Record
  <2>7. out \in SUBSET Responses!Item
    <3>1. RShut(w.blocks) \in SUBSET (1..Len(w.blocks))
      BY DEF RShut
    <3>2. w.blocks \in Blocks(Responses!ItemKind)
      BY <2>4, RViewBlocks DEF RLive
    <3> QED BY <2>6, <3>1, <3>2, RItemsType
  <2> HIDE DEF out
  <2>8. /\ none \in Seq(Nat) /\ i \in Nat /\ x \in Nat
        /\ w \in Responses!Client!View /\ s \in Responses!StreamState
    <3>1. <<>> \in Seq(Nat)
      OBVIOUS
    <3> QED BY <1>1, <2>4, <2>16, <3>1 DEF RLive, RGood
  <2>17. idle \in RCurs
    BY RCursAre
  <2>9. none = <<>> /\ idle = RNone /\ i = s.curItem /\ x = s.next /\ I = {i}
    BY <2>16
  <2> HIDE DEF none, idle, x
  <2>10. /\ r \in Responses!StreamState /\ RKeeps(s, r) /\ r.tools = s.tools
         /\ r.view = w /\ r.outputs = out /\ r.textBuf = none /\ r.reasonBuf = none
         /\ r.cur = idle /\ r.curItem = i /\ r.next = x
    BY <2>3, <2>7, <2>8, <2>17, RSetIs
  <2>11. RCurrent(r)
    BY <2>1, <2>5, <2>9, <2>10 DEF RCurrent
  <2>12. RTools(r)
    <3>1. ASSUME NEW t \in Tool, s.tools[t].seen
          PROVE  r.view.blocks[s.tools[t].item] = s.view.blocks[s.tools[t].item]
      <4> DEFINE j == s.tools[t].item
      <4>1. j \in 1..Len(b) /\ j \notin I
        BY <1>3, <2>9, <3>1, RApart
      <4> HIDE DEF j
      <4>2. w.blocks[j] = b[j]
        <5>1. w.blocks[j] = IF j \in I THEN [b[j] EXCEPT !.open = FALSE] ELSE b[j]
          BY <1>1, <2>4, <4>1, BlocksLen DEF Closed
        <5> QED BY <4>1, <5>1
      <4> QED BY <2>10, <4>2 DEF j
    <3>2. RTools(s) /\ Len(r.view.blocks) = Len(s.view.blocks)
      BY <2>5, <2>10 DEF RGood
    <3> QED BY <1>1, <2>10, <3>1, <3>2, RToolsKept
  <2>13. ROpen(r)
    <3> SUFFICES ASSUME NEW j \in 1..Len(w.blocks), w.blocks[j].open
                 PROVE  \E t \in Tool : r.tools[t].seen /\ r.tools[t].item = j
      BY <2>9, <2>10 DEF ROpen
    <3>1. j \in 1..Len(b) /\ b[j].open /\ j # i
      BY <2>5, <2>9
    <3>2. PICK t \in Tool : s.tools[t].seen /\ s.tools[t].item = j
      BY <2>9, <3>1 DEF RGood, ROpen
    <3> QED BY <2>10, <3>2
  <2>14. ROutputs(r)
    BY <2>6, <2>10 DEF ROutputs
  <2>15. SameWords(b, r.view.blocks) /\ Later(b, r.view.blocks)
    BY <2>5, <2>10 DEF SameWords
  <2> QED BY <2>4, <2>9, <2>10, <2>11, <2>12, <2>13, <2>14, <2>15 DEF RGood
<1> QED BY <1>2, <1>3

\* Without a current item, everything that is open is a tool's.
LEMMA ROnlyTools ==
    ASSUME NEW s, RGood(s), s.cur = RNone
    PROVE  \A i \in 1..Len(s.view.blocks) : s.view.blocks[i].open =>
              s.view.blocks[i].kind = "function_call"
<1> SUFFICES ASSUME NEW i \in 1..Len(s.view.blocks), s.view.blocks[i].open
             PROVE  s.view.blocks[i].kind = "function_call"
  OBVIOUS
<1>1. PICK t \in Tool : s.tools[t].seen /\ s.tools[t].item = i
  BY DEF RGood, ROpen
<1>2. RToolIs(s, t)
  BY <1>1 DEF RGood, RTools
<1> QED BY <1>1, <1>2 DEF RToolIs

\* openText and openReasoning, when nothing is current.
LEMMA ROpenCurrentGood ==
    ASSUME NEW s, RGood(s), s.cur = RNone, NEW kind \in {"reasoning", "message"},
           NEW r, r = Responses!OpenCurrent(s, kind)
    PROVE  /\ RGood(r) /\ RKeeps(s, r) /\ r.tools = s.tools
           /\ r.cur = kind /\ r.curItem = Len(s.view.blocks) + 1
           /\ r.view.blocks = Append(s.view.blocks, NewBlock(kind))
<1> DEFINE v == s.view
           b == v.blocks
           x == s.next
           y == x + 1
           w == Responses!Client!OpenBlock(v, x, kind)
           out == s.outputs
           tb == s.textBuf
           rb == s.reasonBuf
<1>1. /\ b \in Blocks(Responses!ItemKind) /\ Len(b) \in Nat
      /\ x \in Nat /\ y \in Nat /\ tb \in Seq(Nat) /\ rb \in Seq(Nat)
      /\ out \in SUBSET Responses!Item /\ s \in Responses!StreamState
  BY RGoodTypes DEF RGood
<1>2. x = Len(b) + 1 /\ tb = <<>> /\ rb = <<>>
  BY RCursAre DEF RGood, RCurrent
<1>3. kind \in Responses!ItemKind
  BY DEF Responses!ItemKind
<1>4. RLive(w) /\ w.blocks = Append(b, NewBlock(kind))
  <2>1. \A i \in 1..Len(v.blocks) : v.blocks[i].open => v.blocks[i].kind = "function_call"
    BY ROnlyTools
  <2>2. RLive(v)
    BY DEF RGood
  <2> HIDE DEF v
  <2>3. /\ RLive(Responses!Client!OpenBlock(v, Len(v.blocks) + 1, kind))
        /\ Responses!Client!OpenBlock(v, Len(v.blocks) + 1, kind).blocks =
              Append(v.blocks, NewBlock(kind))
    BY <1>3, <2>1, <2>2, ROpenView
  <2> QED BY <1>2, <2>3
<1>5. r = RSet(s, w, out, tb, rb, kind, x, y)
  <2>1. r = [s EXCEPT !.view = w, !.cur = kind, !.curItem = x, !.next = y]
    BY DEF Responses!OpenCurrent
  <2> HIDE DEF w
  <2> QED BY <1>1, <2>1, RStateIs DEF RSet, RState
<1>6. /\ Len(w.blocks) = Len(b) + 1
      /\ \A j \in 1..Len(b) : w.blocks[j] = b[j]
      /\ w.blocks[Len(b) + 1] = NewBlock(kind)
  BY <1>1, <1>3, <1>4, OpenedBlocks
<1>7. out = RItems(w.blocks, RShut(w.blocks))
  <2>1. RShut(w.blocks) = RShut(b) /\ RItems(w.blocks, RShut(b)) = RItems(b, RShut(b))
    BY <1>1, <1>3, <1>4, RShutOpened
  <2> QED BY <2>1 DEF RGood, ROutputs
<1>8. w \in Responses!Client!View /\ kind \in RCurs
  BY <1>4, RCursAre DEF RLive
<1>9. y = x + 1
  OBVIOUS
<1> HIDE DEF w, out, tb, rb, x, y
<1>10. /\ r \in Responses!StreamState /\ RKeeps(s, r) /\ r.tools = s.tools
       /\ r.view = w /\ r.outputs = out /\ r.textBuf = tb /\ r.reasonBuf = rb
       /\ r.cur = kind /\ r.curItem = x /\ r.next = y
  BY <1>1, <1>5, <1>8, RSetIs
<1>11. RCurrent(r)
  <2>1. /\ w.blocks[Len(b) + 1].open /\ w.blocks[Len(b) + 1].kind = kind
        /\ w.blocks[Len(b) + 1].frags = <<>>
    BY <1>6 DEF NewBlock
  <2>2. RBuffer(r) = <<>>
    BY <1>2, <1>10 DEF RBuffer
  <2>3. r.next = Len(w.blocks) + 1 /\ r.curItem \in 1..Len(w.blocks) /\ r.curItem = Len(w.blocks)
    BY <1>1, <1>2, <1>6, <1>9, <1>10
  <2> QED BY <1>2, <1>6, <1>10, <2>1, <2>2, <2>3 DEF RCurrent
<1>12. RTools(r)
  <2>1. ASSUME NEW t \in Tool, s.tools[t].seen
        PROVE  r.view.blocks[s.tools[t].item] = s.view.blocks[s.tools[t].item]
    <3>1. s.tools[t].item \in 1..Len(b)
      BY <2>1 DEF RGood, RTools, RToolIs
    <3> QED BY <1>6, <1>10, <3>1
  <2>2. RTools(s) /\ Len(r.view.blocks) = Len(s.view.blocks) + 1
    BY <1>6, <1>10 DEF RGood
  <2> QED BY <1>1, <1>10, <2>1, <2>2, RToolsKept, SMTT(20)
<1>13. ROpen(r)
  <2> SUFFICES ASSUME NEW j \in 1..Len(w.blocks), w.blocks[j].open, j # r.curItem
               PROVE  \E t \in Tool : r.tools[t].seen /\ r.tools[t].item = j
    BY <1>10, RCursAre DEF ROpen
  <2>1. j \in 1..Len(b) /\ b[j].open
    BY <1>1, <1>2, <1>6, <1>10
  <2>2. PICK t \in Tool : s.tools[t].seen /\ s.tools[t].item = j
    BY <2>1 DEF RGood, ROpen
  <2> QED BY <1>10, <2>2
<1>14. ROutputs(r)
  BY <1>7, <1>10 DEF ROutputs
<1> QED BY <1>2, <1>4, <1>10, <1>11, <1>12, <1>13, <1>14 DEF RGood

\* What a method that emits text or reasoning does.
REmits(s, r) ==
    /\ RGood(r) /\ RKeeps(s, r) /\ r.tools = s.tools
    /\ Later(s.view.blocks, r.view.blocks)

\* To emit nothing is to emit.
LEMMA REmitsNothing ==
    ASSUME NEW s, RGood(s)
    PROVE  REmits(s, s)
BY RGoodTypes, LaterReflexive DEF REmits, RKeeps

\* To emit twice is to emit.
LEMMA REmitsTransitive ==
    ASSUME NEW s, NEW r, NEW q, RGood(s), REmits(s, r), REmits(r, q)
    PROVE  REmits(s, q)
<1>1. Later(s.view.blocks, q.view.blocks)
  BY RGoodTypes, LaterTransitive, Zenon DEF REmits
<1> QED BY <1>1 DEF REmits, RKeeps

\* A delta of the current item, and the same in the buffer of its kind.
RSay(s, fs) ==
    IF s.cur = "message"
    THEN [s EXCEPT !.view = Responses!Client!Delta(@, s.curItem, fs), !.textBuf = @ \o fs]
    ELSE [s EXCEPT !.view = Responses!Client!Delta(@, s.curItem, fs), !.reasonBuf = @ \o fs]

\* A delta of the current item keeps its buffer what was streamed of it.
LEMMA RSayGood ==
    ASSUME NEW s, RGood(s), s.cur # RNone, NEW fs \in Seq(Nat), NEW r, r = RSay(s, fs)
    PROVE  REmits(s, r) /\ r.view.blocks = Fed(s.view.blocks, s.curItem, fs)
<1> DEFINE v == s.view
           b == v.blocks
           i == s.curItem
           w == Responses!Client!Delta(v, i, fs)
           out == s.outputs
           tb == IF s.cur = "message" THEN s.textBuf \o fs ELSE s.textBuf
           rb == IF s.cur = "message" THEN s.reasonBuf ELSE s.reasonBuf \o fs
           k == s.cur
           x == s.next
<1>1. /\ s.view.blocks \in Blocks(Responses!ItemKind) /\ Len(s.view.blocks) \in Nat
      /\ s.cur \in RCurs /\ s.curItem \in Nat /\ s.next \in Nat
      /\ s.textBuf \in Seq(Nat) /\ s.reasonBuf \in Seq(Nat) /\ s.outputs \in SUBSET Responses!Item
  BY RGoodTypes
<1>2. k \in {"reasoning", "message"}
  BY <1>1, RCursAre
<1>3. /\ x = Len(b) + 1 /\ i \in 1..Len(b) /\ i = Len(b) /\ b[i].open
      /\ b[i].kind = k /\ b[i].frags = RBuffer(s)
      /\ k # "message" => s.textBuf = <<>>
      /\ k # "reasoning" => s.reasonBuf = <<>>
  BY DEF RGood, RCurrent
<1>4. tb \in Seq(Nat) /\ rb \in Seq(Nat)
  BY <1>1, ConcatProperties
<1>5. IF k = "message" THEN tb = RBuffer(s) \o fs /\ rb = <<>>
                       ELSE tb = <<>> /\ rb = RBuffer(s) \o fs
  BY <1>2, <1>3 DEF RBuffer
<1>6. r = RSet(s, w, out, tb, rb, k, i, x)
  <2> HIDE DEF w
  <2>1. CASE s.cur = "message"
    <3>1. r = [s EXCEPT !.view = w, !.textBuf = tb]
      BY <2>1 DEF RSay, w
    <3>2. rb = s.reasonBuf
      BY <2>1
    <3> HIDE DEF tb, rb
    <3> QED BY <3>1, <3>2, RStateIs DEF RSet, RGood, RState
  <2>2. CASE s.cur # "message"
    <3>1. r = [s EXCEPT !.view = w, !.reasonBuf = rb]
      BY <2>2 DEF RSay, w
    <3>2. tb = s.textBuf
      BY <2>2
    <3> HIDE DEF tb, rb
    <3> QED BY <3>1, <3>2, RStateIs DEF RSet, RGood, RState
  <2> QED BY <2>1, <2>2
<1>7. RLive(w) /\ w.blocks = Fed(b, i, fs)
  <2>1. RLive(v)
    BY DEF RGood
  <2>2. i \in 1..Len(v.blocks) /\ v.blocks[i].open
    BY <1>3
  <2> HIDE DEF v, i
  <2>3. /\ RLive(Responses!Client!Delta(v, i, fs))
        /\ Responses!Client!Delta(v, i, fs).blocks = Fed(v.blocks, i, fs)
    BY <2>1, <2>2, RDeltaView
  <2> QED BY <2>3
<1>8. v = s.view /\ i = s.curItem /\ k = s.cur /\ x = s.next /\ out = s.outputs
  OBVIOUS
<1>9. /\ b \in Blocks(Responses!ItemKind) /\ Len(b) \in Nat /\ i \in Nat /\ x \in Nat
      /\ out \in SUBSET Responses!Item /\ k \in RCurs /\ s \in Responses!StreamState
  BY <1>1 DEF RGood
<1> HIDE DEF w, out, tb, rb, k, x, i
<1>10. /\ Len(w.blocks) = Len(b)
       /\ \A j \in 1..Len(b) : j # i => w.blocks[j] = b[j]
       /\ w.blocks[i].kind = b[i].kind /\ w.blocks[i].open
       /\ w.blocks[i].frags = b[i].frags \o fs
       /\ Later(b, w.blocks)
  <2>1. i \in 1..Len(b) /\ b[i].open /\ b \in Blocks(Responses!ItemKind)
    BY <1>3, <1>9
  <2> HIDE DEF b
  <2>2. /\ Len(Fed(b, i, fs)) = Len(b)
        /\ \A j \in 1..Len(b) : j # i => Fed(b, i, fs)[j] = b[j]
        /\ Fed(b, i, fs)[i].kind = b[i].kind
        /\ Fed(b, i, fs)[i].open
        /\ Fed(b, i, fs)[i].frags = b[i].frags \o fs
        /\ Later(b, Fed(b, i, fs))
    BY <2>1, FedBlocks
  <2> QED BY <1>7, <2>2
<1>11. w \in Responses!Client!View
  BY <1>7 DEF RLive
<1>12. /\ r \in Responses!StreamState /\ RKeeps(s, r) /\ r.tools = s.tools
       /\ r.view = w /\ r.outputs = out /\ r.textBuf = tb /\ r.reasonBuf = rb
       /\ r.cur = k /\ r.curItem = i /\ r.next = x
  BY <1>4, <1>6, <1>9, <1>11, RSetIs
<1>13. RCurrent(r)
  <2>1. RBuffer(r) = RBuffer(s) \o fs
    BY <1>2, <1>5, <1>12 DEF RBuffer
  <2>2. /\ r.cur # "message" => r.textBuf = <<>>
        /\ r.cur # "reasoning" => r.reasonBuf = <<>>
    BY <1>2, <1>5, <1>12
  <2> QED BY <1>3, <1>10, <1>12, <2>1, <2>2 DEF RCurrent
<1>14. RTools(r)
  <2>1. ASSUME NEW t \in Tool, s.tools[t].seen
        PROVE  r.view.blocks[s.tools[t].item] = s.view.blocks[s.tools[t].item]
    <3>1. s.tools[t].item \in 1..Len(b) /\ s.tools[t].item # i
      BY <1>8, <2>1, RApart
    <3> QED BY <1>10, <1>12, <3>1
  <2>2. RTools(s)
    BY DEF RGood
  <2>3. Len(r.view.blocks) = Len(s.view.blocks)
    <3>1. Len(w.blocks) = Len(b)
      BY <1>10
    <3>2. r.view = w
      BY <1>12
    <3> QED BY <3>1, <3>2
  <2>4. /\ r.tools = s.tools /\ Len(s.view.blocks) \in Nat /\ Len(r.view.blocks) \in Nat
        /\ Len(s.view.blocks) <= Len(r.view.blocks)
    BY <1>1, <1>12, <2>3
  <2> QED BY <2>1, <2>2, <2>4, RToolsKept
<1>15. ROpen(r)
  <2> SUFFICES ASSUME NEW j \in 1..Len(w.blocks), w.blocks[j].open, j # r.curItem
               PROVE  \E t \in Tool : r.tools[t].seen /\ r.tools[t].item = j
    BY <1>8, <1>12, Zenon DEF ROpen
  <2>1. j \in 1..Len(b) /\ b[j].open /\ j # s.curItem
    BY <1>8, <1>10, <1>12, Zenon
  <2>2. PICK t \in Tool : s.tools[t].seen /\ s.tools[t].item = j
    BY <2>1 DEF RGood, ROpen
  <2> QED BY <1>12, <2>2
<1>16. ROutputs(r)
  <2>1. RShut(w.blocks) = RShut(b) /\ RItems(w.blocks, RShut(b)) = RItems(b, RShut(b))
    <3> HIDE DEF b
    <3> QED BY <1>3, <1>7, <1>9, RShutFed
  <2> QED BY <1>8, <1>12, <2>1 DEF RGood, ROutputs
<1>17. RGood(r)
  BY <1>7, <1>12, <1>13, <1>14, <1>15, <1>16 DEF RGood
<1> QED BY <1>7, <1>8, <1>10, <1>12, <1>17, Zenon DEF REmits

\* The state whose current item is of the kind.
RAt(s, kind) ==
    IF s.cur = kind THEN s ELSE Responses!OpenCurrent(Responses!CloseCurrent(s), kind)

\* Fragments are said in an item of their kind, the current one or a new one.
LEMMA REmitGood ==
    ASSUME NEW s, RGood(s), NEW kind \in {"reasoning", "message"}, NEW fs \in Seq(Nat),
           NEW r, r = RSay(RAt(s, kind), fs)
    PROVE  REmits(s, r) /\ Says(s.view.blocks, r.view.blocks, kind, fs)
<1>1. /\ s.view.blocks \in Blocks(Responses!ItemKind) /\ Len(s.view.blocks) \in Nat
      /\ kind # RNone /\ kind \in Responses!ItemKind
  BY RGoodTypes, RCursAre DEF Responses!ItemKind
<1>2. CASE s.cur = kind
  <2>1. r = RSay(s, fs) /\ s.cur # RNone
    BY <1>1, <1>2 DEF RAt
  <2>2. REmits(s, r) /\ r.view.blocks = Fed(s.view.blocks, s.curItem, fs)
    BY <2>1, RSayGood
  <2>3. /\ s.curItem \in 1..Len(s.view.blocks) /\ s.curItem = Len(s.view.blocks)
        /\ s.view.blocks[s.curItem].open /\ s.view.blocks[s.curItem].kind = kind
    BY <1>2, <2>1 DEF RGood, RCurrent
  <2>4. Says(s.view.blocks, r.view.blocks, kind, fs)
    BY <1>1, <2>2, <2>3, SaysLast
  <2> QED BY <2>2, <2>4
<1>3. CASE s.cur # kind
  <2> DEFINE c == Responses!CloseCurrent(s)
             o == Responses!OpenCurrent(c, kind)
  <2>1. r = RSay(o, fs)
    BY <1>3 DEF RAt
  <2>2. /\ RGood(c) /\ c.cur = RNone /\ RKeeps(s, c) /\ c.tools = s.tools
        /\ SameWords(s.view.blocks, c.view.blocks)
        /\ Later(s.view.blocks, c.view.blocks)
    BY RCloseCurrentGood
  <2> HIDE DEF c
  <2>3. /\ RGood(o) /\ RKeeps(c, o) /\ o.tools = c.tools
        /\ o.cur = kind /\ o.curItem = Len(c.view.blocks) + 1
        /\ o.view.blocks = Append(c.view.blocks, NewBlock(kind))
    BY <2>2, ROpenCurrentGood
  <2> HIDE DEF o
  <2>4. REmits(o, r) /\ r.view.blocks = Fed(o.view.blocks, o.curItem, fs)
    BY <1>1, <2>1, <2>3, RSayGood
  <2>5. c.view.blocks \in Blocks(Responses!ItemKind)
    BY <2>2, RGoodTypes
  <2>6. Later(c.view.blocks, o.view.blocks)
    BY <1>1, <2>3, <2>5, OpenedBlocks
  <2>7. REmits(s, c) /\ REmits(c, o)
    BY <2>2, <2>3, <2>6 DEF REmits
  <2>8. REmits(s, r)
    BY <2>2, <2>3, <2>4, <2>7, REmitsTransitive
  <2>9. Says(s.view.blocks, r.view.blocks, kind, fs)
    BY <1>1, <2>2, <2>3, <2>4, <2>5, SaysNew
  <2> QED BY <2>8, <2>9
<1> QED BY <1>2, <1>3

\* emitReasoning says no text.
LEMMA REmitReasoningGood ==
    ASSUME NEW s, RGood(s), NEW fs \in Seq(Nat), NEW r, r = Responses!EmitReasoning(s, fs)
    PROVE  REmits(s, r) /\ Spares(s.view.blocks, r.view.blocks, "message")
<1>1. CASE fs = <<>>
  <2>1. r = s
    BY <1>1 DEF Responses!EmitReasoning
  <2> QED BY <2>1, REmitsNothing DEF Spares
<1>2. CASE fs # <<>>
  <2> DEFINE kind == "reasoning"
             o == RAt(s, kind)
  <2>1. r = [o EXCEPT !.view = Responses!Client!Delta(@, o.curItem, fs), !.reasonBuf = @ \o fs]
    BY <1>2 DEF Responses!EmitReasoning, RAt
  <2>2. o.cur # "message"
    <3>1. CASE s.cur = kind
      BY <3>1 DEF RAt
    <3>2. CASE s.cur # kind
      <4> DEFINE c == Responses!CloseCurrent(s)
      <4>1. RGood(c) /\ c.cur = RNone
        BY RCloseCurrentGood
      <4> HIDE DEF c
      <4>2. o = Responses!OpenCurrent(c, kind)
        BY <3>2 DEF RAt, c
      <4> HIDE DEF o
      <4>3. kind \in {"reasoning", "message"} /\ kind # "message"
        OBVIOUS
      <4> HIDE DEF kind
      <4>4. o.cur = kind
        BY <4>1, <4>2, <4>3, ROpenCurrentGood
      <4> QED BY <4>3, <4>4
    <3> QED BY <3>1, <3>2
  <2>3. kind \in {"reasoning", "message"} /\ kind # "message"
    OBVIOUS
  <2> HIDE DEF o, kind
  <2>4. r = RSay(o, fs)
    BY <2>1, <2>2 DEF RSay
  <2>5. REmits(s, r) /\ Says(s.view.blocks, r.view.blocks, kind, fs)
    BY <2>3, <2>4, REmitGood DEF o
  <2> QED BY <2>3, <2>5, RGoodTypes, SaysSpares
<1> QED BY <1>1, <1>2

\* emitText keeps the text rising when what it emits follows the text before.
LEMMA REmitTextGood ==
    ASSUME NEW s, RGood(s), NEW m \in Nat, NEW o \in Nat, m <= o,
           Rising(s.view.blocks, "message", m),
           NEW fs \in Seq(Nat), Follow(s.view.blocks, "message", o, fs),
           NEW r, r = Responses!EmitText(s, fs)
    PROVE  REmits(s, r) /\ Rising(r.view.blocks, "message", o)
<1>1. s.view.blocks \in Blocks(Responses!ItemKind)
  BY RGoodTypes
<1>2. CASE fs = <<>>
  <2>1. r = s
    BY <1>2 DEF Responses!EmitText
  <2>2. Spares(s.view.blocks, s.view.blocks, "message")
    BY DEF Spares
  <2>3. Rising(s.view.blocks, "message", o)
    BY <1>1, <2>2, RisingSpared
  <2> QED BY <2>1, <2>3, REmitsNothing
<1>3. CASE fs # <<>>
  <2> DEFINE kind == "message"
             q == RAt(s, kind)
  <2>1. r = [q EXCEPT !.view = Responses!Client!Delta(@, q.curItem, fs), !.textBuf = @ \o fs]
    BY <1>3 DEF Responses!EmitText, RAt
  <2>2. q.cur = kind
    <3>1. CASE s.cur = kind
      BY <3>1 DEF RAt
    <3>2. CASE s.cur # kind
      <4> DEFINE c == Responses!CloseCurrent(s)
      <4>1. RGood(c) /\ c.cur = RNone
        BY RCloseCurrentGood
      <4> HIDE DEF c
      <4>2. q = Responses!OpenCurrent(c, kind)
        BY <3>2 DEF RAt, c
      <4> HIDE DEF q
      <4>3. kind \in {"reasoning", "message"}
        OBVIOUS
      <4> HIDE DEF kind
      <4> QED BY <4>1, <4>2, <4>3, ROpenCurrentGood
    <3> QED BY <3>1, <3>2
  <2> HIDE DEF q
  <2>3. r = RSay(q, fs)
    BY <2>1, <2>2 DEF RSay
  <2>4. kind \in {"reasoning", "message"}
    OBVIOUS
  <2>5. REmits(s, r) /\ Says(s.view.blocks, r.view.blocks, kind, fs)
    <3> HIDE DEF kind
    <3> QED BY <2>3, <2>4, REmitGood DEF q
  <2>6. r.view.blocks \in Blocks(Responses!ItemKind)
    BY <2>5, RGoodTypes DEF REmits
  <2> QED BY <1>1, <2>5, <2>6, RisingOn
<1> QED BY <1>2, <1>3

----------------------------------------------------------------------------
(* The tools of a Responses stream *)

\* What the proofs need of the types of a tool.
LEMMA RToolTypes ==
    ASSUME NEW s, RGood(s), NEW t \in Tool
    PROVE  /\ s.tools[t] \in Responses!ToolState
           /\ s.tools[t].seen \in BOOLEAN /\ s.tools[t].item \in Nat /\ s.tools[t].args \in Seq(Nat)
<1>1. s.tools[t] \in Responses!ToolState
  BY RGoodTypes
<1> QED BY <1>1 DEF Responses!ToolState

\* The state with other tools.
RGrow(s, w, tools, next) == [s EXCEPT !.view = w, !.tools = tools, !.next = next]

\* What changes with the tools, and what does not.
LEMMA RGrowIs ==
    ASSUME NEW s \in Responses!StreamState, NEW w \in Responses!Client!View,
           NEW tools \in [Tool -> Responses!ToolState], NEW next \in Nat,
           NEW r, r = RGrow(s, w, tools, next)
    PROVE  /\ r \in Responses!StreamState /\ RKeeps(s, r)
           /\ r.view = w /\ r.tools = tools /\ r.next = next /\ r.outputs = s.outputs
           /\ r.textBuf = s.textBuf /\ r.reasonBuf = s.reasonBuf
           /\ r.cur = s.cur /\ r.curItem = s.curItem
<1>1. r \in Responses!StreamState
  BY RStateIs DEF RGrow, RState
<1>2. RKeeps(s, r)
  BY RStateIs DEF RGrow, RState, RKeeps
<1>3. r.view = w /\ r.tools = tools /\ r.next = next
  BY RStateIs DEF RGrow, RState
<1>4. r.outputs = s.outputs /\ r.textBuf = s.textBuf /\ r.reasonBuf = s.reasonBuf
  BY RStateIs DEF RGrow, RState
<1>5. r.cur = s.cur /\ r.curItem = s.curItem
  BY RStateIs DEF RGrow, RState
<1> QED BY <1>1, <1>2, <1>3, <1>4, <1>5

\* One tool gets something; the others and the text stay as they are.
RToolOnly(s, r, t) ==
    /\ RGood(r) /\ RKeeps(s, r) /\ r.tools[t].seen
    /\ \A u \in Tool : u # t => r.tools[u] = s.tools[u]
    /\ Later(s.view.blocks, r.view.blocks)
    /\ Spares(s.view.blocks, r.view.blocks, "message")

\* A tool that was not seen gets an item of its own beside the open ones.
LEMMA ROpenToolGood ==
    ASSUME NEW s, RGood(s), NEW t \in Tool, ~s.tools[t].seen, NEW r, r = Responses!OpenTool(s, t)
    PROVE  RToolOnly(s, r, t) /\ r.tools[t].args = <<>>
<1> DEFINE c == Responses!CloseCurrent(s)
           b == c.view.blocks
           x == c.next
           y == x + 1
           k == "function_call"
           w == Responses!Client!OpenBlock(c.view, x, k)
           one == [seen |-> TRUE, item |-> x, args |-> <<>>]
           tools == [c.tools EXCEPT ![t] = one]
<1>1. r = [c EXCEPT !.view = w, !.tools[t] = one, !.next = y]
  BY DEF Responses!OpenTool
<1>2. /\ RGood(c) /\ c.cur = RNone /\ RKeeps(s, c) /\ c.tools = s.tools
      /\ SameWords(s.view.blocks, c.view.blocks)
      /\ Later(s.view.blocks, c.view.blocks)
  BY RCloseCurrentGood
<1> HIDE DEF c
<1>3. /\ c.view.blocks \in Blocks(Responses!ItemKind) /\ Len(c.view.blocks) \in Nat
      /\ s.view.blocks \in Blocks(Responses!ItemKind) /\ Len(s.view.blocks) \in Nat
      /\ c.next \in Nat /\ c.tools \in [Tool -> Responses!ToolState]
  BY <1>2, RGoodTypes
<1>4. x = Len(b) + 1 /\ y \in Nat /\ y = x + 1
  BY <1>2, <1>3 DEF RGood, RCurrent
<1>5. c \in Responses!StreamState /\ RLive(c.view) /\ RCurrent(c) /\ RTools(c) /\ ROpen(c)
      /\ ROutputs(c)
  BY <1>2 DEF RGood
<1>6. k \in Responses!ItemKind /\ k # "message" /\ k = "function_call"
  BY DEF Responses!ItemKind
<1>7. RLive(w) /\ w.blocks = Append(b, NewBlock(k))
  <2> DEFINE v == c.view
  <2>1. \A i \in 1..Len(v.blocks) : v.blocks[i].open => v.blocks[i].kind = "function_call"
    BY <1>2, ROnlyTools
  <2>2. RLive(v)
    BY <1>5
  <2> HIDE DEF v, k
  <2>3. /\ RLive(Responses!Client!OpenBlock(v, Len(v.blocks) + 1, k))
        /\ Responses!Client!OpenBlock(v, Len(v.blocks) + 1, k).blocks =
              Append(v.blocks, NewBlock(k))
    BY <1>6, <2>1, <2>2, ROpenView
  <2> QED BY <1>4, <2>3 DEF v
<1>8. one \in Responses!ToolState
  <2>1. <<>> \in Seq(Nat)
    OBVIOUS
  <2> QED BY <1>3, <2>1 DEF Responses!ToolState
<1>9. one.seen = TRUE /\ one.item = x /\ one.args = <<>>
  OBVIOUS
<1> HIDE DEF w, k, one, x, y
<1>10. /\ tools \in [Tool -> Responses!ToolState]
       /\ tools[t] = one /\ \A u \in Tool : u # t => tools[u] = c.tools[u]
  BY <1>3, <1>8
<1>11. r = RGrow(c, w, tools, y)
  BY <1>1 DEF RGrow
<1> HIDE DEF tools
<1>12. w \in Responses!Client!View
  BY <1>7 DEF RLive
<1>13. /\ r \in Responses!StreamState /\ RKeeps(c, r)
       /\ r.view = w /\ r.tools = tools /\ r.next = y /\ r.outputs = c.outputs
       /\ r.textBuf = c.textBuf /\ r.reasonBuf = c.reasonBuf
       /\ r.cur = c.cur /\ r.curItem = c.curItem
  BY <1>4, <1>5, <1>10, <1>11, <1>12, RGrowIs
<1>14. /\ Len(w.blocks) = Len(b) + 1
       /\ \A j \in 1..Len(b) : w.blocks[j] = b[j]
       /\ w.blocks[Len(b) + 1] = NewBlock(k)
       /\ Later(b, w.blocks)
  <2>1. b \in Blocks(Responses!ItemKind)
    BY <1>3
  <2> HIDE DEF b
  <2> QED BY <1>6, <1>7, <2>1, OpenedBlocks
<1>15. /\ w.blocks[Len(b) + 1].kind = "function_call" /\ w.blocks[Len(b) + 1].open
       /\ w.blocks[Len(b) + 1].frags = <<>>
  BY <1>6, <1>14 DEF NewBlock
<1>16. RCurrent(r)
  <2>1. r.next = Len(r.view.blocks) + 1 /\ r.cur = RNone
    BY <1>2, <1>3, <1>4, <1>13, <1>14
  <2>2. /\ r.cur # "message" => r.textBuf = <<>>
        /\ r.cur # "reasoning" => r.reasonBuf = <<>>
    BY <1>5, <1>13 DEF RCurrent
  <2> QED BY <2>1, <2>2 DEF RCurrent
<1>17. RTools(r)
  <2> SUFFICES ASSUME NEW u \in Tool, r.tools[u].seen
               PROVE  RToolIs(r, u)
    BY DEF RTools
  <2>1. ASSUME NEW a \in Tool, a # t, r.tools[a].seen
        PROVE  /\ r.tools[a] = c.tools[a] /\ RToolIs(c, a)
               /\ c.tools[a].item \in 1..Len(b)
               /\ w.blocks[c.tools[a].item] = b[c.tools[a].item]
    <3>1. r.tools[a] = c.tools[a]
      BY <1>10, <1>13, <2>1
    <3>2. RToolIs(c, a)
      BY <1>5, <2>1, <3>1 DEF RTools
    <3>3. c.tools[a].item \in 1..Len(b)
      BY <3>2 DEF RToolIs
    <3> QED BY <1>14, <3>1, <3>2, <3>3
  <2>2. r.tools[t].item = Len(b) + 1 /\ r.tools[t].args = <<>>
    BY <1>4, <1>9, <1>10, <1>13
  <2>3. CASE u = t
    <3>1. \A a \in Tool : r.tools[a].seen /\ u # a => r.tools[u].item # r.tools[a].item
      BY <1>3, <2>1, <2>2, <2>3
    <3>2. r.tools[u].item \in 1..Len(r.view.blocks)
      BY <1>3, <1>13, <1>14, <2>2, <2>3, SMTT(20)
    <3> QED BY <1>13, <1>15, <2>2, <2>3, <3>1, <3>2 DEF RToolIs
  <2>4. CASE u # t
    <3>1. /\ r.tools[u] = c.tools[u] /\ RToolIs(c, u)
          /\ c.tools[u].item \in 1..Len(b)
          /\ w.blocks[c.tools[u].item] = b[c.tools[u].item]
      BY <2>1, <2>4
    <3>2. ASSUME NEW a \in Tool, r.tools[a].seen, u # a
          PROVE  r.tools[u].item # r.tools[a].item
      <4>1. CASE a = t
        BY <1>3, <2>2, <3>1, <4>1
      <4>2. CASE a # t
        <5>1. r.tools[a] = c.tools[a]
          BY <2>1, <3>2, <4>2
        <5> QED BY <3>1, <3>2, <5>1 DEF RToolIs
      <4> QED BY <4>1, <4>2
    <3>3. r.tools[u].item \in 1..Len(r.view.blocks)
      BY <1>3, <1>13, <1>14, <3>1, SMTT(20)
    <3>4. /\ r.view.blocks[r.tools[u].item].open
          /\ r.view.blocks[r.tools[u].item].kind = "function_call"
          /\ r.view.blocks[r.tools[u].item].frags = r.tools[u].args
      BY <1>13, <3>1 DEF RToolIs
    <3> QED BY <3>2, <3>3, <3>4 DEF RToolIs
  <2> QED BY <2>3, <2>4
<1>18. ROpen(r)
  <2> SUFFICES ASSUME NEW j \in 1..Len(w.blocks), w.blocks[j].open
               PROVE  \E u \in Tool : r.tools[u].seen /\ r.tools[u].item = j
    BY <1>13 DEF ROpen
  <2>1. CASE j = Len(b) + 1
    BY <1>4, <1>9, <1>10, <1>13, <2>1
  <2>2. CASE j # Len(b) + 1
    <3>1. j \in 1..Len(b) /\ b[j].open
      BY <1>3, <1>14, <2>2, SMTT(20)
    <3>2. PICK u \in Tool : c.tools[u].seen /\ c.tools[u].item = j
      BY <1>2, <1>5, <3>1 DEF ROpen
    <3>3. u # t
      BY <1>2, <3>2
    <3> QED BY <1>10, <1>13, <3>2, <3>3
  <2> QED BY <2>1, <2>2
<1>19. ROutputs(r)
  <2>1. RShut(w.blocks) = RShut(b) /\ RItems(w.blocks, RShut(b)) = RItems(b, RShut(b))
    <3>1. b \in Blocks(Responses!ItemKind)
      BY <1>3
    <3> HIDE DEF b
    <3> QED BY <1>6, <1>7, <3>1, RShutOpened
  <2> QED BY <1>5, <1>13, <2>1 DEF ROutputs
<1>20. RGood(r)
  BY <1>7, <1>13, <1>16, <1>17, <1>18, <1>19 DEF RGood
<1>21. Spares(s.view.blocks, r.view.blocks, "message")
  <2>1. Spares(b, w.blocks, "message")
    BY <1>3, <1>14, <1>15, SMTT(40) DEF Spares
  <2>2. Spares(s.view.blocks, b, "message")
    BY <1>2, SameSpares
  <2> HIDE DEF b
  <2> QED BY <1>13, <2>1, <2>2, SpareTransitive
<1>22. Later(s.view.blocks, r.view.blocks)
  <2>1. w.blocks \in Blocks(Responses!ItemKind)
    BY <1>12, RViewBlocks
  <2> QED BY <1>2, <1>3, <1>13, <1>14, <2>1, LaterTransitive
<1>23. RKeeps(s, r)
  BY <1>2, <1>13 DEF RKeeps
<1>24. r.tools[t].seen /\ r.tools[t].args = <<>> /\ \A u \in Tool : u # t => r.tools[u] = s.tools[u]
  BY <1>2, <1>9, <1>10, <1>13
<1> QED BY <1>20, <1>21, <1>22, <1>23, <1>24 DEF RToolOnly

\* A delta of tool t, and the same in its buffer.
RFeed(s, t, f) ==
    [s EXCEPT !.tools[t].args = Append(@, f),
              !.view = Responses!Client!Delta(@, s.tools[t].item, <<f>>)]

\* A delta of a tool keeps its buffer what was streamed of it.
LEMMA RFeedGood ==
    ASSUME NEW s, RGood(s), NEW t \in Tool, s.tools[t].seen, NEW f \in Nat, NEW r, r = RFeed(s, t, f)
    PROVE  RToolOnly(s, r, t) /\ r.tools[t].args = Append(s.tools[t].args, f)
<1> DEFINE v == s.view
           b == v.blocks
           i == s.tools[t].item
           fs == <<f>>
           w == Responses!Client!Delta(v, i, fs)
           args == Append(s.tools[t].args, f)
           one == [s.tools[t] EXCEPT !.args = args]
           tools == [s.tools EXCEPT ![t] = one]
           x == s.next
<1>1. /\ s.view.blocks \in Blocks(Responses!ItemKind) /\ Len(s.view.blocks) \in Nat
      /\ s.tools \in [Tool -> Responses!ToolState] /\ s.next \in Nat
  BY RGoodTypes
<1>2. s \in Responses!StreamState /\ RLive(s.view) /\ RCurrent(s) /\ RTools(s) /\ ROpen(s)
      /\ ROutputs(s)
  BY DEF RGood
<1>3. RToolIs(s, t)
  BY <1>2 DEF RTools
<1>4. /\ s.tools[t] \in Responses!ToolState /\ s.tools[t].args \in Seq(Nat)
      /\ fs \in Seq(Nat) /\ fs = <<f>>
  BY RToolTypes
<1>5. /\ i \in 1..Len(b) /\ b[i].open /\ b[i].kind = "function_call" /\ b[i].frags = s.tools[t].args
      /\ i = s.tools[t].item
  BY <1>3 DEF RToolIs
<1>6. args \in Seq(Nat) /\ args = s.tools[t].args \o fs
  BY <1>4, AppendProperties, AppendIsConcat
<1>7. one \in Responses!ToolState /\ one.seen /\ one.item = i /\ one.args = args
  <2> HIDE DEF args
  <2> QED BY <1>4, <1>6 DEF Responses!ToolState
<1>8. r = RGrow(s, w, tools, x)
  <2>1. r = [s EXCEPT !.tools = tools, !.view = w]
    BY <1>1, <1>4 DEF RFeed, Responses!ToolState
  <2> HIDE DEF tools, w
  <2> QED BY <1>2, <2>1, RStateIs DEF RGrow, RState
<1>9. v = s.view /\ x = s.next /\ x \in Nat
  BY <1>1
<1> HIDE DEF w, one, args, fs, x, i
<1>10. /\ tools \in [Tool -> Responses!ToolState]
       /\ tools[t] = one /\ \A u \in Tool : u # t => tools[u] = s.tools[u]
  BY <1>1, <1>7
<1> HIDE DEF tools
<1>11. RLive(w) /\ w.blocks = Fed(b, i, fs)
  <2>1. RLive(v) /\ i \in 1..Len(v.blocks) /\ v.blocks[i].open
    BY <1>2, <1>5
  <2> HIDE DEF v
  <2>2. /\ RLive(Responses!Client!Delta(v, i, fs))
        /\ Responses!Client!Delta(v, i, fs).blocks = Fed(v.blocks, i, fs)
    BY <1>4, <2>1, RDeltaView
  <2> QED BY <2>2 DEF w
<1>12. /\ Len(w.blocks) = Len(b)
       /\ \A j \in 1..Len(b) : j # i => w.blocks[j] = b[j]
       /\ w.blocks[i].kind = b[i].kind /\ w.blocks[i].open
       /\ w.blocks[i].frags = b[i].frags \o fs
       /\ Later(b, w.blocks)
  <2>1. i \in 1..Len(b) /\ b[i].open /\ b \in Blocks(Responses!ItemKind) /\ fs \in Seq(Nat)
    BY <1>1, <1>4, <1>5
  <2> HIDE DEF b
  <2>2. /\ Len(Fed(b, i, fs)) = Len(b)
        /\ \A j \in 1..Len(b) : j # i => Fed(b, i, fs)[j] = b[j]
        /\ Fed(b, i, fs)[i].kind = b[i].kind
        /\ Fed(b, i, fs)[i].open
        /\ Fed(b, i, fs)[i].frags = b[i].frags \o fs
        /\ Later(b, Fed(b, i, fs))
    BY <2>1, FedBlocks
  <2> QED BY <1>11, <2>2
<1>13. w \in Responses!Client!View
  BY <1>11 DEF RLive
<1>14. /\ r \in Responses!StreamState /\ RKeeps(s, r)
       /\ r.view = w /\ r.tools = tools /\ r.next = x /\ r.outputs = s.outputs
       /\ r.textBuf = s.textBuf /\ r.reasonBuf = s.reasonBuf
       /\ r.cur = s.cur /\ r.curItem = s.curItem
  BY <1>2, <1>8, <1>9, <1>10, <1>13, RGrowIs
<1>15. RCurrent(r)
  <2>1. r.next = Len(r.view.blocks) + 1
    BY <1>2, <1>9, <1>12, <1>14 DEF RCurrent
  <2>2. /\ r.cur # "message" => r.textBuf = <<>>
        /\ r.cur # "reasoning" => r.reasonBuf = <<>>
    BY <1>2, <1>14 DEF RCurrent
  <2>3. ASSUME r.cur # RNone
        PROVE  /\ r.curItem \in 1..Len(r.view.blocks)
               /\ r.curItem = Len(r.view.blocks)
               /\ r.view.blocks[r.curItem].open
               /\ r.view.blocks[r.curItem].kind = r.cur
               /\ r.view.blocks[r.curItem].frags = RBuffer(r)
    <3>1. /\ s.curItem \in 1..Len(b) /\ s.curItem = Len(b) /\ b[s.curItem].open
          /\ b[s.curItem].kind = s.cur /\ b[s.curItem].frags = RBuffer(s)
      BY <1>2, <1>14, <2>3 DEF RCurrent
    <3>2. s.curItem # i
      <4>1. s.cur # RNone
        BY <1>14, <2>3
      <4> QED BY <1>5, <4>1, RApart
    <3>3. RBuffer(r) = RBuffer(s)
      BY <1>14 DEF RBuffer
    <3>4. w.blocks[s.curItem] = b[s.curItem]
      BY <1>12, <3>1, <3>2
    <3> QED BY <1>12, <1>14, <3>1, <3>3, <3>4
  <2> QED BY <2>1, <2>2, <2>3, Zenon DEF RCurrent
<1>16. RTools(r)
  <2> SUFFICES ASSUME NEW u \in Tool, r.tools[u].seen
               PROVE  RToolIs(r, u)
    BY DEF RTools
  <2>1. ASSUME NEW a \in Tool
        PROVE  r.tools[a].item = s.tools[a].item /\ (r.tools[a].seen => s.tools[a].seen)
    <3>1. CASE a = t
      BY <1>5, <1>7, <1>10, <1>14, <3>1
    <3>2. CASE a # t
      BY <1>10, <1>14, <3>2
    <3> QED BY <3>1, <3>2
  <2>2. RToolIs(s, u)
    BY <1>2, <2>1 DEF RTools
  <2>3. \A a \in Tool : r.tools[a].seen /\ u # a => r.tools[u].item # r.tools[a].item
    BY <2>1, <2>2, Zenon DEF RToolIs
  <2>4. r.tools[u].item \in 1..Len(r.view.blocks)
    BY <1>12, <1>14, <2>1, <2>2, Zenon DEF RToolIs
  <2>5. CASE u = t
    <3>1. r.tools[u].item = i /\ r.tools[u].args = s.tools[t].args \o fs
      BY <1>6, <1>7, <1>10, <1>14, <2>5, Zenon
    <3>2. r.view.blocks[i].kind = "function_call" /\ r.view.blocks[i].open
          /\ r.view.blocks[i].frags = s.tools[t].args \o fs
      BY <1>5, <1>12, <1>14, Zenon
    <3> QED BY <2>3, <2>4, <3>1, <3>2 DEF RToolIs
  <2>6. CASE u # t
    <3>1. r.tools[u] = s.tools[u] /\ s.tools[u].item \in 1..Len(b) /\ s.tools[u].item # i
      BY <1>5, <1>10, <1>14, <2>2, <2>6, Zenon DEF RToolIs
    <3>2. r.view.blocks[s.tools[u].item] = b[s.tools[u].item]
      BY <1>12, <1>14, <3>1
    <3>3. /\ r.view.blocks[r.tools[u].item].open
          /\ r.view.blocks[r.tools[u].item].kind = "function_call"
          /\ r.view.blocks[r.tools[u].item].frags = r.tools[u].args
      BY <2>2, <3>1, <3>2 DEF RToolIs
    <3> QED BY <2>3, <2>4, <3>3, Zenon DEF RToolIs
  <2> QED BY <2>5, <2>6
<1>17. ROpen(r)
  <2> SUFFICES ASSUME NEW j \in 1..Len(w.blocks), w.blocks[j].open, ~(r.cur # RNone /\ j = r.curItem)
               PROVE  \E u \in Tool : r.tools[u].seen /\ r.tools[u].item = j
    BY <1>14 DEF ROpen
  <2>1. CASE j = i
    BY <1>7, <1>10, <1>14, <2>1
  <2>2. CASE j # i
    <3>1. j \in 1..Len(b) /\ b[j].open
      BY <1>12, <2>2
    <3>2. PICK u \in Tool : s.tools[u].seen /\ s.tools[u].item = j
      BY <1>2, <1>14, <3>1 DEF ROpen
    <3>3. u # t
      BY <1>5, <2>2, <3>2
    <3> QED BY <1>10, <1>14, <3>2, <3>3
  <2> QED BY <2>1, <2>2
<1>18. ROutputs(r)
  <2>1. RShut(w.blocks) = RShut(b) /\ RItems(w.blocks, RShut(b)) = RItems(b, RShut(b))
    <3>1. i \in 1..Len(b) /\ b[i].open /\ b \in Blocks(Responses!ItemKind)
      BY <1>1, <1>5
    <3> HIDE DEF b
    <3> QED BY <1>4, <1>11, <3>1, RShutFed
  <2> QED BY <1>2, <1>14, <2>1 DEF ROutputs
<1>19. RGood(r)
  BY <1>11, <1>14, <1>15, <1>16, <1>17, <1>18 DEF RGood
<1>20. Spares(b, w.blocks, "message")
  <2> SUFFICES ASSUME NEW j \in 1..Len(w.blocks), w.blocks[j].kind = "message"
               PROVE  j \in 1..Len(b) /\ b[j].kind = "message" /\ w.blocks[j].frags = b[j].frags
    BY Zenon DEF Spares
  <2>1. j # i
    BY <1>5, <1>12, Zenon
  <2>2. j \in 1..Len(b) /\ w.blocks[j] = b[j]
    BY <1>12, <2>1
  <2> QED BY <2>2
<1>21. r.tools[t].seen /\ r.tools[t].args = args /\ \A u \in Tool : u # t => r.tools[u] = s.tools[u]
  BY <1>7, <1>10, <1>14
<1>22. args = Append(s.tools[t].args, f)
  BY DEF args
<1> QED BY <1>12, <1>14, <1>19, <1>20, <1>21, <1>22 DEF RToolOnly

----------------------------------------------------------------------------
(* The methods of the Responses encoder that consume a chunk *)

\* What the think splitter holds undecided rises, and no text was sent before it.
RUndecided(s, m) ==
    ~s.sawReasoning /\ s.think.state = "detecting" =>
        /\ \A i \in 1..Len(s.view.blocks) : s.view.blocks[i].kind # "message"
        /\ \A x, y \in 1..Len(s.think.held) : x < y => s.think.held[x] < s.think.held[y]
        /\ \A x \in 1..Len(s.think.held) : s.think.held[x] <= m

\* A state in which the chunks up to m are consumed.
RReady(s, m) ==
    /\ RGood(s)
    /\ Rising(s.view.blocks, "message", m)
    /\ RUndecided(s, m)

\* What came for a tool is buffered for it.
RCounts(s, came) ==
    \A t \in Tool : came[t] = IF s.tools[t].seen THEN s.tools[t].args ELSE <<>>

\* What has come once the delta d of chunk f is consumed.
RToolCame(d, f, came) == IF d.args THEN [came EXCEPT ![d.index] = Append(@, f)] ELSE came

\* consume, one delta of a tool.
LEMMA RToolReady ==
    ASSUME NEW s, NEW m \in Nat, RReady(s, m), NEW came \in [Tool -> Seq(Nat)], RCounts(s, came),
           NEW d \in Responses!ToolDelta, NEW f \in Nat,
           NEW r, r = Responses!ConsumeTool(s, d, f), NEW had, had = RToolCame(d, f, came)
    PROVE  /\ RReady(r, m) /\ RCounts(r, had) /\ had \in [Tool -> Seq(Nat)]
           /\ RKeeps(s, r) /\ Later(s.view.blocks, r.view.blocks)
<1> DEFINE t == d.index
           o == IF s.tools[t].seen THEN s ELSE Responses!OpenTool(s, t)
<1>1. RGood(s) /\ t \in Tool /\ d.args \in BOOLEAN
  BY DEF RReady, Responses!ToolDelta
<1>2. r = IF d.args THEN RFeed(o, t, f) ELSE o
  BY DEF Responses!ConsumeTool, RFeed
<1>3. s.tools[t].seen \in BOOLEAN
  BY <1>1, RToolTypes
<1>4. had = IF d.args THEN [came EXCEPT ![t] = Append(came[t], f)] ELSE came
  BY DEF RToolCame
<1>5. came[t] = IF s.tools[t].seen THEN s.tools[t].args ELSE <<>>
  BY <1>1 DEF RCounts
<1> HIDE DEF t
<1>6. RToolOnly(s, o, t) /\ o.tools[t].args = came[t]
  <2>1. CASE s.tools[t].seen
    <3>1. o = s
      BY <2>1
    <3>2. Later(s.view.blocks, s.view.blocks)
      BY <1>1, RGoodTypes, LaterReflexive
    <3>3. Spares(s.view.blocks, s.view.blocks, "message")
      BY DEF Spares
    <3> HIDE DEF o
    <3> QED BY <1>1, <1>5, <2>1, <3>1, <3>2, <3>3 DEF RToolOnly, RKeeps
  <2>2. CASE ~s.tools[t].seen
    <3>1. o = Responses!OpenTool(s, t)
      BY <2>2
    <3> HIDE DEF o
    <3>2. RToolOnly(s, o, t) /\ o.tools[t].args = <<>>
      BY <1>1, <2>2, <3>1, ROpenToolGood
    <3> QED BY <1>5, <2>2, <3>2
  <2> QED BY <1>3, <2>1, <2>2
<1> HIDE DEF o
<1>7. /\ RToolOnly(s, r, t) /\ r.tools[t].args = had[t]
      /\ had \in [Tool -> Seq(Nat)] /\ \A u \in Tool : u # t => had[u] = came[u]
  <2>1. CASE d.args
    <3>1. r = RFeed(o, t, f) /\ had = [came EXCEPT ![t] = Append(came[t], f)]
      BY <1>2, <1>4, <2>1
    <3>2. RGood(o) /\ o.tools[t].seen
      BY <1>6 DEF RToolOnly
    <3>3. RToolOnly(o, r, t) /\ r.tools[t].args = Append(o.tools[t].args, f)
      BY <1>1, <3>1, <3>2, RFeedGood
    <3>4. Append(came[t], f) \in Seq(Nat)
      BY <1>1, AppendProperties
    <3>5. had \in [Tool -> Seq(Nat)] /\ had[t] = Append(came[t], f)
          /\ \A u \in Tool : u # t => had[u] = came[u]
      BY <1>1, <3>1, <3>4
    <3>6. RKeeps(s, r)
      BY <1>6, <3>3 DEF RToolOnly, RKeeps
    <3>7. \A u \in Tool : u # t => r.tools[u] = s.tools[u]
      BY <1>6, <3>3 DEF RToolOnly
    <3>8. Later(s.view.blocks, r.view.blocks)
      BY <1>1, <1>6, <3>3, RGoodTypes, LaterTransitive DEF RToolOnly
    <3>9. Spares(s.view.blocks, r.view.blocks, "message")
      BY <1>6, <3>3, SpareTransitive DEF RToolOnly
    <3>10. RToolOnly(s, r, t)
      BY <3>3, <3>6, <3>7, <3>8, <3>9 DEF RToolOnly
    <3> QED BY <1>6, <3>3, <3>5, <3>10
  <2>2. CASE ~d.args
    BY <1>2, <1>4, <1>6, <2>2
  <2> QED BY <1>1, <2>1, <2>2
<1>8. RGood(r) /\ RKeeps(s, r) /\ Later(s.view.blocks, r.view.blocks)
      /\ Spares(s.view.blocks, r.view.blocks, "message")
  BY <1>7 DEF RToolOnly
<1>9. Rising(r.view.blocks, "message", m)
  <2>1. m <= m
    OBVIOUS
  <2> QED BY <1>1, <1>8, <2>1, RGoodTypes, RisingSpared DEF RReady
<1>10. RUndecided(r, m)
  BY <1>8 DEF RReady, RUndecided, RKeeps, Spares
<1>11. RCounts(r, had)
  <2> SUFFICES ASSUME NEW u \in Tool
               PROVE  had[u] = IF r.tools[u].seen THEN r.tools[u].args ELSE <<>>
    BY DEF RCounts
  <2>1. CASE u = t
    BY <1>7, <2>1 DEF RToolOnly
  <2>2. CASE u # t
    <3>1. r.tools[u] = s.tools[u] /\ had[u] = came[u]
      BY <1>7, <2>2 DEF RToolOnly
    <3> QED BY <3>1 DEF RCounts
  <2> QED BY <2>1, <2>2
<1> QED BY <1>7, <1>8, <1>9, <1>10, <1>11 DEF RReady

\* Both codecs split text in the same way.
LEMMA RThinkIs ==
    /\ Responses!Think = Messages!Think
    /\ \A t, f : Responses!ThinkPush(t, f) = Messages!ThinkPush(t, f)
    /\ \A t : Responses!ThinkFlush(t) = Messages!ThinkFlush(t)
<1>1. Responses!Think = Messages!Think
  BY DEF Responses!Think, Messages!Think
<1>2. ASSUME NEW t
      PROVE  Responses!ThinkFlush(t) = Messages!ThinkFlush(t)
  BY DEF Responses!ThinkFlush, Messages!ThinkFlush
<1>3. ASSUME NEW h, NEW f
      PROVE  Responses!FeedInside(h, f) = Messages!FeedInside(h, f)
  BY Zenon DEF Responses!FeedInside, Messages!FeedInside, Responses!Split, Messages!Split
<1>4. ASSUME NEW h, NEW f
      PROVE  Responses!FeedDetecting(h, f) = Messages!FeedDetecting(h, f)
  BY <1>3, Zenon DEF Responses!FeedDetecting, Messages!FeedDetecting, Responses!Split, Messages!Split
<1>5. ASSUME NEW f
      PROVE  Responses!FeedAfterClose(f) = Messages!FeedAfterClose(f)
  BY Zenon DEF Responses!FeedAfterClose, Messages!FeedAfterClose, Responses!Split, Messages!Split
<1>6. ASSUME NEW t, NEW f
      PROVE  Responses!ThinkPush(t, f) = Messages!ThinkPush(t, f)
  BY <1>3, <1>4, <1>5, Zenon DEF Responses!ThinkPush, Messages!ThinkPush, Responses!Split, Messages!Split
<1> QED BY <1>1, <1>2, <1>6

\* What a part of a chunk that is not a tool call leaves alone.
RWrites(s, r) ==
    /\ r.tools = s.tools /\ r.incomplete = s.incomplete /\ r.err = s.err
    /\ Later(s.view.blocks, r.view.blocks)

\* What emits text or reasoning leaves the tools alone.
LEMMA REmitsWrites ==
    ASSUME NEW s, NEW r, REmits(s, r)
    PROVE  RWrites(s, r)
BY DEF REmits, RKeeps, RWrites

\* Two parts of a chunk after each other.
LEMMA RWritesTransitive ==
    ASSUME NEW s, NEW r, NEW q, RGood(s), RGood(r), RGood(q), RWrites(s, r), RWrites(r, q)
    PROVE  RWrites(s, q)
<1>1. Later(s.view.blocks, q.view.blocks)
  BY RGoodTypes, LaterTransitive DEF RWrites
<1> QED BY <1>1 DEF RWrites

\* The state with another outlook: nothing that concerns its items.
RAround(s, saw, k, incomplete, err) ==
    [s EXCEPT !.sawReasoning = saw, !.think = k, !.incomplete = incomplete, !.err = err]

\* The think splitter and how the stream will end concern no item.
LEMMA RAroundGood ==
    ASSUME NEW s, RGood(s), NEW saw \in BOOLEAN, NEW k \in Messages!Think,
           NEW incomplete \in BOOLEAN, NEW err \in BOOLEAN,
           NEW r, r = RAround(s, saw, k, incomplete, err)
    PROVE  /\ RGood(r) /\ r.view = s.view /\ r.tools = s.tools
           /\ r.sawReasoning = saw /\ r.think = k /\ r.incomplete = incomplete /\ r.err = err
<1>1. s \in Responses!StreamState
  BY DEF RGood
<1>2. r \in Responses!StreamState
  BY <1>1, RStateIs, RThinkIs DEF RAround, RState
<1>3. r.view = s.view /\ r.tools = s.tools /\ r.next = s.next /\ r.outputs = s.outputs
  BY <1>1, RStateIs DEF RAround, RState
<1>4. r.cur = s.cur /\ r.curItem = s.curItem
  BY <1>1, RStateIs DEF RAround, RState
<1>5. r.textBuf = s.textBuf /\ r.reasonBuf = s.reasonBuf
  BY <1>1, RStateIs DEF RAround, RState
<1>6. r.sawReasoning = saw /\ r.think = k
  BY <1>1, RStateIs DEF RAround, RState
<1>7. r.incomplete = incomplete /\ r.err = err
  BY <1>1, RStateIs DEF RAround, RState
<1>8. RCurrent(r)
  <2>1. RBuffer(r) = RBuffer(s)
    BY <1>4, <1>5 DEF RBuffer
  <2>2. RCurrent(s)
    BY Zenon DEF RGood
  <2> QED BY <1>3, <1>4, <1>5, <2>1, <2>2 DEF RCurrent
<1>9. RTools(r) /\ ROpen(r) /\ ROutputs(r)
  BY <1>3, <1>4 DEF RGood, RTools, RToolIs, ROpen, ROutputs
<1>10. RGood(r)
  BY <1>2, <1>3, <1>8, <1>9 DEF RGood
<1> QED BY <1>3, <1>6, <1>7, <1>10

\* The state with another think splitter.
RThinks(s, saw, k) == [s EXCEPT !.sawReasoning = saw, !.think = k]

\* The same for the think splitter alone.
LEMMA RSetThink ==
    ASSUME NEW s, RGood(s), NEW saw \in BOOLEAN, NEW k \in Messages!Think,
           NEW r, r = RThinks(s, saw, k)
    PROVE  /\ RGood(r) /\ RWrites(s, r)
           /\ r.view = s.view /\ r.sawReasoning = saw /\ r.think = k
<1> DEFINE i == s.incomplete
           e == s.err
<1>1. i \in BOOLEAN /\ e \in BOOLEAN
  BY RStateIs DEF RGood, RState
<1>2. r = RAround(s, saw, k, i, e)
  BY RStateIs DEF RThinks, RAround, RGood, RState
<1>3. i = s.incomplete /\ e = s.err
  OBVIOUS
<1> HIDE DEF i, e
<1>4. /\ RGood(r) /\ r.view = s.view /\ r.tools = s.tools
      /\ r.sawReasoning = saw /\ r.think = k /\ r.incomplete = i /\ r.err = e
  BY <1>1, <1>2, RAroundGood, SMTT(20)
<1>5. Later(s.view.blocks, r.view.blocks)
  BY <1>4, RGoodTypes, LaterReflexive
<1> QED BY <1>3, <1>4, <1>5 DEF RWrites

\* What rises still does with a new fragment at its end.
LEMMA RisenOne ==
    ASSUME NEW l \in Seq(Nat), NEW m \in Nat, NEW f, f = m + 1,
           \A a, b \in 1..Len(l) : a < b => l[a] < l[b],
           \A a \in 1..Len(l) : l[a] <= m,
           NEW h, h = Append(l, f)
    PROVE  /\ \A a, b \in 1..Len(h) : a < b => h[a] < h[b]
           /\ \A a \in 1..Len(h) : h[a] <= f
<1>1. /\ Len(h) = Len(l) + 1 /\ Len(l) \in Nat /\ f \in Nat
      /\ \A a \in 1..Len(l) : h[a] = l[a]
      /\ h[Len(l) + 1] = f
      /\ \A a \in 1..Len(l) : l[a] \in Nat
  BY AppendProperties, LenProperties, ElementOfSeq
<1>2. \A a \in 1..Len(h) : h[a] <= f
  BY <1>1
<1>3. ASSUME NEW a \in 1..Len(h), NEW b \in 1..Len(h), a < b
      PROVE  h[a] < h[b]
  <2>1. a \in 1..Len(l)
    BY <1>1, <1>3
  <2>2. CASE b \in 1..Len(l)
    BY <1>1, <1>3, <2>1, <2>2
  <2>3. CASE b = Len(l) + 1
    BY <1>1, <2>1, <2>3
  <2> QED BY <1>1, <2>2, <2>3
<1> QED BY <1>2, <1>3

\* consume, the reasoning of a chunk.
LEMMA RReasoningReady ==
    ASSUME NEW s, NEW m \in Nat, RReady(s, m), NEW f \in Nat,
           NEW r, r = Responses!ConsumeReasoning(s, f)
    PROVE  RReady(r, m) /\ RWrites(s, r)
<1> DEFINE x == [s EXCEPT !.sawReasoning = TRUE]
           k == s.think
           saw == TRUE
<1>1. r = Responses!EmitReasoning(x, <<f>>)
  BY DEF Responses!ConsumeReasoning
<1>2. x = RThinks(s, saw, k)
  BY RStateIs DEF RThinks, RReady, RGood, RState
<1>3. RGood(s) /\ k \in Messages!Think /\ saw \in BOOLEAN /\ saw = TRUE
  BY RGoodTypes, RThinkIs DEF RReady
<1> HIDE DEF x, k, saw
<1>4. RGood(x) /\ RWrites(s, x) /\ x.view = s.view /\ x.sawReasoning = saw
  BY <1>2, <1>3, RSetThink, ZenonT(40)
<1>5. REmits(x, r) /\ Spares(x.view.blocks, r.view.blocks, "message")
  <2>1. <<f>> \in Seq(Nat)
    OBVIOUS
  <2> QED BY <1>1, <1>4, <2>1, REmitReasoningGood
<1>6. RGood(r) /\ r.sawReasoning = TRUE
  BY <1>3, <1>4, <1>5 DEF REmits, RKeeps
<1>7. Rising(r.view.blocks, "message", m)
  BY <1>4, <1>5, <1>6, RGoodTypes, RisingSpared DEF RReady
<1>8. RUndecided(r, m)
  BY <1>6 DEF RUndecided
<1>9. RWrites(s, r)
  BY <1>3, <1>4, <1>5, <1>6, REmitsWrites, RWritesTransitive
<1> QED BY <1>6, <1>7, <1>8, <1>9 DEF RReady

\* consume, the content of a chunk, whatever the think splitter makes of it.
LEMMA RContentReady ==
    ASSUME NEW s, NEW m \in Nat, RReady(s, m), NEW r \in Responses!ConsumeContent(s, m + 1)
    PROVE  RReady(r, m + 1) /\ RWrites(s, r)
<1> DEFINE f == m + 1
<1>1. f \in Nat /\ m < f /\ m <= f /\ <<f>> \in Seq(Nat)
  OBVIOUS
<1>2. /\ s.view.blocks \in Blocks(Responses!ItemKind) /\ Len(s.view.blocks) \in Nat
      /\ s.think \in Messages!Think /\ s.think.held \in Seq(Nat) /\ s.sawReasoning \in BOOLEAN
      /\ RGood(s)
  BY RGoodTypes, RThinkIs DEF RReady
\* A fragment that comes now follows everything there is.
<1>3. ASSUME NEW b \in Blocks(Responses!ItemKind), Rising(b, "message", m)
      PROVE  Follow(b, "message", f, <<f>>)
  <2>1. ASSUME NEW i \in 1..Len(b), b[i].kind = "message", NEW x \in 1..Len(b[i].frags)
        PROVE  b[i].frags[x] < f
    <3>1. b[i].frags[x] <= m
      BY <1>3, <2>1 DEF Rising
    <3>2. b[i].frags[x] \in Nat
      BY <2>1, BlockType, ElementOfSeq
    <3> QED BY <3>1, <3>2
  <2>2. Len(<<f>>) = 1 /\ <<f>>[1] = f
    OBVIOUS
  <2> QED BY <2>1, <2>2 DEF Follow
<1>4. CASE s.sawReasoning
  <2>1. r = Responses!EmitText(s, <<f>>)
    BY <1>4 DEF Responses!ConsumeContent
  <2>2. REmits(s, r) /\ Rising(r.view.blocks, "message", f)
    BY <1>1, <1>2, <1>3, <2>1, REmitTextGood DEF RReady
  <2>3. RGood(r) /\ r.sawReasoning = s.sawReasoning
    BY <2>2 DEF REmits, RKeeps
  <2>4. RWrites(s, r)
    BY <2>2, REmitsWrites
  <2>5. RUndecided(r, f)
    BY <1>4, <2>3 DEF RUndecided
  <2> QED BY <2>2, <2>3, <2>4, <2>5 DEF RReady
<1>5. CASE ~s.sawReasoning
  <2>1. PICK p \in Messages!ThinkPush(s.think, f) :
           r = Responses!EmitText(
                 Responses!EmitReasoning([s EXCEPT !.think = p.think], p.reason), p.text)
    <3>1. Responses!ThinkPush(s.think, f) = Messages!ThinkPush(s.think, f)
      BY RThinkIs
    <3>2. r \in {Responses!EmitText(
                   Responses!EmitReasoning([s EXCEPT !.think = p.think], p.reason), p.text) :
                     p \in Responses!ThinkPush(s.think, f)}
      BY <1>5 DEF Responses!ConsumeContent, Responses!ContentPushed
    <3> QED BY <3>1, <3>2
  <2> DEFINE x == [s EXCEPT !.think = p.think]
             w == s.sawReasoning
             k == p.think
             y == Responses!EmitReasoning(x, p.reason)
  <2>2. /\ p.think \in Messages!Think /\ p.reason \in Seq(Nat) /\ p.text \in Seq(Nat)
        /\ p.text # <<>> =>
              p.text = <<f>> \/ (s.think.state = "detecting" /\ p.text = Append(s.think.held, f))
        /\ p.think.state = "detecting" =>
              s.think.state = "detecting" /\ p.text = <<>> /\ p.think.held = Append(s.think.held, f)
    BY <1>1, <1>2, MThinkPushIs DEF MPushed
  <2>3. r = Responses!EmitText(y, p.text)
    BY <2>1
  <2>4. x = RThinks(s, w, k)
    BY <1>2, RStateIs DEF RThinks, RGood, RState
  <2>5. /\ RGood(x) /\ RWrites(s, x)
        /\ x.view = s.view /\ x.sawReasoning = s.sawReasoning /\ x.think = p.think
    <3>1. RGood(s) /\ w \in BOOLEAN /\ k \in Messages!Think
      BY <1>2, <2>2
    <3>2. w = s.sawReasoning /\ k = p.think
      OBVIOUS
    <3> HIDE DEF x, w, k
    <3>3. RGood(x) /\ RWrites(s, x) /\ x.view = s.view /\ x.sawReasoning = w /\ x.think = k
      BY <2>4, <3>1, RSetThink
    <3> QED BY <3>2, <3>3
  <2> HIDE DEF x
  <2>6. REmits(x, y) /\ Spares(x.view.blocks, y.view.blocks, "message")
    BY <2>2, <2>5, REmitReasoningGood
  <2> HIDE DEF y
  <2>7. /\ RGood(y) /\ y.sawReasoning = s.sawReasoning /\ y.think = p.think
        /\ y.view.blocks \in Blocks(Responses!ItemKind)
    BY <2>5, <2>6, RGoodTypes DEF REmits, RKeeps
  <2>8. Rising(y.view.blocks, "message", m)
    BY <1>2, <2>5, <2>6, <2>7, RisingSpared DEF RReady
  <2>9. s.think.state = "detecting" =>
           \A i \in 1..Len(y.view.blocks) : y.view.blocks[i].kind # "message"
    BY <1>5, <2>5, <2>6 DEF RReady, RUndecided, Spares
  <2>10. s.think.state = "detecting" =>
            LET h == Append(s.think.held, f) IN
            /\ \A a, b \in 1..Len(h) : a < b => h[a] < h[b]
            /\ \A a \in 1..Len(h) : h[a] <= f
    <3> DEFINE h == Append(s.think.held, f)
    <3> SUFFICES ASSUME s.think.state = "detecting"
                 PROVE  /\ \A a, b \in 1..Len(h) : a < b => h[a] < h[b]
                        /\ \A a \in 1..Len(h) : h[a] <= f
      OBVIOUS
    <3>1. /\ \A a, b \in 1..Len(s.think.held) : a < b => s.think.held[a] < s.think.held[b]
          /\ \A a \in 1..Len(s.think.held) : s.think.held[a] <= m
      BY <1>5 DEF RReady, RUndecided
    <3> HIDE DEF h
    <3> QED BY <1>1, <1>2, <3>1, RisenOne DEF h
  <2>11. Follow(y.view.blocks, "message", f, p.text)
    <3>1. CASE p.text = <<>>
      <4>1. Len(p.text) = 0
        BY <3>1
      <4> QED BY <4>1 DEF Follow
    <3>2. CASE p.text = <<f>>
      BY <1>3, <2>7, <2>8, <3>2
    <3>3. CASE s.think.state = "detecting" /\ p.text = Append(s.think.held, f)
      BY <2>9, <2>10, <3>3 DEF Follow
    <3> QED BY <2>2, <3>1, <3>2, <3>3
  <2>12. REmits(y, r) /\ Rising(r.view.blocks, "message", f)
    BY <1>1, <2>2, <2>3, <2>7, <2>8, <2>11, REmitTextGood
  <2>13. RGood(r) /\ r.sawReasoning = s.sawReasoning /\ r.think = p.think
    BY <2>7, <2>12 DEF REmits, RKeeps
  <2>14. RWrites(s, r)
    <3>1. RWrites(x, y) /\ RWrites(y, r)
      BY <2>6, <2>12, REmitsWrites
    <3>2. RWrites(s, y)
      BY <1>2, <2>5, <2>7, <3>1, RWritesTransitive
    <3> QED BY <1>2, <2>7, <2>13, <3>1, <3>2, RWritesTransitive
  <2>15. RUndecided(r, f)
    <3> SUFFICES ASSUME p.think.state = "detecting"
                 PROVE  /\ \A i \in 1..Len(r.view.blocks) : r.view.blocks[i].kind # "message"
                        /\ \A a, b \in 1..Len(p.think.held) : a < b => p.think.held[a] < p.think.held[b]
                        /\ \A a \in 1..Len(p.think.held) : p.think.held[a] <= f
      BY <2>13 DEF RUndecided
    <3>1. r = y
      BY <2>2, <2>3 DEF Responses!EmitText
    <3> QED BY <2>2, <2>9, <2>10, <3>1
  <2> QED BY <2>12, <2>13, <2>14, <2>15 DEF RReady
<1> QED BY <1>2, <1>4, <1>5

\* What is ready for a chunk is ready for a later one.
LEMMA RReadyLater ==
    ASSUME NEW s, NEW m \in Nat, RReady(s, m)
    PROVE  RReady(s, m + 1)
<1>1. s.view.blocks \in Blocks(Responses!ItemKind) /\ s.think.held \in Seq(Nat)
  BY RGoodTypes DEF RReady
<1>2. Rising(s.view.blocks, "message", m + 1)
  <2>1. Spares(s.view.blocks, s.view.blocks, "message") /\ m <= m + 1 /\ m + 1 \in Nat
    BY DEF Spares
  <2> QED BY <1>1, <2>1, RisingSpared DEF RReady
<1>3. \A x \in 1..Len(s.think.held) : s.think.held[x] \in Nat
  BY <1>1, ElementOfSeq
<1>4. RUndecided(s, m + 1)
  BY <1>3 DEF RReady, RUndecided
<1> QED BY <1>2, <1>4 DEF RReady

\* finish, what the think splitter still holds: it comes after all text before.
LEMMA RFlushGood ==
    ASSUME NEW s, NEW m \in Nat, RReady(s, m), NEW r, r = Responses!FlushThink(s)
    PROVE  RGood(r) /\ Rising(r.view.blocks, "message", m) /\ RWrites(s, r)
<1>1. /\ s.view.blocks \in Blocks(Responses!ItemKind) /\ RGood(s)
      /\ s.think \in Messages!Think /\ s.think.held \in Seq(Nat) /\ s.sawReasoning \in BOOLEAN
  BY RGoodTypes, RThinkIs DEF RReady
<1>2. CASE s.sawReasoning
  <2>1. r = s
    BY <1>2 DEF Responses!FlushThink
  <2>2. RWrites(s, s)
    BY <1>1, REmitsNothing, REmitsWrites
  <2> QED BY <2>1, <2>2 DEF RReady
<1>3. CASE ~s.sawReasoning
  <2> DEFINE q == Messages!ThinkFlush(s.think)
             w == s.sawReasoning
             k == [s.think EXCEPT !.held = <<>>]
             x == [s EXCEPT !.think.held = <<>>]
  <2>1. r = IF q.reason # <<>> THEN Responses!EmitReasoning(x, q.reason)
                               ELSE Responses!EmitText(x, q.text)
    <3>1. Responses!ThinkFlush(s.think) = Messages!ThinkFlush(s.think)
      BY RThinkIs
    <3> HIDE DEF x
    <3> QED BY <1>3, <3>1 DEF Responses!FlushThink, x
  <2>2. q.reason \in Seq(Nat) /\ q.text = IF s.think.state = "detecting" THEN s.think.held ELSE <<>>
    BY <1>1, MThinkFlushIs
  <2>3. q.text \in Seq(Nat)
    BY <1>1, <2>2
  <2> HIDE DEF q
  <2>4. k \in Messages!Think
    <3>1. <<>> \in Seq(Nat)
      OBVIOUS
    <3> QED BY <1>1, <3>1 DEF Messages!Think
  <2>5. x = RThinks(s, w, k)
    <3>1. x = [s EXCEPT !.think = k]
      OBVIOUS
    <3> HIDE DEF x, k
    <3> QED BY <1>1, <3>1, RStateIs DEF RThinks, RGood, RState
  <2>6. RGood(s) /\ w \in BOOLEAN
    BY <1>1
  <2> HIDE DEF k, x, w
  <2>7. RGood(x) /\ RWrites(s, x) /\ x.view = s.view
    BY <2>4, <2>5, <2>6, RSetThink
  <2>8. REmits(x, r) /\ Rising(r.view.blocks, "message", m)
    <3>1. CASE q.reason # <<>>
      <4>1. r = Responses!EmitReasoning(x, q.reason)
        BY <2>1, <3>1
      <4>2. REmits(x, r) /\ Spares(x.view.blocks, r.view.blocks, "message")
        BY <2>2, <2>7, <4>1, REmitReasoningGood
      <4>3. r.view.blocks \in Blocks(Responses!ItemKind) /\ m <= m
        BY <4>2, RGoodTypes DEF REmits
      <4> QED BY <1>1, <2>7, <4>2, <4>3, RisingSpared DEF RReady
    <3>2. CASE q.reason = <<>>
      <4>1. r = Responses!EmitText(x, q.text)
        BY <2>1, <3>2
      <4>2. Follow(x.view.blocks, "message", m, q.text)
        <5>1. CASE s.think.state = "detecting"
          <6>1. /\ \A a, b \in 1..Len(q.text) : a < b => q.text[a] < q.text[b]
                /\ \A a \in 1..Len(q.text) : q.text[a] <= m
            BY <1>3, <2>2, <5>1 DEF RReady, RUndecided
          <6>2. \A i \in 1..Len(x.view.blocks) : x.view.blocks[i].kind # "message"
            BY <1>3, <2>7, <5>1 DEF RReady, RUndecided
          <6> QED BY <6>1, <6>2 DEF Follow
        <5>2. CASE s.think.state # "detecting"
          <6>1. Len(q.text) = 0
            BY <2>2, <5>2
          <6> QED BY <6>1 DEF Follow
        <5> QED BY <5>1, <5>2
      <4>3. Rising(x.view.blocks, "message", m) /\ m <= m
        BY <2>7 DEF RReady
      <4> QED BY <2>3, <2>7, <4>1, <4>2, <4>3, REmitTextGood
    <3> QED BY <3>1, <3>2
  <2>9. RGood(r) /\ RWrites(x, r)
    BY <2>8, REmitsWrites DEF REmits
  <2>10. RWrites(s, r)
    BY <1>1, <2>7, <2>9, RWritesTransitive
  <2> QED BY <2>8, <2>9, <2>10
<1> QED BY <1>1, <1>2, <1>3

----------------------------------------------------------------------------
(* The end of a Responses stream *)

\* The state with no tools left.
RDone(s, w, outputs, tools) == [s EXCEPT !.view = w, !.outputs = outputs, !.tools = tools]

\* closeTools: with nothing current, afterwards every item is finished.
LEMMA RCloseToolsGood ==
    ASSUME NEW s, RGood(s), s.cur = RNone, NEW r, r = Responses!CloseTools(s)
    PROVE  /\ RGood(r) /\ RKeeps(s, r) /\ \A t \in Tool : ~r.tools[t].seen
           /\ \A i \in 1..Len(r.view.blocks) : ~r.view.blocks[i].open
           /\ SameWords(s.view.blocks, r.view.blocks)
           /\ Later(s.view.blocks, r.view.blocks)
<1> DEFINE v == s.view
           b == v.blocks
           open == {t \in Tool : s.tools[t].seen}
           items == {[index |-> s.tools[t].item, frags |-> s.tools[t].args] : t \in open}
           I == {i.index : i \in items}
           w == Responses!Client!CloseBlocks(v, I)
           out == {o \in s.outputs : \A i \in items : o.index # i.index} \cup items
           none == [t \in Tool |-> Responses!NewTool]
<1>1. r = [s EXCEPT !.view = w, !.outputs = out, !.tools = none]
  BY DEF Responses!CloseTools
<1>2. b \in Blocks(Responses!ItemKind) /\ Len(b) \in Nat /\ s \in Responses!StreamState
  BY RGoodTypes DEF RGood
<1>3. I = {i \in 1..Len(b) : b[i].open}
  <2>1. ASSUME NEW i \in I
        PROVE  i \in 1..Len(b) /\ b[i].open
    <3>1. PICK t \in open : i = s.tools[t].item
      OBVIOUS
    <3>2. RToolIs(s, t)
      BY DEF RGood, RTools
    <3> QED BY <3>1, <3>2 DEF RToolIs
  <2>2. ASSUME NEW i \in 1..Len(b), b[i].open
        PROVE  i \in I
    <3>1. PICK t \in Tool : s.tools[t].seen /\ s.tools[t].item = i
      BY <2>2 DEF RGood, ROpen
    <3>2. t \in open
      BY <3>1
    <3>3. [index |-> s.tools[t].item, frags |-> s.tools[t].args] \in items
      BY <3>2
    <3> QED BY <3>1, <3>3
  <2> HIDE DEF I
  <2> QED BY <2>1, <2>2
<1>4. items = RItems(b, I)
  <2>1. ASSUME NEW t \in open
        PROVE  /\ s.tools[t].item \in I
               /\ [index |-> s.tools[t].item, frags |-> s.tools[t].args] = RItem(b, s.tools[t].item)
    <3>1. RToolIs(s, t)
      BY DEF RGood, RTools
    <3> QED BY <1>3, <3>1 DEF RToolIs, RItem
  <2>2. ASSUME NEW i \in I
        PROVE  \E t \in open : i = s.tools[t].item
    OBVIOUS
  <2> DEFINE A(t) == [index |-> s.tools[t].item, frags |-> s.tools[t].args]
  <2>3. items = {A(t) : t \in open}
    OBVIOUS
  <2>4. \A t \in open : s.tools[t].item \in I /\ A(t) = RItem(b, s.tools[t].item)
    BY Zenon, <2>1
  <2> HIDE DEF I, open, items, A, b
  <2>5. ASSUME NEW o \in items PROVE o \in RItems(b, I)
    BY <2>3, <2>4 DEF RItems
  <2>6. ASSUME NEW o \in RItems(b, I) PROVE o \in items
    BY <2>2, <2>3, <2>4 DEF RItems
  <2> QED BY <2>5, <2>6
<1>5. out = {o \in s.outputs : o.index \notin I} \cup items
  OBVIOUS
<1> HIDE DEF I, items, w
<1>6. I \in SUBSET {i \in 1..Len(b) : b[i].open}
  BY <1>3
<1>7. RLive(w) /\ w.blocks = Closed(b, I)
  <2>1. RLive(v) /\ I \in SUBSET {i \in 1..Len(v.blocks) : v.blocks[i].open}
    BY <1>6 DEF RGood
  <2> HIDE DEF v
  <2>2. /\ RLive(Responses!Client!CloseBlocks(v, I))
        /\ Responses!Client!CloseBlocks(v, I).blocks = Closed(v.blocks, I)
    BY <2>1, RCloseView
  <2> QED BY <2>2 DEF w
<1>8. /\ Len(w.blocks) = Len(b)
      /\ \A j \in 1..Len(b) :
            /\ w.blocks[j].kind = b[j].kind /\ w.blocks[j].frags = b[j].frags
            /\ w.blocks[j].open = (b[j].open /\ j \notin I)
      /\ Later(b, w.blocks)
  <2> HIDE DEF b
  <2> QED BY <1>2, <1>6, <1>7, ClosedBlocks
<1>9. out = RItems(w.blocks, RShut(w.blocks))
  <2>1. s.outputs = RItems(b, RShut(b))
    BY DEF RGood, ROutputs
  <2> HIDE DEF b, out
  <2>2. RItems(w.blocks, RShut(w.blocks))
          = {o \in RItems(b, RShut(b)) : o.index \notin I} \cup RItems(b, I)
    BY <1>2, <1>6, <1>7, RItemsClosed
  <2> QED BY <1>4, <1>5, <2>1, <2>2
<1>10. out \in SUBSET Responses!Item
  <2>1. RShut(w.blocks) \in SUBSET (1..Len(w.blocks))
    BY DEF RShut
  <2>2. w.blocks \in Blocks(Responses!ItemKind)
    BY <1>7, RViewBlocks DEF RLive
  <2> HIDE DEF out
  <2> QED BY <1>9, <2>1, <2>2, RItemsType
<1>11. none \in [Tool -> Responses!ToolState] /\ \A t \in Tool : ~none[t].seen
  <2>1. <<>> \in Seq(Nat)
    OBVIOUS
  <2>2. Responses!NewTool \in Responses!ToolState /\ ~Responses!NewTool.seen
    BY <2>1 DEF Responses!NewTool, Responses!ToolState
  <2> QED BY <2>2
<1> HIDE DEF out, none
<1>12. r = RDone(s, w, out, none)
  BY <1>1 DEF RDone
<1>13. w \in Responses!Client!View
  BY <1>7 DEF RLive
<1>14. r \in Responses!StreamState
  BY <1>2, <1>10, <1>11, <1>12, <1>13, RStateIs DEF RDone, RState
<1>15. r.view = w /\ r.outputs = out /\ r.tools = none
  BY <1>2, <1>12, RStateIs DEF RDone, RState
<1>16. r.cur = s.cur /\ r.next = s.next
  BY <1>2, <1>12, RStateIs DEF RDone, RState
<1>17. r.textBuf = s.textBuf /\ r.reasonBuf = s.reasonBuf
  BY <1>2, <1>12, RStateIs DEF RDone, RState
<1>18. RKeeps(s, r)
  BY <1>2, <1>12, RStateIs DEF RDone, RState, RKeeps
<1>19. \A i \in 1..Len(w.blocks) : ~w.blocks[i].open
  BY <1>3, <1>8
<1>20. RCurrent(r)
  <2>1. RCurrent(s)
    BY DEF RGood
  <2> QED BY <1>8, <1>15, <1>16, <1>17, <2>1 DEF RCurrent
<1>21. RTools(r)
  BY <1>11, <1>15 DEF RTools
<1>22. ROpen(r)
  BY <1>15, <1>19 DEF ROpen
<1>23. ROutputs(r)
  BY <1>9, <1>15 DEF ROutputs
<1>24. RGood(r)
  BY <1>7, <1>14, <1>15, <1>20, <1>21, <1>22, <1>23 DEF RGood
<1>25. SameWords(b, w.blocks)
  BY <1>8 DEF SameWords
<1> QED BY <1>8, <1>11, <1>15, <1>18, <1>19, <1>24, <1>25

\* As many items as blocks.
LEMMA RItemsCount ==
    ASSUME NEW b, NEW m \in Nat
    PROVE  Cardinality(RItems(b, 1..m)) = m
<1> DEFINE S == RItems(b, 1..m)
           f == [i \in 1..m |-> RItem(b, i)]
<1>1. f \in [1..m -> S]
  BY DEF RItems
<1>2. \A i, j \in 1..m : f[i] = f[j] => i = j
  BY DEF RItem
<1>3. \A o \in S : \E i \in 1..m : f[i] = o
  BY DEF RItems
<1> HIDE DEF f, S
<1>4. f \in Bijection(1..m, S)
  BY <1>1, <1>2, <1>3, Fun_IsBij
<1>5. ExistsBijection(1..m, S)
  BY <1>4 DEF ExistsBijection
<1> QED BY <1>5, FS_CountingElements DEF S

\* An operator of a library module has a name of its own in each instance.
LEMMA RCardinalityIs == \A S : Responses!Cardinality(S) = Cardinality(S)
  BY DEF Responses!Cardinality, Cardinality

\* The terminal event lists the items in the order of their indices.
LEMMA ROrderedIs ==
    ASSUME NEW s, NEW b, NEW m \in Nat, s.outputs = RItems(b, 1..m)
    PROVE  Responses!OrderedOutputs(s) = [i \in 1..m |-> RItem(b, i)]
<1> DEFINE S == s.outputs
           Under(o) == {p \in S : p.index < o.index}
<1>1. Responses!Cardinality(S) = m
  BY RItemsCount, RCardinalityIs
<1>2. ASSUME NEW j \in 1..m
      PROVE  Responses!Cardinality(Under(RItem(b, j))) = j - 1
  <2>1. j - 1 \in Nat /\ Cardinality(RItems(b, 1..(j - 1))) = j - 1
    <3>1. j - 1 \in Nat
      OBVIOUS
    <3> DEFINE l == j - 1
    <3> HIDE DEF l
    <3>2. Cardinality(RItems(b, 1..l)) = l
      BY <3>1, RItemsCount DEF l
    <3> QED BY <3>1, <3>2 DEF l
  <2>2. Under(RItem(b, j)) = RItems(b, 1..(j - 1))
    BY DEF RItems, RItem
  <2> DEFINE U == Under(RItem(b, j))
  <2> HIDE DEF U
  <2>3. Cardinality(U) = j - 1
    BY <2>1, <2>2 DEF U
  <2>4. Responses!Cardinality(U) = j - 1
    BY <2>3, RCardinalityIs
  <2> QED BY <2>4 DEF U
<1>3. ASSUME NEW k \in 1..m
      PROVE  (CHOOSE o \in S : Responses!Cardinality(Under(o)) = k - 1) = RItem(b, k)
  <2>1. RItem(b, k) \in S
    BY DEF RItems
  <2>2. Responses!Cardinality(Under(RItem(b, k))) = k - 1
    BY <1>2
  <2>3. ASSUME NEW o \in S, Responses!Cardinality(Under(o)) = k - 1
        PROVE  o = RItem(b, k)
    <3>1. PICK j \in 1..m : o = RItem(b, j)
      BY DEF RItems
    <3>2. j - 1 = k - 1
      BY <1>2, <2>3, <3>1
    <3>3. j = k
      BY <3>2
    <3> QED BY <3>1, <3>3
  <2> HIDE DEF S, Under
  <2> QED BY <2>1, <2>2, <2>3
<1>4. Responses!OrderedOutputs(s) =
         [k \in 1..Responses!Cardinality(S) |->
             CHOOSE o \in S : Responses!Cardinality(Under(o)) = k - 1]
  BY DEF Responses!OrderedOutputs
<1> HIDE DEF S, Under
<1> QED BY <1>1, <1>3, <1>4

\* The state after the last event.
REnded(s, m, r) ==
    /\ r \in Responses!StreamState
    /\ r.view.legal
    /\ r.view.phase = IF s.err THEN "failed"
                      ELSE IF s.incomplete THEN "incomplete" ELSE "completed"
    /\ \A i \in 1..Len(r.view.blocks) : ~r.view.blocks[i].open
    /\ Rising(r.view.blocks, "message", m)
    /\ \A t \in Tool : ~r.tools[t].seen
    /\ r.final = [i \in 1..Len(r.view.blocks) |-> RItem(r.view.blocks, i)]
    /\ Later(s.view.blocks, r.view.blocks)

\* The state after the terminal event.
REndWith(c, final, w) == [c EXCEPT !.final = final, !.view = w]

\* finish: think splitter, current item, tools and the terminal event.
LEMMA RFinishGood ==
    ASSUME NEW s, NEW m \in Nat, RReady(s, m), NEW r, r = Responses!FinishStream(s)
    PROVE  REnded(s, m, r)
<1> DEFINE q == IF s.err THEN s ELSE Responses!FlushThink(s)
           c == Responses!CloseCurrent(q)
           e == Responses!CloseTools(c)
           o == IF s.err THEN "failed" ELSE IF s.incomplete THEN "incomplete" ELSE "completed"
           w == Responses!Client!EndStream(e.view, o)
           final == Responses!OrderedOutputs(e)
<1>1. RGood(s) /\ s.view.phase = "open"
  BY DEF RReady, RGood, RLive
<1>2. Responses!EnsureStarted(s) = s
  BY <1>1 DEF Responses!EnsureStarted
<1>3. r = [e EXCEPT !.final = final,
                    !.view = Responses!Client!EndStream(e.view,
                                IF s.err THEN "failed"
                                ELSE IF e.incomplete THEN "incomplete" ELSE "completed")]
  BY <1>2 DEF Responses!FinishStream
<1>4. RGood(q) /\ Rising(q.view.blocks, "message", m) /\ RWrites(s, q)
  <2>1. CASE s.err
    <3>1. RWrites(s, s)
      BY <1>1, REmitsNothing, REmitsWrites
    <3> QED BY <1>1, <2>1, <3>1 DEF RReady
  <2>2. CASE ~s.err
    <3> DEFINE x == Responses!FlushThink(s)
    <3>1. q = x
      BY <2>2
    <3> HIDE DEF q
    <3>2. RGood(x) /\ Rising(x.view.blocks, "message", m) /\ RWrites(s, x)
      BY RFlushGood
    <3> QED BY <3>1, <3>2
  <2> QED BY <2>1, <2>2
<1> HIDE DEF q
<1>5. /\ RGood(c) /\ c.cur = RNone /\ RKeeps(q, c)
      /\ SameWords(q.view.blocks, c.view.blocks) /\ Later(q.view.blocks, c.view.blocks)
  BY <1>4, RCloseCurrentGood
<1> HIDE DEF c
<1>6. /\ RGood(e) /\ RKeeps(c, e) /\ \A t \in Tool : ~e.tools[t].seen
      /\ \A i \in 1..Len(e.view.blocks) : ~e.view.blocks[i].open
      /\ SameWords(c.view.blocks, e.view.blocks) /\ Later(c.view.blocks, e.view.blocks)
  BY <1>5, RCloseToolsGood
<1> HIDE DEF e
<1>7. Later(s.view.blocks, e.view.blocks)
  <2>1. Later(s.view.blocks, q.view.blocks)
    BY <1>4 DEF RWrites
  <2>2. Later(s.view.blocks, c.view.blocks)
    BY <1>1, <1>4, <1>5, <2>1, RGoodTypes, LaterTransitive
  <2> QED BY <1>1, <1>5, <1>6, <2>2, RGoodTypes, LaterTransitive
<1>8. Rising(e.view.blocks, "message", m)
  <2>1. /\ Spares(q.view.blocks, c.view.blocks, "message")
        /\ Spares(c.view.blocks, e.view.blocks, "message")
    BY <1>5, <1>6, SameSpares
  <2>2. Spares(q.view.blocks, e.view.blocks, "message")
    BY <2>1, SpareTransitive
  <2>3. /\ q.view.blocks \in Blocks(Responses!ItemKind)
        /\ e.view.blocks \in Blocks(Responses!ItemKind) /\ m <= m
    BY <1>4, <1>6, RGoodTypes
  <2> QED BY <1>4, <2>2, <2>3, RisingSpared
<1>9. e.incomplete = s.incomplete
  BY <1>4, <1>5, <1>6 DEF RWrites, RKeeps
<1>10. r = REndWith(e, final, w)
  BY <1>3, <1>9 DEF REndWith
<1>11. w \in Responses!Client!View /\ w.legal /\ w.phase = o /\ w.blocks = e.view.blocks
  <2> DEFINE v == e.view
  <2>1. RLive(v) /\ \A i \in 1..Len(v.blocks) : ~v.blocks[i].open
    BY <1>6 DEF RGood
  <2>2. o \in Responses!Client!Outcome
    BY DEF Responses!Client!Outcome
  <2>3. w = Responses!Client!EndStream(v, o)
    OBVIOUS
  <2> HIDE DEF w, o, v
  <2>4. w \in Responses!Client!View /\ w.legal /\ w.phase = o /\ w.blocks = v.blocks
    BY <2>1, <2>2, <2>3, REndView
  <2> QED BY <2>4 DEF v
<1>12. final = [i \in 1..Len(w.blocks) |-> RItem(w.blocks, i)]
  <2> DEFINE b == e.view.blocks
             k == Len(b)
  <2>1. k \in Nat
    BY <1>6, RGoodTypes
  <2>2. RShut(b) = 1..k
    BY <1>6 DEF RShut
  <2>3. e.outputs = RItems(b, RShut(b))
    BY <1>6 DEF RGood, ROutputs
  <2> HIDE DEF b, k
  <2>4. Responses!OrderedOutputs(e) = [i \in 1..k |-> RItem(b, i)]
    BY <2>1, <2>2, <2>3, ROrderedIs
  <2>5. w.blocks = b /\ Len(w.blocks) = k
    BY <1>11 DEF b, k
  <2> QED BY <2>4, <2>5
<1>13. final \in Seq(Responses!Item)
  <2> DEFINE b == w.blocks
  <2>1. b \in Blocks(Responses!ItemKind) /\ Len(b) \in Nat
    BY <1>11, RViewBlocks
  <2> HIDE DEF b
  <2>2. ASSUME NEW i \in 1..Len(b)
        PROVE  RItem(b, i) \in Responses!Item
    <3>1. i \in Nat
      BY <2>1
    <3>2. b[i].frags \in Seq(Nat)
      BY <2>1, BlockType
    <3> QED BY <3>1, <3>2 DEF RItem, Responses!Item
  <2>3. final = [i \in 1..Len(b) |-> RItem(b, i)]
    BY <1>12 DEF b
  <2> HIDE DEF final
  <2> QED BY <2>1, <2>2, <2>3
<1> HIDE DEF w, final, o
<1>14. e \in Responses!StreamState
  BY <1>6 DEF RGood
<1>15. r \in Responses!StreamState
  BY <1>10, <1>11, <1>13, <1>14, RStateIs DEF REndWith, RState
<1>16. r.view = w /\ r.final = final /\ r.tools = e.tools
  BY <1>10, <1>14, RStateIs DEF REndWith, RState
<1>17. r.view.legal /\ r.view.phase = o /\ r.view.blocks = e.view.blocks
  BY <1>11, <1>16
<1>18. /\ \A i \in 1..Len(r.view.blocks) : ~r.view.blocks[i].open
       /\ \A t \in Tool : ~r.tools[t].seen
  BY <1>6, <1>16, <1>17
<1> QED BY <1>7, <1>8, <1>12, <1>15, <1>16, <1>17, <1>18 DEF REnded, o

----------------------------------------------------------------------------
(* The inductive invariant of a Responses stream *)

\* Nothing has happened.
RStarts ==
    /\ st = Responses!NewStreamState
    /\ n = 0 /\ fed = [t \in Tool |-> <<>>]
    /\ up.error = FALSE /\ up.length = FALSE

\* The upstream is being read.
RScans ==
    /\ RReady(st, n) /\ RCounts(st, fed)
    /\ st.err = up.error /\ st.incomplete = up.length

\* The terminal event is sent.
RStops ==
    /\ st.view.phase = IF up.error THEN "failed" ELSE IF up.length THEN "incomplete" ELSE "completed"
    /\ st.view.legal
    /\ \A i \in 1..Len(st.view.blocks) : ~st.view.blocks[i].open
    /\ Rising(st.view.blocks, "message", n)
    /\ \A t \in Tool : ~st.tools[t].seen
    /\ st.final = [i \in 1..Len(st.view.blocks) |-> RItem(st.view.blocks, i)]

RInv == /\ Responses!TypeOK
        /\ pc = "start" => RStarts
        /\ pc \in {"scan", "tools"} => RScans
        /\ pc = "closed" => RStops

\* What one step does to the client's view.
ROnward(v, w) ==
    /\ w \in Responses!Client!View /\ w.legal
    /\ Later(v.blocks, w.blocks)
    /\ v.phase # "idle" => w.phase # "idle"
    /\ v.phase \in Responses!Client!Outcome => w = v
    /\ w.phase \in Responses!Client!Outcome =>
          \A i \in 1..Len(w.blocks) : ~w.blocks[i].open

\* Between the first and the last event only the items matter.
LEMMA RLiveOnward ==
    ASSUME NEW v, RLive(v), NEW w, RLive(w), Later(v.blocks, w.blocks)
    PROVE  ROnward(v, w)
BY DEF RLive, ROnward, Responses!Client!Outcome

RUpTypes == [ended : {"no", "done", "cut"}, error : BOOLEAN, length : BOOLEAN,
             answer : Seq(Answer)]

RChunkTypes == [tools : Seq(Responses!ToolDelta), finish : Responses!FinishReason]

\* The type invariant by the names of this module.
LEMMA RTypes ==
    Responses!TypeOK <=>
        /\ pc \in {"start", "scan", "tools", "closed"} /\ st \in Responses!StreamState
        /\ chunk \in RChunkTypes /\ n \in Nat /\ fed \in [Tool -> Seq(Nat)] /\ up \in RUpTypes
BY Zenon DEF Responses!TypeOK, RChunkTypes, RUpTypes

\* No chunk is being read.
LEMMA RNoChunk == Responses!NoChunk \in RChunkTypes
<1>1. <<>> \in Seq(Responses!ToolDelta)
  OBVIOUS
<1>2. RNone \in Responses!FinishReason
  BY Zenon DEF RNone, Responses!FinishReason
<1>3. Responses!NoChunk = [tools |-> <<>>, finish |-> RNone]
  BY Zenon DEF Responses!NoChunk, RNone
<1> QED BY <1>1, <1>2, <1>3 DEF RChunkTypes

\* The state before any event but the announcement of the stream.
RFresh(v) == [cur |-> RNone, curItem |-> 0, next |-> 1,
              textBuf |-> <<>>, reasonBuf |-> <<>>,
              tools |-> [t \in Tool |-> Responses!NewTool], outputs |-> {},
              incomplete |-> FALSE, sawReasoning |-> FALSE, think |-> Responses!NewThink,
              err |-> FALSE, final |-> <<>>, view |-> v]

\* The state at the start by the names of this module.
LEMMA RFreshIs == Responses!NewStreamState = RFresh(Responses!Client!Idle)
BY Zenon DEF Responses!NewStreamState, RFresh, RNone

\* It has the type of a state, and no tool.
LEMMA RFreshType ==
    ASSUME NEW v \in Responses!Client!View, NEW r, r = RFresh(v)
    PROVE  /\ r \in Responses!StreamState /\ r.view = v
           /\ \A t \in Tool : ~r.tools[t].seen
<1>1. Responses!NewTool \in Responses!ToolState /\ ~Responses!NewTool.seen
  <2>1. <<>> \in Seq(Nat)
    OBVIOUS
  <2> QED BY <2>1 DEF Responses!NewTool, Responses!ToolState
<1>2. Responses!NewThink \in Responses!Think
  <2>1. <<>> \in Seq(Nat)
    OBVIOUS
  <2> QED BY <2>1 DEF Responses!NewThink, Responses!Think
<1> DEFINE tools == [t \in Tool |-> Responses!NewTool]
<1>3. tools \in [Tool -> Responses!ToolState] /\ \A t \in Tool : ~tools[t].seen
  BY <1>1
<1>4. <<>> \in Seq(Nat) /\ <<>> \in Seq(Responses!Item)
  OBVIOUS
<1>5. RNone \in RCurs
  BY RCursAre
<1>6. {} \in SUBSET Responses!Item
  OBVIOUS
<1>7. r.tools = tools /\ r.view = v
  BY DEF RFresh
<1>8. r \in RState
  <2>1. r = [cur |-> RNone, curItem |-> 0, next |-> 1,
             textBuf |-> <<>>, reasonBuf |-> <<>>, tools |-> tools, outputs |-> {},
             incomplete |-> FALSE, sawReasoning |-> FALSE, think |-> Responses!NewThink,
             err |-> FALSE, final |-> <<>>, view |-> v]
    BY DEF RFresh
  <2> HIDE DEF tools
  <2> QED BY <1>2, <1>3, <1>4, <1>5, <1>6, <2>1 DEF RState
<1> HIDE DEF tools
<1> QED BY <1>3, <1>7, <1>8, RStateIs

\* Before the first event nothing is buffered, open or sent.
LEMMA RInitInv ==
    ASSUME Responses!Init
    PROVE  RInv /\ st.view = Client!Idle
<1>1. Responses!Client!Idle \in Responses!Client!View
  <2>1. <<>> \in Seq(Responses!Client!Block)
    OBVIOUS
  <2> QED BY <2>1 DEF Responses!Client!Idle, Responses!Client!View, Responses!Client!Phase
<1>2. /\ pc = "start" /\ st = Responses!NewStreamState /\ chunk = Responses!NoChunk
      /\ n = 0 /\ fed = [t \in Tool |-> <<>>]
      /\ up = [ended |-> "no", error |-> FALSE, length |-> FALSE, answer |-> <<>>]
  BY DEF Responses!Init
<1>3. st = RFresh(Responses!Client!Idle)
  BY <1>2, RFreshIs
<1>4. st \in Responses!StreamState /\ st.view = Responses!Client!Idle
  <2> DEFINE v == Responses!Client!Idle
  <2>1. v \in Responses!Client!View /\ st = RFresh(v)
    BY <1>1, <1>3
  <2> HIDE DEF v
  <2>2. st \in Responses!StreamState /\ st.view = v
    BY <2>1, RFreshType
  <2> QED BY <2>2 DEF v
<1>5. chunk \in RChunkTypes
  BY <1>2, RNoChunk
<1>6. fed \in [Tool -> Seq(Nat)]
  <2>1. <<>> \in Seq(Nat)
    OBVIOUS
  <2> QED BY <1>2, <2>1
<1>7. up \in RUpTypes /\ up.error = FALSE /\ up.length = FALSE
  <2>1. <<>> \in Seq(Answer)
    OBVIOUS
  <2> QED BY <1>2, <2>1 DEF RUpTypes
<1>8. Responses!TypeOK
  BY <1>2, <1>4, <1>5, <1>6, <1>7, RTypes
<1>9. RStarts
  BY <1>2, <1>7 DEF RStarts
<1>10. st.view = Client!Idle
  BY <1>4 DEF Responses!Client!Idle, Client!Idle
<1> QED BY <1>2, <1>8, <1>9, <1>10 DEF RInv

\* response.created and response.in_progress.
LEMMA RBeginGood ==
    ASSUME RInv, Responses!Begin
    PROVE  RInv' /\ ROnward(st.view, st'.view)
<1> DEFINE i == Responses!Client!Idle
           v == [phase |-> "open", blocks |-> <<>>, legal |-> TRUE]
           r == st'
<1>1. /\ RStarts /\ Responses!TypeOK /\ pc' = "scan" /\ st' = Responses!EnsureStarted(st)
      /\ UNCHANGED <<chunk, n, fed, up>>
  BY DEF RInv, Responses!Begin
<1>2. st = RFresh(i) /\ st.view = i
  BY <1>1, RFreshIs DEF RStarts, RFresh
<1>3. i.phase = "idle" /\ i.blocks = <<>> /\ Responses!Client!StartStream(i) = v
  <2>1. i.phase = "idle" /\ i.blocks = <<>> /\ i.legal = TRUE
    BY DEF Responses!Client!Idle
  <2>2. Responses!Client!StartStream(i) = [i EXCEPT !.phase = "open", !.legal = TRUE]
    BY <2>1 DEF Responses!Client!StartStream
  <2> QED BY <2>1, <2>2 DEF Responses!Client!Idle
<1>4. r = RFresh(v)
  <2>1. r = [st EXCEPT !.view = v]
    BY <1>1, <1>2, <1>3 DEF Responses!EnsureStarted
  <2> HIDE DEF i, v
  <2> QED BY <1>2, <2>1 DEF RFresh
<1>5. RLive(v) /\ v \in Responses!Client!View /\ Len(v.blocks) = 0 /\ v.blocks = <<>>
  <2>1. <<>> \in Seq(Responses!Client!Block)
    OBVIOUS
  <2> QED BY <2>1 DEF RLive, Responses!Client!View, Responses!Client!Phase
<1> HIDE DEF v, r
<1>6. /\ r \in Responses!StreamState /\ r.view = v /\ \A t \in Tool : ~r.tools[t].seen
  BY <1>4, <1>5, RFreshType
<1>7. r.cur = RNone /\ r.next = 1 /\ r.textBuf = <<>> /\ r.reasonBuf = <<>>
  BY <1>4 DEF RFresh
<1>8. r.outputs = {} /\ r.incomplete = FALSE /\ r.err = FALSE
  BY <1>4 DEF RFresh
<1>9. r.sawReasoning = FALSE /\ r.think = Responses!NewThink
  BY <1>4 DEF RFresh
<1>10. RGood(r)
  <2>1. RCurrent(r)
    BY <1>5, <1>6, <1>7 DEF RCurrent
  <2>2. RTools(r) /\ ROpen(r)
    BY <1>5, <1>6 DEF RTools, ROpen
  <2>3. ROutputs(r)
    <3>1. RShut(v.blocks) = {}
      BY <1>5 DEF RShut
    <3> QED BY <1>6, <1>8, <3>1 DEF ROutputs, RItems
  <2> QED BY <1>5, <1>6, <2>1, <2>2, <2>3 DEF RGood
<1>11. Rising(r.view.blocks, "message", 0)
  BY <1>5, <1>6 DEF Rising
<1>12. RUndecided(r, 0)
  <2>1. Len(r.think.held) = 0
    BY <1>9 DEF Responses!NewThink
  <2> QED BY <1>5, <1>6, <2>1 DEF RUndecided
<1>13. RCounts(r, fed)
  BY <1>1, <1>6 DEF RCounts, RStarts
<1>14. (Responses!TypeOK)'
  BY <1>1, <1>6, RTypes DEF r, Responses!TypeOK
<1>15. RReady(st, n)' /\ RCounts(st, fed)'
  <2>1. n' = 0 /\ fed' = fed
    BY <1>1 DEF RStarts
  <2>2. RReady(r, 0)
    BY <1>10, <1>11, <1>12 DEF RReady
  <2> QED BY <1>13, <2>1, <2>2 DEF r
<1>16. RScans'
  BY <1>1, <1>8, <1>15 DEF RStarts, RScans, r
<1>17. RInv'
  BY <1>1, <1>14, <1>16 DEF RInv
<1>18. ROnward(st.view, v)
  <2>1. Later(<<>>, <<>>)
    BY DEF Later
  <2> QED BY <1>2, <1>3, <1>5, <2>1 DEF ROnward, RLive, Responses!Client!Outcome
<1> QED BY <1>6, <1>17, <1>18 DEF r

\* What the steps between the first and the last event have to show.
LEMMA RScansInv ==
    ASSUME RInv, pc \in {"scan", "tools"}, pc' \in {"scan", "tools"},
           (Responses!TypeOK)', RScans', Later(st.view.blocks, st'.view.blocks)
    PROVE  RInv' /\ ROnward(st.view, st'.view)
<1>1. RInv'
  BY DEF RInv
<1>2. RLive(st.view) /\ RLive(st'.view)
  BY DEF RInv, RScans, RReady, RGood
<1> QED BY <1>1, <1>2, RLiveOnward

\* A stream is started once.
LEMMA RStartedIs ==
    ASSUME NEW s, RGood(s)
    PROVE  Responses!EnsureStarted(s) = s
BY DEF RGood, RLive, Responses!EnsureStarted

\* A chunk: its reasoning, then its content.
LEMMA RTakeGood ==
    ASSUME RInv, NEW c \in Responses!ChunkShape, Responses!Take(c),
           up'.error = up.error, up'.length = up.length, up' \in RUpTypes
    PROVE  RInv' /\ ROnward(st.view, st'.view)
<1> DEFINE b == Responses!EnsureStarted(st)
           r == IF c.reason THEN Responses!ConsumeReasoning(b, n + 1) ELSE b
           named == [i \in DOMAIN c.tools |-> [c.tools[i] EXCEPT !.name = TRUE]]
<1>1. /\ pc = "scan" /\ n' = n + 1
      /\ IF c.content THEN st' \in Responses!ConsumeContent(r, n + 1) ELSE st' = r
      /\ chunk' = [tools |-> named, finish |-> c.finish]
      /\ pc' \in {"scan", "tools"} /\ fed' = fed
  BY Zenon DEF Responses!Take
<1>2. RReady(st, n) /\ RScans /\ Responses!TypeOK /\ n \in Nat /\ fed \in [Tool -> Seq(Nat)]
  BY <1>1 DEF RInv, RScans, Responses!TypeOK
<1>3. b = st
  BY <1>2, RStartedIs DEF RReady
<1>4. RReady(r, n) /\ RWrites(st, r)
  <2>1. CASE c.reason
    <3> DEFINE f == n + 1
    <3>1. f \in Nat /\ r = Responses!ConsumeReasoning(st, f)
      BY <1>2, <1>3, <2>1
    <3> HIDE DEF f, r
    <3> QED BY <1>2, <3>1, RReasoningReady
  <2>2. CASE ~c.reason
    <3>1. r = st
      BY <1>3, <2>2
    <3> HIDE DEF r
    <3>2. RWrites(st, st)
      BY <1>2, REmitsNothing, REmitsWrites DEF RReady
    <3> QED BY <1>2, <3>1, <3>2
  <2> QED BY <2>1, <2>2
<1> HIDE DEF b, r
<1>5. RReady(st', n + 1) /\ RWrites(r, st')
  <2>1. CASE c.content
    <3>1. st' \in Responses!ConsumeContent(r, n + 1)
      BY <1>1, <2>1
    <3> QED BY <1>2, <1>4, <3>1, RContentReady
  <2>2. CASE ~c.content
    <3>1. st' = r
      BY <1>1, <2>2
    <3>2. RWrites(r, r)
      BY <1>4, REmitsNothing, REmitsWrites DEF RReady
    <3>3. RReady(r, n + 1)
      BY <1>2, <1>4, RReadyLater
    <3> QED BY <3>1, <3>2, <3>3
  <2> QED BY <2>1, <2>2
<1>6. RWrites(st, st')
  BY <1>2, <1>4, <1>5, RWritesTransitive DEF RReady
<1>7. RCounts(st', fed)
  BY <1>2, <1>6 DEF RScans, RCounts, RWrites
<1>8. st' \in Responses!StreamState
  BY <1>5 DEF RReady, RGood
<1>9. chunk' \in RChunkTypes
  <2>1. c.tools \in Seq(Responses!ToolDelta) /\ c.finish \in Responses!FinishReason
    BY DEF Responses!ChunkShape
  <2>2. DOMAIN c.tools = 1..Len(c.tools) /\ Len(c.tools) \in Nat
    BY <2>1
  <2>3. ASSUME NEW i \in DOMAIN c.tools
        PROVE  [c.tools[i] EXCEPT !.name = TRUE] \in Responses!ToolDelta
    <3>1. c.tools[i] \in Responses!ToolDelta
      BY <2>1, <2>2, ElementOfSeq
    <3> QED BY <3>1 DEF Responses!ToolDelta
  <2>4. named \in Seq(Responses!ToolDelta)
    BY <2>2, <2>3
  <2> HIDE DEF named
  <2> QED BY <1>1, <2>1, <2>4 DEF RChunkTypes
<1> HIDE DEF named
<1>10. (Responses!TypeOK)'
  <2>1. n' \in Nat /\ fed' \in [Tool -> Seq(Nat)] /\ pc' \in {"start", "scan", "tools", "closed"}
    BY <1>1, <1>2
  <2> QED BY <1>8, <1>9, <2>1 DEF Responses!TypeOK, RChunkTypes, RUpTypes
<1>11. RReady(st, n)' /\ RCounts(st, fed)'
  BY <1>1, <1>5, <1>7
<1>12. RScans'
  BY <1>2, <1>6, <1>11 DEF RScans, RWrites
<1>13. Later(st.view.blocks, st'.view.blocks)
  BY <1>6 DEF RWrites
<1> QED BY <1>1, <1>10, <1>12, <1>13, RScansInv

\* What the upstream sends has the shape of a chunk, in each instance.
LEMMA RChunks == Chunk \subseteq Responses!ChunkShape /\ Answer \subseteq Responses!AnswerShape
<1>1. ChunkShape = Responses!ChunkShape /\ AnswerShape = Responses!AnswerShape
  BY DEF ChunkShape, Responses!ChunkShape, AnswerShape, Responses!AnswerShape,
         ToolDelta, Responses!ToolDelta, FinishReason, Responses!FinishReason
<1> QED BY <1>1, ConstantsAssumption DEF ConstantsAssumption

\* A chunk of a streamed answer.
LEMMA RReadChunkGood ==
    ASSUME RInv, NEW c \in Chunk, Responses!ReadChunk(c)
    PROVE  RInv' /\ ROnward(st.view, st'.view)
<1>1. c \in Responses!ChunkShape /\ Responses!Take(c) /\ up' = up
  BY RChunks DEF Responses!ReadChunk
<1>2. up \in RUpTypes
  BY RTypes DEF RInv
<1> QED BY <1>1, <1>2, RTakeGood

\* An answer in one piece.
LEMMA RReadAnswerGood ==
    ASSUME RInv, NEW a \in Answer, Responses!ReadAnswer(a)
    PROVE  RInv' /\ ROnward(st.view, st'.view)
<1> DEFINE c == Responses!ChatJSONToSSE(a)
<1>1. /\ Responses!Take(c)
      /\ up' = [up EXCEPT !.answer = <<a>>]
  BY DEF Responses!ReadAnswer
<1>2. c \in Responses!ChunkShape
  <2>1. a \in Responses!AnswerShape
    BY RChunks
  <2>2. (IF a.finish = "" THEN "stop" ELSE a.finish) \in Responses!FinishReason
    BY Zenon, <2>1 DEF Responses!AnswerShape, Responses!FinishReason
  <2> QED BY Zenon, <2>1, <2>2 DEF Responses!ChatJSONToSSE, Responses!ChunkShape, Responses!AnswerShape
<1>3. up \in RUpTypes
  BY RTypes DEF RInv
<1>4. <<a>> \in Seq(Answer)
  OBVIOUS
<1>5. up' \in RUpTypes
  BY <1>1, <1>3, <1>4 DEF RUpTypes
<1>6. up'.error = up.error /\ up'.length = up.length
  BY <1>1, <1>3 DEF RUpTypes
<1> HIDE DEF c
<1> QED BY <1>1, <1>2, <1>5, <1>6, RTakeGood

\* The next tool call of a chunk.
LEMMA RReadToolCallGood ==
    ASSUME RInv, Responses!ReadToolCall
    PROVE  RInv' /\ ROnward(st.view, st'.view)
<1> DEFINE d == Head(chunk.tools)
<1>1. /\ pc = "tools" /\ pc' = pc /\ n' = n /\ up' = up
      /\ st' = Responses!ConsumeTool(st, d, n)
      /\ fed' = IF d.args THEN [fed EXCEPT ![d.index] = Append(@, n)] ELSE fed
  BY DEF Responses!ReadToolCall
<1>2. chunk' = [chunk EXCEPT !.tools = Tail(@)] /\ chunk.tools # <<>>
  BY DEF Responses!ReadToolCall
<1>3. RScans /\ RReady(st, n) /\ RCounts(st, fed)
  BY <1>1 DEF RInv, RScans
<1>4. n \in Nat /\ fed \in [Tool -> Seq(Nat)] /\ chunk \in RChunkTypes /\ up \in RUpTypes
  BY RTypes DEF RInv
<1>5. d \in Responses!ToolDelta /\ Tail(chunk.tools) \in Seq(Responses!ToolDelta)
  <2>1. chunk.tools \in Seq(Responses!ToolDelta)
    BY <1>4 DEF RChunkTypes
  <2> QED BY <1>2, <2>1, HeadTailProperties
<1> HIDE DEF d
<1>6. /\ RReady(st', n) /\ RCounts(st', fed') /\ fed' \in [Tool -> Seq(Nat)]
      /\ RKeeps(st, st') /\ Later(st.view.blocks, st'.view.blocks)
  <2> DEFINE r == st'
             had == fed'
  <2>1. r = Responses!ConsumeTool(st, d, n) /\ had = RToolCame(d, n, fed)
    BY <1>1 DEF RToolCame
  <2> HIDE DEF r, had
  <2>2. /\ RReady(r, n) /\ RCounts(r, had) /\ had \in [Tool -> Seq(Nat)]
        /\ RKeeps(st, r) /\ Later(st.view.blocks, r.view.blocks)
    BY <1>3, <1>4, <1>5, <2>1, RToolReady
  <2> QED BY <2>2 DEF r, had
<1>7. chunk' \in RChunkTypes
  BY <1>2, <1>4, <1>5 DEF RChunkTypes
<1>8. st' \in Responses!StreamState
  BY <1>6 DEF RReady, RGood
<1>9. (Responses!TypeOK)'
  <2>1. n' \in Nat /\ up' \in RUpTypes /\ pc' \in {"start", "scan", "tools", "closed"}
    BY <1>1, <1>4
  <2> QED BY <1>6, <1>7, <1>8, <2>1 DEF Responses!TypeOK, RChunkTypes, RUpTypes
<1>10. RReady(st, n)' /\ RCounts(st, fed)'
  BY <1>1, <1>6
<1>11. RScans'
  BY <1>1, <1>3, <1>6, <1>10 DEF RScans, RKeeps
<1> QED BY <1>1, <1>6, <1>9, <1>11, RScansInv

\* How the stream will end is all that is new.
LEMMA RAroundReady ==
    ASSUME NEW s, NEW m \in Nat, RReady(s, m), NEW came, RCounts(s, came),
           NEW incomplete \in BOOLEAN, NEW err \in BOOLEAN,
           NEW r, r = RAround(s, s.sawReasoning, s.think, incomplete, err)
    PROVE  /\ RReady(r, m) /\ RCounts(r, came) /\ r.incomplete = incomplete /\ r.err = err
           /\ Later(s.view.blocks, r.view.blocks)
<1> DEFINE saw == s.sawReasoning
           k == s.think
<1>1. RGood(s) /\ saw \in BOOLEAN /\ k \in Messages!Think
  BY RGoodTypes, RThinkIs DEF RReady
<1>2. saw = s.sawReasoning /\ k = s.think /\ r = RAround(s, saw, k, incomplete, err)
  OBVIOUS
<1> HIDE DEF saw, k
<1>3. /\ RGood(r) /\ r.view = s.view /\ r.tools = s.tools
      /\ r.sawReasoning = saw /\ r.think = k /\ r.incomplete = incomplete /\ r.err = err
  BY <1>1, <1>2, RAroundGood, SMTT(20)
<1>4. Rising(r.view.blocks, "message", m)
  BY <1>3 DEF RReady
<1>5. RUndecided(r, m)
  BY <1>2, <1>3 DEF RReady, RUndecided
<1>6. RCounts(r, came)
  BY Zenon, <1>3 DEF RCounts
<1>7. Later(s.view.blocks, r.view.blocks)
  BY <1>1, <1>3, RGoodTypes, LaterReflexive
<1> QED BY <1>3, <1>4, <1>5, <1>6, <1>7 DEF RReady

\* The finish reason of a chunk.
LEMMA RReadFinishReasonGood ==
    ASSUME RInv, Responses!ReadFinishReason
    PROVE  RInv' /\ ROnward(st.view, st'.view)
<1> DEFINE i == st.incomplete \/ chunk.finish = "length"
           e == st.err
           saw == st.sawReasoning
           k == st.think
<1>1. /\ pc = "tools" /\ pc' = "scan" /\ chunk' = Responses!NoChunk /\ n' = n /\ fed' = fed
      /\ RScans /\ RReady(st, n) /\ RCounts(st, fed)
  BY DEF Responses!ReadFinishReason, RInv, RScans
<1>2. /\ st' = [st EXCEPT !.incomplete = i]
      /\ up' = [up EXCEPT !.length = up.length \/ chunk.finish = "length"]
  BY DEF Responses!ReadFinishReason
<1>3. n \in Nat /\ fed \in [Tool -> Seq(Nat)] /\ up \in RUpTypes /\ st \in RState
  BY RTypes, RStateIs DEF RInv
<1>4. i \in BOOLEAN /\ e \in BOOLEAN
  BY <1>3 DEF RState
<1>5. st.incomplete = up.length /\ st.err = up.error
  BY <1>1 DEF RScans
<1>6. /\ up' \in RUpTypes /\ up'.error = up.error /\ up'.length = i
  BY <1>2, <1>3, <1>5 DEF RUpTypes
<1> HIDE DEF i
<1>7. st' = RAround(st, saw, k, i, e)
  BY <1>2, <1>3 DEF RState, RAround
<1> DEFINE r == st'
<1>8. r = RAround(st, st.sawReasoning, st.think, i, e) /\ e = st.err
  BY <1>7
<1> HIDE DEF e, saw, k, r
<1>9. /\ RReady(r, n) /\ RCounts(r, fed) /\ r.incomplete = i /\ r.err = e
      /\ Later(st.view.blocks, r.view.blocks)
  BY <1>1, <1>3, <1>4, <1>8, RAroundReady
<1>10. st' \in Responses!StreamState
  BY <1>9 DEF RReady, RGood, r
<1>11. (Responses!TypeOK)'
  <2>1. /\ n' \in Nat /\ fed' \in [Tool -> Seq(Nat)]
        /\ pc' \in {"start", "scan", "tools", "closed"} /\ chunk' \in RChunkTypes
    BY <1>1, <1>3, RNoChunk
  <2> QED BY <1>6, <1>10, <2>1 DEF Responses!TypeOK, RChunkTypes, RUpTypes
<1>12. RReady(st, n)' /\ RCounts(st, fed)'
  BY <1>1, <1>9 DEF r
<1>13. RScans'
  BY <1>5, <1>6, <1>8, <1>9, <1>12 DEF RScans, r
<1>14. Later(st.view.blocks, st'.view.blocks)
  BY <1>9 DEF r
<1> QED BY <1>1, <1>11, <1>13, <1>14, RScansInv

\* An error inside the stream.
LEMMA RReadErrorGood ==
    ASSUME RInv, Responses!ReadError
    PROVE  RInv' /\ ROnward(st.view, st'.view)
<1> DEFINE i == st.incomplete
           e == TRUE
           saw == st.sawReasoning
           k == st.think
<1>1. /\ pc = "scan" /\ pc' = pc /\ chunk' = chunk /\ n' = n /\ fed' = fed
      /\ RScans /\ RReady(st, n) /\ RCounts(st, fed)
  BY DEF Responses!ReadError, RInv, RScans
<1>2. st' = [st EXCEPT !.err = e] /\ up' = [up EXCEPT !.error = TRUE]
  BY DEF Responses!ReadError
<1>3. /\ n \in Nat /\ fed \in [Tool -> Seq(Nat)] /\ up \in RUpTypes /\ st \in RState
      /\ chunk \in RChunkTypes
  BY RTypes, RStateIs DEF RInv
<1>4. i \in BOOLEAN /\ e \in BOOLEAN /\ e = TRUE
  BY <1>3 DEF RState
<1>5. st.incomplete = up.length
  BY <1>1 DEF RScans
<1>6. up' \in RUpTypes /\ up'.error = TRUE /\ up'.length = up.length
  BY <1>2, <1>3 DEF RUpTypes
<1> HIDE DEF e
<1>7. st' = RAround(st, saw, k, i, e)
  BY <1>2, <1>3 DEF RState, RAround
<1> DEFINE r == st'
<1>8. r = RAround(st, st.sawReasoning, st.think, i, e) /\ i = st.incomplete
  BY <1>7
<1> HIDE DEF i, saw, k, r
<1>9. /\ RReady(r, n) /\ RCounts(r, fed) /\ r.incomplete = i /\ r.err = e
      /\ Later(st.view.blocks, r.view.blocks)
  <2>1. n \in Nat /\ i \in BOOLEAN /\ e \in BOOLEAN
    BY <1>3, <1>4
  <2>2. RReady(st, n) /\ RCounts(st, fed)
    BY <1>1
  <2> QED BY <1>8, <2>1, <2>2, RAroundReady
<1>10. st' \in Responses!StreamState
  BY <1>9 DEF RReady, RGood, r
<1>11. (Responses!TypeOK)'
  <2>1. /\ n' \in Nat /\ fed' \in [Tool -> Seq(Nat)]
        /\ pc' \in {"start", "scan", "tools", "closed"} /\ chunk' \in RChunkTypes
    BY <1>1, <1>3
  <2> QED BY <1>6, <1>10, <2>1 DEF Responses!TypeOK, RChunkTypes, RUpTypes
<1>12. RReady(st, n)' /\ RCounts(st, fed)'
  BY <1>1, <1>9 DEF r
<1>13. RScans'
  BY <1>4, <1>5, <1>6, <1>8, <1>9, <1>12 DEF RScans, r
<1>14. Later(st.view.blocks, st'.view.blocks)
  BY <1>9 DEF r
<1> QED BY <1>1, <1>11, <1>13, <1>14, RScansInv

\* The end of the upstream, or its cut.
LEMMA RReadEndGood ==
    ASSUME RInv, NEW how \in {"done", "cut"}, Responses!ReadEnd(how)
    PROVE  RInv' /\ ROnward(st.view, st'.view)
<1>1. /\ pc = "scan" /\ pc' = "closed" /\ chunk' = chunk /\ n' = n /\ fed' = fed
      /\ st' = Responses!FinishStream(st) /\ up' = [up EXCEPT !.ended = how]
  BY DEF Responses!ReadEnd
<1>2. RScans /\ RReady(st, n)
  BY <1>1 DEF RInv, RScans
<1>3. n \in Nat /\ fed \in [Tool -> Seq(Nat)] /\ up \in RUpTypes /\ chunk \in RChunkTypes
  BY RTypes DEF RInv
<1>4. REnded(st, n, st')
  BY <1>1, <1>2, <1>3, RFinishGood
<1>5. /\ st' \in Responses!StreamState
      /\ st'.view.legal
      /\ st'.view.phase = IF st.err THEN "failed"
                          ELSE IF st.incomplete THEN "incomplete" ELSE "completed"
      /\ \A i \in 1..Len(st'.view.blocks) : ~st'.view.blocks[i].open
  BY <1>4 DEF REnded
<1>6. /\ Rising(st'.view.blocks, "message", n)
      /\ \A t \in Tool : ~st'.tools[t].seen
      /\ st'.final = [i \in 1..Len(st'.view.blocks) |-> RItem(st'.view.blocks, i)]
      /\ Later(st.view.blocks, st'.view.blocks)
  BY <1>4 DEF REnded
<1>7. up' \in RUpTypes /\ up'.error = up.error /\ up'.length = up.length
  BY <1>1, <1>3 DEF RUpTypes
<1>8. (Responses!TypeOK)'
  <2>1. /\ n' \in Nat /\ fed' \in [Tool -> Seq(Nat)]
        /\ pc' \in {"start", "scan", "tools", "closed"} /\ chunk' \in RChunkTypes
    BY <1>1, <1>3
  <2> QED BY <1>5, <1>7, <2>1 DEF Responses!TypeOK, RChunkTypes, RUpTypes
<1>9. RStops'
  <2>1. Rising(st.view.blocks, "message", n)'
    BY <1>1, <1>6
  <2>2. (st.final = [i \in 1..Len(st.view.blocks) |-> RItem(st.view.blocks, i)])'
    BY <1>6 DEF RItem
  <2> QED BY <1>2, <1>5, <1>6, <1>7, <2>1, <2>2 DEF RScans, RStops
<1>10. RInv'
  BY <1>1, <1>8, <1>9 DEF RInv
<1>11. ROnward(st.view, st'.view)
  <2>1. st'.view \in Responses!Client!View
    BY <1>5, RStateIs DEF RState
  <2>2. st.view.phase = "open"
    BY <1>2 DEF RReady, RGood, RLive
  <2> QED BY <1>5, <1>6, <2>1, <2>2 DEF ROnward, Responses!Client!Outcome
<1> QED BY <1>10, <1>11

\* A step of a Responses stream.
LEMMA RStepGood ==
    ASSUME RInv, Responses!Next
    PROVE  RInv' /\ ROnward(st.view, st'.view)
<1>1. CASE Responses!Begin
  BY <1>1, RBeginGood
<1>2. CASE \E c \in Chunk : Responses!ReadChunk(c)
  BY <1>2, RReadChunkGood
<1>3. CASE \E a \in Answer : Responses!ReadAnswer(a)
  BY <1>3, RReadAnswerGood
<1>4. CASE Responses!ReadToolCall
  BY <1>4, RReadToolCallGood
<1>5. CASE Responses!ReadFinishReason
  BY <1>5, RReadFinishReasonGood
<1>6. CASE Responses!ReadError
  BY <1>6, RReadErrorGood
<1>7. CASE \E how \in {"done", "cut"} : Responses!ReadEnd(how)
  BY <1>7, RReadEndGood
<1> QED BY <1>1, <1>2, <1>3, <1>4, <1>5, <1>6, <1>7 DEF Responses!Next

----------------------------------------------------------------------------
(* Both protocols *)

\* The inductive invariant: what is buffered, what is open and what has come agree with
\* what the client has been sent.
SInv == \/ protocol = "messages" /\ MInv
        \/ protocol = "responses" /\ RInv

\* The blocks of either protocol are blocks of a client.
LEMMA OutcomesAre ==
    /\ Messages!Client!Outcome = Client!Outcome /\ Responses!Client!Outcome = Client!Outcome
    /\ Messages!Client!Phase = Client!Phase /\ Responses!Client!Phase = Client!Phase
BY DEF Messages!Client!Outcome, Client!Outcome, Responses!Client!Outcome,
       Messages!Client!Phase, Client!Phase, Responses!Client!Phase

\* What a client of one protocol sees is a view of both.
LEMMA ViewsAre ==
    /\ Messages!Client!View \subseteq Client!View
    /\ Responses!Client!View \subseteq Client!View
<1>1. Messages!Client!Block \subseteq Client!Block
  BY DEF Messages!Client!Block, Client!Block
<1>2. Responses!Client!Block \subseteq Client!Block
  BY DEF Responses!Client!Block, Client!Block
<1>3. ASSUME NEW S, NEW T, S \subseteq T
      PROVE  Seq(S) \subseteq Seq(T)
  <2> SUFFICES ASSUME NEW q \in Seq(S)
               PROVE  q \in Seq(T)
    OBVIOUS
  <2>1. Len(q) \in Nat /\ DOMAIN q = 1..Len(q) /\ \A i \in 1..Len(q) : q[i] \in S
    BY LenProperties, ElementOfSeq
  <2>2. q \in [1..Len(q) -> T]
    BY <1>3, <2>1
  <2> QED BY <2>1, <2>2, SeqDef
<1>4. Seq(Messages!Client!Block) \subseteq Seq(Client!Block)
  BY <1>1, <1>3
<1>5. Seq(Responses!Client!Block) \subseteq Seq(Client!Block)
  BY <1>2, <1>3
<1>6. Messages!Client!View \subseteq Client!View
  BY <1>4, OutcomesAre DEF Messages!Client!View, Client!View
<1>7. Responses!Client!View \subseteq Client!View
  BY <1>5, OutcomesAre DEF Responses!Client!View, Client!View
<1> QED BY <1>6, <1>7

\* What a step does is what a run of legal events may do to a client's view.
Onward(v, w) ==
    /\ w \in Client!View /\ w.legal
    /\ Later(v.blocks, w.blocks)
    /\ v.phase # "idle" => w.phase # "idle"
    /\ v.phase \in Client!Outcome => w = v
    /\ w.phase \in Client!Outcome => \A i \in 1..Len(w.blocks) : ~w.blocks[i].open

\* A step onward is one the abstract specification allows.
LEMMA OnwardExtends ==
    ASSUME NEW v, NEW w, Onward(v, w)
    PROVE  w \in Client!View /\ Client!Extends(v, w)
<1>1. w.phase \in Client!Outcome => Client!OpenBlocks(w) = {}
  <2>1. w.blocks \in Seq(Client!Block)
    BY DEF Onward, Client!View
  <2>2. DOMAIN w.blocks = 1..Len(w.blocks)
    BY <2>1, LenProperties
  <2> QED BY <2>2 DEF Onward, Client!OpenBlocks
<1> QED BY <1>1 DEF Onward, Later, Client!Extends

\* The invariant holds at the start, with nothing sent.
LEMMA InitGood ==
    ASSUME Init
    PROVE  SInv /\ st.view = Client!Idle
BY MInitInv, RInitInv DEF Init, SInv

\* A step keeps the invariant and is a step of the abstract specification.
LEMMA StepGood ==
    ASSUME SInv, Next
    PROVE  SInv' /\ Client!Next
<1>1. CASE MessagesStep
  <2>1. protocol = "messages" /\ protocol' = protocol /\ Messages!Next /\ MInv
    BY <1>1 DEF MessagesStep, SInv
  <2>2. MInv' /\ MOnward(st.view, st'.view)
    BY <2>1, MStepGood
  <2>3. Onward(st.view, st'.view)
    BY <2>2, OutcomesAre, ViewsAre DEF MOnward, Onward
  <2>4. st'.view \in Client!View /\ Client!Extends(st.view, st'.view)
    BY <2>3, OnwardExtends
  <2>5. Client!Next
    BY <2>4 DEF Client!Next
  <2> QED BY <2>1, <2>2, <2>5 DEF SInv
<1>2. CASE ResponsesStep
  <2>1. protocol = "responses" /\ protocol' = protocol /\ Responses!Next /\ RInv
    BY <1>2 DEF ResponsesStep, SInv
  <2>2. RInv' /\ ROnward(st.view, st'.view)
    BY <2>1, RStepGood
  <2>3. Onward(st.view, st'.view)
    BY <2>2, OutcomesAre, ViewsAre DEF ROnward, Onward
  <2>4. st'.view \in Client!View /\ Client!Extends(st.view, st'.view)
    BY <2>3, OnwardExtends
  <2>5. Client!Next
    BY <2>4 DEF Client!Next
  <2> QED BY <2>1, <2>2, <2>5 DEF SInv
<1> QED BY <1>1, <1>2 DEF Next

\* A stuttering step keeps the invariant and sends nothing.
LEMMA StutterGood ==
    ASSUME SInv, UNCHANGED vars
    PROVE  SInv' /\ UNCHANGED st.view
<1>1. /\ protocol' = protocol /\ pc' = pc /\ st' = st /\ chunk' = chunk
      /\ n' = n /\ fed' = fed /\ up' = up
  BY DEF vars
<1>2. CASE protocol = "messages"
  <2>1. MInv
    BY <1>2 DEF SInv
  <2>2. (Messages!TypeOK)'
    BY <1>1, <2>1 DEF MInv, Messages!TypeOK
  <2>3. ASSUME MScans PROVE MScans'
    <3>1. MReady(st, n)' /\ MCounts(st, fed)'
      BY Zenon, <1>1, <2>3 DEF MScans
    <3> QED BY Zenon, <1>1, <2>3, <3>1 DEF MScans
  <2>4. ASSUME MStarts PROVE MStarts'
    BY Zenon, <1>1, <2>4 DEF MStarts
  <2>5. ASSUME MStops PROVE MStops'
    <3>1. Rising(st.view.blocks, "text", n)' /\ MCounts(st, fed)'
      BY <1>1, <2>5 DEF MStops
    <3>2. (Messages!StopReasonTold)'
      BY Zenon, <1>1, <2>5 DEF MStops, Messages!StopReasonTold
    <3> QED BY <1>1, <2>5, <3>1, <3>2 DEF MStops
  <2>6. MInv'
    BY <1>1, <2>1, <2>2, <2>3, <2>4, <2>5 DEF MInv
  <2> QED BY <1>1, <1>2, <2>6 DEF SInv
<1>3. CASE protocol = "responses"
  <2>1. RInv
    BY <1>3 DEF SInv
  <2>2. (Responses!TypeOK)'
    BY <1>1, <2>1 DEF RInv, Responses!TypeOK
  <2>3. ASSUME RScans PROVE RScans'
    <3>1. RReady(st, n)' /\ RCounts(st, fed)'
      BY <1>1, <2>3 DEF RScans
    <3> QED BY <1>1, <2>3, <3>1 DEF RScans
  <2>4. ASSUME RStarts PROVE RStarts'
    BY <1>1, <2>4 DEF RStarts
  <2>5. ASSUME RStops PROVE RStops'
    <3>1. Rising(st.view.blocks, "message", n)'
      BY <1>1, <2>5 DEF RStops
    <3>2. (st.final = [i \in 1..Len(st.view.blocks) |-> RItem(st.view.blocks, i)])'
      BY <1>1, <2>5 DEF RStops, RItem
    <3> QED BY <1>1, <2>5, <3>1, <3>2 DEF RStops
  <2>6. RInv'
    BY <1>1, <2>1, <2>2, <2>3, <2>4, <2>5 DEF RInv
  <2> QED BY <1>1, <1>3, <2>6 DEF SInv
<1> QED BY <1>2, <1>3 DEF SInv

----------------------------------------------------------------------------
(* What the invariant says about the properties *)

\* At every point of the stream: the account of the tools is right, the text rises.
LEMMA MCounted ==
    ASSUME MInv
    PROVE  MCounts(st, fed) /\ Rising(st.view.blocks, "text", n)
<1>1. CASE pc = "start"
  <2>1. /\ \A t \in Tool : fed[t] = <<>> /\ st.tools[t] = Messages!NewTool
        /\ st.view.blocks = <<>>
    <3>1. MStarts
      BY <1>1 DEF MInv
    <3>2. \A t \in Tool : fed[t] = <<>>
      BY Zenon, <3>1 DEF MStarts
    <3>3. st.tools = [t \in Tool |-> Messages!NewTool] /\ st.view = Messages!Client!Idle
      BY <3>1, Zenon DEF MStarts, Messages!NewStreamState
    <3>4. st.view.blocks = <<>>
      BY <3>3 DEF Messages!Client!Idle
    <3> QED BY <3>2, <3>3, <3>4
  <2>2. /\ ~Messages!NewTool.started /\ Messages!NewTool.pending = <<>>
        /\ Messages!NewTool.gate = Messages!NewGate
    BY DEF Messages!NewTool
  <2>3. /\ Messages!NewGate.mode = "undecided" /\ Messages!NewGate.held = <<>>
        /\ Messages!NewGate.done = FALSE
    BY DEF Messages!NewGate
  <2>4. <<>> \o <<>> = <<>>
    OBVIOUS
  <2>5. ASSUME NEW t \in Tool
        PROVE  Passed(MGot(st, t), st.tools[t].gate, fed[t])
    <3>1. MGot(st, t) = <<>>
      BY <2>1, <2>2, <2>4 DEF MGot
    <3>2. fed[t] = <<>> /\ st.tools[t].gate = Messages!NewGate
      BY <2>1, <2>2
    <3> QED BY <2>3, <2>4, <3>1, <3>2 DEF Passed
  <2>6. Rising(st.view.blocks, "text", n)
    BY <2>1 DEF Rising
  <2> QED BY <2>5, <2>6 DEF MCounts
<1>2. CASE pc \in {"scan", "tools"}
  BY Zenon, <1>2 DEF MInv, MScans, MReady
<1>3. CASE pc = "closed"
  BY <1>3 DEF MInv, MStops
<1> QED BY <1>1, <1>2, <1>3 DEF MInv, Messages!TypeOK

\* A Messages client gets what came, once and in order.
LEMMA MDeltasAddUp ==
    ASSUME MInv
    PROVE  Messages!ArgsAccounted /\ Messages!TextInOrder
<1>1. MCounts(st, fed) /\ Rising(st.view.blocks, "text", n)
  BY MCounted
<1>2. DOMAIN st.view.blocks = 1..Len(st.view.blocks) /\ st.view.blocks \in Blocks(Messages!MessageKind)
  <2>1. st.view \in Messages!Client!View
    BY Zenon DEF MInv, Messages!TypeOK, Messages!StreamState
  <2> QED BY <2>1, MViewBlocks
<1>3. Messages!ArgsAccounted
  <2> SUFFICES ASSUME NEW t \in Tool
               PROVE  LET tool == st.tools[t]
                          got == Messages!Delivered(t) \o tool.pending
                      IN IF tool.gate.done THEN Messages!Client!Appended(got, fed[t])
                         ELSE got \o tool.gate.held = fed[t]
    BY Zenon DEF Messages!ArgsAccounted
  <2>1. MGot(st, t) = Messages!Delivered(t) \o st.tools[t].pending
    BY DEF MGot, Messages!Delivered
  <2>2. Passed(MGot(st, t), st.tools[t].gate, fed[t])
    BY <1>1 DEF MCounts
  <2>3. \A got, came : Messages!Client!Appended(got, came) <=> Client!Appended(got, came)
    BY DEF Messages!Client!Appended, Client!Appended
  <2> QED BY <2>1, <2>2, <2>3 DEF Passed
<1>4. Messages!TextInOrder
  <2> DEFINE b == st.view.blocks
  <2> SUFFICES ASSUME NEW i \in DOMAIN b, NEW j \in DOMAIN b, b[i].kind = "text", b[j].kind = "text",
                      NEW k \in DOMAIN b[i].frags, NEW l \in DOMAIN b[j].frags,
                      i < j \/ (i = j /\ k < l)
               PROVE  b[i].frags[k] < b[j].frags[l]
    BY DEF Messages!TextInOrder
  <2>1. b[i].frags \in Seq(Nat) /\ b[j].frags \in Seq(Nat)
    BY <1>2, BlockType
  <2>2. k \in 1..Len(b[i].frags) /\ l \in 1..Len(b[j].frags)
    BY <2>1, LenProperties
  <2> QED BY <1>1, <1>2, <2>2 DEF Rising
<1> QED BY <1>3, <1>4

\* A Messages client is told of errors and of tools to run.
LEMMA MEndTells ==
    ASSUME MInv
    PROVE  Messages!ErrorsFailTheStream /\ Messages!StopReasonTold
<1>1. up.error \in BOOLEAN /\ pc \in {"start", "scan", "tools", "closed"}
  BY DEF MInv, Messages!TypeOK, Messages!UpType
<1>2. CASE pc = "start"
  <2>1. up.error = FALSE /\ st.view = Messages!Client!Idle
    <3>1. MStarts
      BY <1>2 DEF MInv
    <3>2. up.error = FALSE
      BY Zenon, <3>1 DEF MStarts
    <3>3. st.view = Messages!Client!Idle
      BY <3>1, Zenon DEF MStarts, Messages!NewStreamState
    <3> QED BY <3>2, <3>3
  <2>2. st.view.phase = "idle"
    BY <2>1 DEF Messages!Client!Idle
  <2> QED BY <2>1, <2>2 DEF Messages!ErrorsFailTheStream, Messages!StopReasonTold
<1>3. CASE pc \in {"scan", "tools"}
  <2>1. st.view.phase = "open"
    BY Zenon, <1>3 DEF MInv, MScans, MReady, MGood, MLive
  <2> QED BY <2>1 DEF Messages!ErrorsFailTheStream, Messages!StopReasonTold
<1>4. CASE pc = "closed"
  BY <1>1, <1>4 DEF MInv, MStops, Messages!ErrorsFailTheStream
<1> QED BY <1>1, <1>2, <1>3, <1>4

\* At every point of the stream: a tool in the map has what came, the text rises.
LEMMA RCounted ==
    ASSUME RInv
    PROVE  /\ Rising(st.view.blocks, "message", n)
           /\ \A t \in Tool : st.tools[t].seen => RToolIs(st, t) /\ st.tools[t].args = fed[t]
<1>1. CASE pc = "start"
  <2>1. st.view.blocks = <<>> /\ \A t \in Tool : ~st.tools[t].seen
    <3>1. st = RFresh(Responses!Client!Idle)
      BY <1>1, RFreshIs DEF RInv, RStarts
    <3>2. st.view = Responses!Client!Idle /\ \A t \in Tool : st.tools[t] = Responses!NewTool
      BY <3>1 DEF RFresh
    <3> QED BY <3>2 DEF Responses!Client!Idle, Responses!NewTool
  <2> QED BY <2>1 DEF Rising
<1>2. CASE pc \in {"scan", "tools"}
  BY <1>2 DEF RInv, RScans, RReady, RGood, RTools, RCounts
<1>3. CASE pc = "closed"
  BY <1>3 DEF RInv, RStops
<1> QED BY <1>1, <1>2, <1>3 DEF RInv, Responses!TypeOK

\* A Responses client gets what came, from the deltas or from the terminal event.
LEMMA RDeltasAddUp ==
    ASSUME RInv
    PROVE  /\ Responses!ArgsDelivered /\ Responses!TextInOrder
           /\ Responses!FinalListsWhatWasStreamed
<1>1. /\ Rising(st.view.blocks, "message", n)
      /\ \A t \in Tool : st.tools[t].seen => RToolIs(st, t) /\ st.tools[t].args = fed[t]
  BY RCounted
<1>2. /\ DOMAIN st.view.blocks = 1..Len(st.view.blocks)
      /\ st.view.blocks \in Blocks(Responses!ItemKind)
  <2>1. st.view \in Responses!Client!View
    BY RStateIs, RTypes DEF RInv, RState
  <2> QED BY <2>1, RViewBlocks
<1>3. Responses!ArgsDelivered
  BY <1>1 DEF Responses!ArgsDelivered, RToolIs
<1>4. Responses!TextInOrder
  <2> DEFINE b == st.view.blocks
  <2> SUFFICES ASSUME NEW i \in DOMAIN b, NEW j \in DOMAIN b,
                      b[i].kind = "message", b[j].kind = "message",
                      NEW k \in DOMAIN b[i].frags, NEW l \in DOMAIN b[j].frags,
                      i < j \/ (i = j /\ k < l)
               PROVE  b[i].frags[k] < b[j].frags[l]
    BY DEF Responses!TextInOrder
  <2>1. b[i].frags \in Seq(Nat) /\ b[j].frags \in Seq(Nat)
    BY <1>2, BlockType
  <2>2. k \in 1..Len(b[i].frags) /\ l \in 1..Len(b[j].frags)
    BY <2>1, LenProperties
  <2> QED BY <1>1, <1>2, <2>2 DEF Rising
<1>5. Responses!FinalListsWhatWasStreamed
  <2> SUFFICES ASSUME st.view.phase \in Responses!Client!Outcome
               PROVE  st.final = [i \in DOMAIN st.view.blocks |->
                                    [index |-> i, frags |-> st.view.blocks[i].frags]]
    BY DEF Responses!FinalListsWhatWasStreamed
  <2>1. CASE pc = "start"
    <3>1. st.view = Responses!Client!Idle
      BY <2>1, RFreshIs DEF RInv, RStarts, RFresh
    <3> QED BY <3>1 DEF Responses!Client!Idle, Responses!Client!Outcome
  <2>2. CASE pc \in {"scan", "tools"}
    BY <2>2 DEF RInv, RScans, RReady, RGood, RLive, Responses!Client!Outcome
  <2>3. CASE pc = "closed"
    BY <1>2, <2>3 DEF RInv, RStops, RItem
  <2> QED BY <2>1, <2>2, <2>3 DEF RInv, Responses!TypeOK
<1> QED BY <1>3, <1>4, <1>5

\* A Responses client is told how the upstream ended.
LEMMA REndTells ==
    ASSUME RInv
    PROVE  Responses!OutcomeTellsUpstream
<1> SUFFICES ASSUME st.view.phase \in Responses!Client!Outcome
             PROVE  st.view.phase = IF up.error THEN "failed"
                                    ELSE IF up.length THEN "incomplete" ELSE "completed"
  BY DEF Responses!OutcomeTellsUpstream
<1>1. CASE pc = "start"
  <2>1. st.view = Responses!Client!Idle
    BY <1>1, RFreshIs DEF RInv, RStarts, RFresh
  <2> QED BY <2>1 DEF Responses!Client!Idle, Responses!Client!Outcome
<1>2. CASE pc \in {"scan", "tools"}
  BY <1>2 DEF RInv, RScans, RReady, RGood, RLive, Responses!Client!Outcome
<1>3. CASE pc = "closed"
  BY <1>3 DEF RInv, RStops
<1> QED BY <1>1, <1>2, <1>3 DEF RInv, Responses!TypeOK

----------------------------------------------------------------------------
(* The theorems *)

\* Whatever chunks, answers, errors and cuts the upstream sends, in whatever order, what
\* an encoder buffers and what it has open agrees with what the client has been sent.
THEOREM InvariantHolds == Spec => []SInv
<1>1. Init => SInv
  BY InitGood
<1>2. SInv /\ [Next]_vars => SInv'
  BY StepGood, StutterGood
<1> QED BY <1>1, <1>2, PTL DEF Spec

\* The states of the encoders have the types the Go structures give them.
THEOREM TypeCorrect == Spec => []TypeOK
<1>1. SInv => TypeOK
  BY DEF SInv, MInv, RInv, TypeOK
<1> QED BY <1>1, InvariantHolds, PTL

\* The client gets every tool's arguments in order and without a hole, the text in order
\* and no piece of it twice; the terminal event of a Responses stream lists the same items.
THEOREM InOrderAndOnce == Spec => []DeltasAddUp
<1>1. SInv => DeltasAddUp
  BY MDeltasAddUp, RDeltasAddUp DEF SInv, DeltasAddUp
<1> QED BY <1>1, InvariantHolds, PTL

\* The last event tells the client how the upstream ended: an error wins over the finish
\* reasons and the [DONE] after it.  In Messages the last finish reason decides: "length",
\* and nothing else, gives max_tokens, and tools that came with a name are announced, unless
\* they come after it.  In Responses any "length", and nothing else, gives incomplete.
THEOREM EndIsTold == Spec => []EndTellsUpstream
<1>1. SInv => EndTellsUpstream
  BY MEndTells, REndTells DEF SInv, EndTellsUpstream
<1> QED BY <1>1, InvariantHolds, PTL

\* The events of both encoders are ones a client can follow: blocks opened one after the
\* other, fed while they are open, closed once, and all of them closed when the stream
\* ends, exactly once.
THEOREM EncodersImplementEventStream == Spec => ImplementsEventStream
<1>1. Init => Client!Init
  BY InitGood DEF Client!Init
<1>2. SInv /\ [Next]_vars => [Client!Next]_(st.view)
  BY StepGood, StutterGood
<1> QED BY <1>1, <1>2, InvariantHolds, PTL DEF Spec, ImplementsEventStream, Client!Spec

----------------------------------------------------------------------------
(* Folds over a history *)

\* What holds of 0 and goes on from each number to the next holds of all: the numbers up to
\* k of which it does not hold could all be moved down by one, into a smaller set.
LEMMA Induction ==
    ASSUME NEW S, 0 \in S, \A k \in Nat : k \in S => k + 1 \in S
    PROVE  Nat \subseteq S
<1> SUFFICES ASSUME NEW k \in Nat, k \notin S PROVE FALSE
  OBVIOUS
<1> DEFINE T == {i \in 0..k : i \notin S}
           U == T \ {k}
           f == [i \in T |-> i - 1]
<1>1. k \in T
  OBVIOUS
<1>2. IsFiniteSet(T)
  <2>1. IsFiniteSet(0..k) /\ T \in SUBSET (0..k)
    BY FS_Interval
  <2> HIDE DEF T
  <2> QED BY <2>1, FS_Subset
<1>3. IsFiniteSet(U) /\ Cardinality(U) = Cardinality(T) - 1 /\ Cardinality(T) \in Nat
  BY <1>1, <1>2, FS_RemoveElement, FS_CardinalityType
<1>4. ASSUME NEW i \in T PROVE i - 1 \in U
  <2>1. i \in Nat /\ i # 0 /\ i <= k
    OBVIOUS
  <2>2. i - 1 \in Nat /\ i - 1 + 1 = i /\ i - 1 \in 0..k /\ i - 1 # k
    BY <2>1
  <2> QED BY <2>2
<1>5. f \in [T -> U] /\ \A i \in T : f[i] = i - 1 /\ i \in Int
  BY <1>4
<1> HIDE DEF T, U, f
<1>6. Cardinality(U) < Cardinality(T)
  BY <1>3
<1>7. \E i, j \in T : i # j /\ f[i] = f[j]
  BY <1>2, <1>3, <1>5, <1>6, FS_PigeonHole
<1> QED BY <1>5, <1>7

\* A set of sequences that is closed under appending has all sequences.
LEMMA AppendInduction ==
    ASSUME NEW E, NEW P, <<>> \in P, \A s \in Seq(E) : \A e \in E : s \in P => Append(s, e) \in P
    PROVE  Seq(E) \subseteq P
<1> DEFINE S == {k \in Nat : \A s \in Seq(E) : Len(s) = k => s \in P}
<1>1. 0 \in S
  BY EmptySeq
<1>2. ASSUME NEW k \in Nat, k \in S PROVE k + 1 \in S
  <2> SUFFICES ASSUME NEW s \in Seq(E), Len(s) = k + 1 PROVE s \in P
    OBVIOUS
  <2>1. s # <<>>
    BY EmptySeq
  <2>2. PICK t \in Seq(E), e \in E : s = Append(t, e)
    BY <2>1, SequenceEmptyOrAppend
  <2>3. Len(t) \in Nat /\ Len(s) = Len(t) + 1
    BY <2>2, AppendProperties, LenProperties
  <2>4. t \in P
    BY <1>2, <2>3
  <2> QED BY <2>2, <2>4
<1> HIDE DEF S
<1>3. Nat \subseteq S
  BY <1>1, <1>2, Induction
<1> QED BY <1>3, LenProperties DEF S

\* h goes through a sequence, one step for each element.
Goes(h, first, step, s) ==
    /\ h[0] = first
    /\ \A i \in 1..Len(s) : h[i] = step[<<h[i - 1], s[i]>>]

\* Something does, and stays among the values.
LEMMA Going ==
    ASSUME NEW E, NEW Val, NEW first \in Val, NEW step \in [Val \X E -> Val], NEW s \in Seq(E)
    PROVE  \E h \in [0..Len(s) -> Val] : Goes(h, first, step, s)
<1> DEFINE P == {t \in Seq(E) : \E h \in [0..Len(t) -> Val] : Goes(h, first, step, t)}
<1>1. <<>> \in P
  <2> DEFINE h == [i \in 0..0 |-> first]
  <2>1. h \in [0..0 -> Val] /\ h[0] = first
    OBVIOUS
  <2> HIDE DEF h
  <2>2. Len(<<>>) = 0 /\ <<>> \in Seq(E)
    BY EmptySeq
  <2> QED BY <2>1, <2>2 DEF Goes
<1>2. ASSUME NEW t \in Seq(E), NEW e \in E, t \in P PROVE Append(t, e) \in P
  <2>1. PICK f \in [0..Len(t) -> Val] : Goes(f, first, step, t)
    BY <1>2
  <2> DEFINE u == Append(t, e)
             l == Len(t)
             last == step[<<f[l], e>>]
             h == [i \in 0..(l + 1) |-> IF i = l + 1 THEN last ELSE f[i]]
  <2>2. /\ l \in Nat /\ u \in Seq(E) /\ Len(u) = l + 1 /\ u[l + 1] = e
        /\ \A i \in 1..l : u[i] = t[i]
    BY AppendProperties, LenProperties
  <2> HIDE DEF u, l
  <2>3. f \in [0..l -> Val] /\ f[0] = first /\ \A i \in 1..l : f[i] = step[<<f[i - 1], t[i]>>]
    BY <2>1 DEF Goes, l
  <2>4. last \in Val
    BY <2>2, <2>3
  <2> HIDE DEF last
  <2>5. h \in [0..(l + 1) -> Val] /\ h[l + 1] = last /\ \A i \in 0..l : h[i] = f[i]
    BY <2>2, <2>3, <2>4
  <2> HIDE DEF h
  <2>6. ASSUME NEW i \in 1..(l + 1) PROVE h[i] = step[<<h[i - 1], u[i]>>]
    <3>1. CASE i = l + 1
      <4>1. i - 1 = l /\ i - 1 \in 0..l
        BY <2>2, <3>1
      <4> QED BY <2>2, <2>5, <3>1, <4>1 DEF last
    <3>2. CASE i # l + 1
      <4>1. i \in 1..l /\ i \in 0..l /\ i - 1 \in 0..l
        BY <2>2, <3>2
      <4> QED BY <2>2, <2>3, <2>5, <4>1
    <3> QED BY <3>1, <3>2
  <2>7. h[0] = first
    BY <2>2, <2>3, <2>5
  <2>8. Goes(h, first, step, u)
    BY <2>2, <2>6, <2>7 DEF Goes
  <2>9. u \in P
    BY <2>2, <2>5, <2>8
  <2> QED BY <2>9 DEF u
<1> HIDE DEF P
<1>3. Seq(E) \subseteq P
  BY <1>1, <1>2, AppendInduction
<1> QED BY <1>3 DEF P

\* The sequence u is s with e at its end.
LongerBy(u, s, e) ==
    Len(u) = Len(s) + 1 /\ u[Len(s) + 1] = e /\ \A i \in 1..Len(s) : u[i] = s[i]

\* What goes through a sequence and what goes through a longer one.
LEMMA GoesOn ==
    ASSUME NEW E, NEW first, NEW step, NEW s \in Seq(E), NEW u \in Seq(E), NEW e \in E,
           LongerBy(u, s, e), NEW h, NEW g, Goes(h, first, step, s), Goes(g, first, step, u)
    PROVE  g[Len(u)] = step[<<h[Len(s)], e>>]
<1> DEFINE l == Len(s)
           S == {i \in Nat : i <= l => g[i] = h[i]}
<1>1. /\ l \in Nat /\ Len(u) = l + 1 /\ u[l + 1] = e
      /\ \A i \in 1..l : u[i] = s[i]
  BY LenProperties DEF LongerBy
<1>2. /\ h[0] = first /\ \A i \in 1..l : h[i] = step[<<h[i - 1], s[i]>>]
      /\ g[0] = first /\ \A i \in 1..(l + 1) : g[i] = step[<<g[i - 1], u[i]>>]
  BY <1>1 DEF Goes
<1> HIDE DEF l
<1>3. 0 \in S
  BY <1>2
<1>4. ASSUME NEW i \in Nat, i \in S PROVE i + 1 \in S
  <2> SUFFICES ASSUME i + 1 <= l PROVE g[i + 1] = h[i + 1]
    OBVIOUS
  <2>1. i + 1 \in 1..l /\ i + 1 \in 1..(l + 1) /\ i + 1 - 1 = i /\ g[i] = h[i]
    BY <1>1, <1>4
  <2>2. g[i + 1] = step[<<g[i], u[i + 1]>>]
    BY <1>2, <2>1
  <2>3. h[i + 1] = step[<<h[i], s[i + 1]>>]
    BY <1>2, <2>1
  <2> QED BY <1>1, <2>1, <2>2, <2>3
<1> HIDE DEF S
<1>5. l \in S
  BY <1>1, <1>3, <1>4, Induction
<1>6. g[l] = h[l]
  BY <1>1, <1>5 DEF S
<1>7. l + 1 \in 1..(l + 1) /\ l + 1 - 1 = l
  BY <1>1
<1> QED BY <1>1, <1>2, <1>6, <1>7 DEF l


\* There is but one way to go.
LEMMA OneWay ==
    ASSUME NEW E, NEW Val, NEW first, NEW step, NEW s \in Seq(E),
           NEW g \in [0..Len(s) -> Val], Goes(g, first, step, s),
           NEW h, h[0] = first,
           \A i \in 1..Len(s) : h[i - 1] \in Val => h[i] = step[<<h[i - 1], s[i]>>]
    PROVE  h[Len(s)] = g[Len(s)]
<1> DEFINE l == Len(s)
           S == {i \in Nat : i <= l => g[i] = h[i]}
<1>1. l \in Nat
  BY LenProperties
<1>2. /\ g \in [0..l -> Val] /\ g[0] = first
      /\ \A i \in 1..l : g[i] = step[<<g[i - 1], s[i]>>]
  BY DEF Goes
<1>3. 0 \in S
  BY <1>2
<1>4. ASSUME NEW i \in Nat, i \in S PROVE i + 1 \in S
  <2> SUFFICES ASSUME i + 1 <= l PROVE g[i + 1] = h[i + 1]
    OBVIOUS
  <2>1. i + 1 \in 1..l /\ i + 1 - 1 = i /\ g[i] = h[i] /\ i \in 0..l
    BY <1>1, <1>4
  <2>2. g[i] \in Val
    BY <1>2, <2>1
  <2>3. g[i + 1] = step[<<g[i], s[i + 1]>>]
    BY <1>2, <2>1
  <2>4. h[i + 1] = step[<<h[i], s[i + 1]>>]
    BY <2>1, <2>2
  <2> QED BY <2>1, <2>3, <2>4
<1> HIDE DEF S
<1>5. l \in S
  BY <1>1, <1>3, <1>4, Induction
<1> QED BY <1>1, <1>5 DEF S

\* x is where a fold of s ends.
Fold(x, first, step, s) == \E g : Goes(g, first, step, s) /\ x = g[Len(s)]

\* Where the fold of a sequence with one element more ends.
LEMMA FoldOn ==
    ASSUME NEW E, NEW first, NEW step, NEW s \in Seq(E), NEW e \in E, NEW x, NEW y,
           Fold(x, first, step, s), Fold(y, first, step, Append(s, e))
    PROVE  y = step[<<x, e>>]
<1> DEFINE u == Append(s, e)
<1>1. u \in Seq(E) /\ LongerBy(u, s, e)
  BY AppendProperties DEF LongerBy
<1>2. Fold(x, first, step, s) /\ Fold(y, first, step, u)
  OBVIOUS
<1> HIDE DEF u
<1>3. PICK g, h : Goes(g, first, step, s) /\ x = g[Len(s)] /\ Goes(h, first, step, u) /\ y = h[Len(u)]
  BY <1>2 DEF Fold
<1>4. h[Len(u)] = step[<<g[Len(s)], e>>]
  BY <1>1, <1>3, GoesOn
<1> QED BY <1>3, <1>4

\* The fold of no elements.
LEMMA FoldNothing ==
    ASSUME NEW first, NEW step, NEW x, Fold(x, first, step, <<>>)
    PROVE  x = first
BY EmptySeq DEF Fold, Goes

JoinedTo(f, ss) == f = [i \in 0..Len(ss) |-> IF i = 0 THEN <<>> ELSE f[i - 1] \o ss[i]]

\* One sequence more on its way.
Join(V) == [p \in Seq(V) \X Seq(V) |-> p[1] \o p[2]]

\* Joined goes through its sequence.
LEMMA JoinedGoes ==
    ASSUME NEW V, NEW ss \in Seq(Seq(V))
    PROVE  Fold(Joined(ss), <<>>, Join(V), ss) /\ Joined(ss) \in Seq(V)
<1> DEFINE step == Join(V)
           l == Len(ss)
           h == CHOOSE f : JoinedTo(f, ss)
<1>1. step \in [Seq(V) \X Seq(V) -> Seq(V)]
  BY ConcatProperties DEF Join
<1>2. \A s, t \in Seq(V) : step[<<s, t>>] = s \o t
  BY DEF Join
<1>3. <<>> \in Seq(V) /\ l \in Nat /\ \A i \in 1..l : ss[i] \in Seq(V)
  BY EmptySeq, LenProperties, ElementOfSeq
<1> HIDE DEF step
<1>4. PICK g \in [0..l -> Seq(V)] : Goes(g, <<>>, step, ss)
  BY <1>1, <1>3, Going
<1>5. g[0] = <<>> /\ \A i \in 1..l : g[i] = step[<<g[i - 1], ss[i]>>]
  BY <1>4 DEF Goes
<1>6. ASSUME NEW i \in 0..l PROVE g[i] = IF i = 0 THEN <<>> ELSE g[i - 1] \o ss[i]
  <2>1. CASE i = 0
    BY <1>5, <2>1
  <2>2. CASE i # 0
    <3>1. i \in 1..l /\ i - 1 \in 0..l
      BY <1>3, <2>2
    <3>2. g[i - 1] \in Seq(V) /\ ss[i] \in Seq(V)
      BY <1>3, <1>4, <3>1
    <3> QED BY <1>2, <1>5, <2>2, <3>1, <3>2
  <2> QED BY <2>1, <2>2
<1>7. JoinedTo(g, ss)
  BY <1>4, <1>6 DEF JoinedTo
<1>8. JoinedTo(h, ss)
  BY <1>7
<1>9. Joined(ss) = h[l]
  BY DEF Joined, JoinedTo
<1> HIDE DEF h, l
<1>10. \A i \in 0..l : h[i] = IF i = 0 THEN <<>> ELSE h[i - 1] \o ss[i]
  BY <1>8 DEF JoinedTo, l
<1>11. ASSUME NEW i \in 1..l, h[i - 1] \in Seq(V) PROVE h[i] = step[<<h[i - 1], ss[i]>>]
  <2>1. i \in 0..l /\ i # 0
    BY <1>3
  <2>2. ss[i] \in Seq(V)
    BY <1>3
  <2> QED BY <1>2, <1>10, <1>11, <2>1, <2>2
<1>12. h[0] = <<>>
  BY <1>3, <1>10
<1>13. h[l] = g[l]
  BY <1>4, <1>11, <1>12, OneWay DEF l
<1>14. g[l] \in Seq(V)
  BY <1>3, <1>4
<1> QED BY <1>4, <1>9, <1>13, <1>14 DEF l, step, Fold

\* A sequence more, at the end.
LEMMA JoinedIs ==
    ASSUME NEW V
    PROVE  /\ Joined(<<>>) = <<>>
           /\ \A ss \in Seq(Seq(V)) : Joined(ss) \in Seq(V)
           /\ \A ss \in Seq(Seq(V)) : \A s \in Seq(V) : Joined(Append(ss, s)) = Joined(ss) \o s
<1>1. Joined(<<>>) = <<>>
  BY JoinedGoes, FoldNothing, EmptySeq
<1>2. ASSUME NEW ss \in Seq(Seq(V)), NEW s \in Seq(V)
      PROVE  Joined(Append(ss, s)) = Joined(ss) \o s
  <2> DEFINE step == Join(V)
             nothing == <<>>
             E == Seq(V)
             x == Joined(ss)
             y == Joined(Append(ss, s))
  <2>1. ss \in Seq(E) /\ s \in E
    OBVIOUS
  <2>2. Fold(x, nothing, step, ss) /\ Fold(y, nothing, step, Append(ss, s)) /\ x \in Seq(V)
    BY AppendProperties, JoinedGoes
  <2> HIDE DEF step, nothing, E, x, y
  <2>3. y = step[<<x, s>>]
    BY <2>1, <2>2, FoldOn
  <2> QED BY <2>2, <2>3 DEF Join, step, x, y
<1> QED BY <1>1, <1>2, JoinedGoes

ChosenTo(f, s, types) ==
    f = [i \in 0..Len(s) |-> IF i = 0 THEN <<>>
                             ELSE IF s[i].type \in types THEN Append(f[i - 1], s[i])
                             ELSE f[i - 1]]

\* One element more to choose from.
Choose(E, types) ==
    [p \in Seq(E) \X E |-> IF p[2].type \in types THEN Append(p[1], p[2]) ELSE p[1]]

\* OfType goes through its sequence.
LEMMA OfTypeGoes ==
    ASSUME NEW E, NEW types, NEW s \in Seq(E)
    PROVE  Fold(OfType(s, types), <<>>, Choose(E, types), s) /\ OfType(s, types) \in Seq(E)
<1> DEFINE step == Choose(E, types)
           l == Len(s)
           h == CHOOSE f : ChosenTo(f, s, types)
<1>1. step \in [Seq(E) \X E -> Seq(E)]
  BY AppendProperties DEF Choose
<1>2. \A t \in Seq(E), e \in E :
        step[<<t, e>>] = IF e.type \in types THEN Append(t, e) ELSE t
  BY DEF Choose
<1>3. <<>> \in Seq(E) /\ l \in Nat /\ \A i \in 1..l : s[i] \in E
  BY EmptySeq, LenProperties, ElementOfSeq
<1> HIDE DEF step
<1>4. PICK g \in [0..l -> Seq(E)] : Goes(g, <<>>, step, s)
  BY <1>1, <1>3, Going
<1>5. g[0] = <<>> /\ \A i \in 1..l : g[i] = step[<<g[i - 1], s[i]>>]
  BY <1>4 DEF Goes
<1>6. ASSUME NEW i \in 0..l
      PROVE  g[i] = IF i = 0 THEN <<>>
                    ELSE IF s[i].type \in types THEN Append(g[i - 1], s[i]) ELSE g[i - 1]
  <2>1. CASE i = 0
    BY <1>5, <2>1
  <2>2. CASE i # 0
    <3>1. i \in 1..l /\ i - 1 \in 0..l
      BY <1>3, <2>2
    <3>2. g[i - 1] \in Seq(E) /\ s[i] \in E
      BY <1>3, <1>4, <3>1
    <3> QED BY <1>2, <1>5, <2>2, <3>1, <3>2
  <2> QED BY <2>1, <2>2
<1>7. ChosenTo(g, s, types)
  BY <1>4, <1>6 DEF ChosenTo
<1>8. ChosenTo(h, s, types)
  BY <1>7
<1>9. OfType(s, types) = h[l]
  BY DEF OfType, ChosenTo
<1> HIDE DEF h, l
<1>10. \A i \in 0..l : h[i] = IF i = 0 THEN <<>>
                              ELSE IF s[i].type \in types THEN Append(h[i - 1], s[i])
                              ELSE h[i - 1]
  BY <1>8 DEF ChosenTo, l
<1>11. ASSUME NEW i \in 1..l, h[i - 1] \in Seq(E) PROVE h[i] = step[<<h[i - 1], s[i]>>]
  <2>1. i \in 0..l /\ i # 0 /\ s[i] \in E
    BY <1>3
  <2> QED BY <1>2, <1>10, <1>11, <2>1
<1>12. h[0] = <<>>
  <2>1. 0 \in 0..l
    BY <1>3
  <2> QED BY <1>10, <2>1
<1>13. h[l] = g[l]
  <2> DEFINE Val == Seq(E)
             nothing == <<>>
  <2>1. /\ g \in [0..Len(s) -> Val] /\ Goes(g, nothing, step, s) /\ h[0] = nothing
        /\ \A i \in 1..Len(s) : h[i - 1] \in Val => h[i] = step[<<h[i - 1], s[i]>>]
    BY <1>4, <1>11, <1>12 DEF l
  <2> HIDE DEF Val, nothing
  <2> QED BY <2>1, OneWay DEF l
<1>14. g[l] \in Seq(E)
  BY <1>3, <1>4
<1> QED BY <1>4, <1>9, <1>13, <1>14 DEF l, step, Fold

\* One more to choose from.
LEMMA OfTypeIs ==
    ASSUME NEW E, NEW types
    PROVE  /\ OfType(<<>>, types) = <<>>
           /\ \A s \in Seq(E) : OfType(s, types) \in Seq(E)
           /\ \A s \in Seq(E) : \A e \in E :
                OfType(Append(s, e), types) =
                  IF e.type \in types THEN Append(OfType(s, types), e) ELSE OfType(s, types)
<1>1. OfType(<<>>, types) = <<>>
  BY OfTypeGoes, FoldNothing, EmptySeq
<1>2. ASSUME NEW s \in Seq(E), NEW e \in E
      PROVE  OfType(Append(s, e), types) =
               IF e.type \in types THEN Append(OfType(s, types), e) ELSE OfType(s, types)
  <2> DEFINE step == Choose(E, types)
             nothing == <<>>
             x == OfType(s, types)
             y == OfType(Append(s, e), types)
  <2>1. Fold(x, nothing, step, s) /\ Fold(y, nothing, step, Append(s, e)) /\ x \in Seq(E)
    BY AppendProperties, OfTypeGoes
  <2> HIDE DEF step, nothing, x, y
  <2>2. y = step[<<x, e>>]
    BY <2>1, FoldOn
  <2> QED BY <2>1, <2>2 DEF Choose, step, x, y
<1> QED BY <1>1, <1>2, OfTypeGoes

\* A function on the numbers up to k is a sequence.
LEMMA SeqOf ==
    ASSUME NEW V, NEW k \in Nat, NEW f \in [1..k -> V]
    PROVE  f \in Seq(V) /\ Len(f) = k
BY SeqDef

\* A sequence that is longer by one element is what appending it gives.
LEMMA LongerIs ==
    ASSUME NEW V, NEW s \in Seq(V), NEW e \in V, NEW u \in Seq(V), LongerBy(u, s, e)
    PROVE  u = Append(s, e)
<1> DEFINE t == Append(s, e)
<1>1. t \in Seq(V) /\ LongerBy(t, s, e) /\ Len(s) \in Nat
  BY AppendProperties, LenProperties DEF LongerBy
<1> HIDE DEF t
<1>2. ASSUME NEW i \in 1..Len(u) PROVE u[i] = t[i]
  <2>1. CASE i = Len(s) + 1
    BY <1>1, <2>1 DEF LongerBy
  <2>2. CASE i # Len(s) + 1
    <3>1. i \in 1..Len(s)
      BY <1>1, <2>2 DEF LongerBy
    <3> QED BY <1>1, <3>1 DEF LongerBy
  <2> QED BY <2>1, <2>2
<1>3. Len(u) = Len(t)
  BY <1>1 DEF LongerBy
<1>4. u = t
  BY <1>1, <1>2, <1>3, SeqEqual
<1> QED BY <1>4 DEF t

----------------------------------------------------------------------------
(* The history *)

\* The items of a request of the Responses protocol, and of an answer of the Messages protocol.
HistoryItem == [type : {"message", "reasoning", "function_call", "function_call_output"},
                role : {"", "user", "assistant"}, text : Seq(Nat), call : Nat]

Chat == [role : {"user", "assistant", "tool"}, content : Seq(Nat), calls : Seq(Nat),
         answers : Nat, reasoning : Seq(Nat)]

\* What the assistant says in a message.
Spoken(m) == IF m.role = "assistant" THEN m.content ELSE <<>>

\* One message more.
LEMMA SaidIs ==
    /\ Said(<<>>) = <<>>
    /\ \A h \in Seq(Chat) : Said(h) \in Seq(Nat)
    /\ \A h \in Seq(Chat) : \A m \in Chat : Said(Append(h, m)) = Said(h) \o Spoken(m)
<1> DEFINE V == Seq(Nat)
           F(h) == [i \in DOMAIN h |-> Spoken(h[i])]
<1>1. \A m \in Chat : Spoken(m) \in V
  BY EmptySeq DEF Spoken, Chat
<1>2. \A h : Said(h) = Joined(F(h))
  BY DEF Said, Spoken
<1>3. ASSUME NEW h \in Seq(Chat)
      PROVE  F(h) \in Seq(V) /\ Len(F(h)) = Len(h) /\ \A i \in 1..Len(h) : F(h)[i] = Spoken(h[i])
  <2> HIDE DEF V
  <2>1. Len(h) \in Nat /\ DOMAIN h = 1..Len(h) /\ \A i \in 1..Len(h) : h[i] \in Chat
    BY LenProperties, ElementOfSeq
  <2>2. F(h) \in [1..Len(h) -> V]
    BY <1>1, <2>1
  <2>3. \A i \in 1..Len(h) : F(h)[i] = Spoken(h[i])
    BY <2>1
  <2> HIDE DEF F
  <2> QED BY <2>1, <2>2, <2>3, SeqOf
<1>4. ASSUME NEW h \in Seq(Chat), NEW m \in Chat
      PROVE  F(Append(h, m)) = Append(F(h), Spoken(m))
  <2> DEFINE u == Append(h, m)
  <2>1. u \in Seq(Chat) /\ LongerBy(u, h, m) /\ Len(h) \in Nat
    BY AppendProperties, LenProperties DEF LongerBy
  <2> HIDE DEF u, V
  <2>2. /\ F(u) \in Seq(V) /\ Len(F(u)) = Len(u) /\ \A i \in 1..Len(u) : F(u)[i] = Spoken(u[i])
        /\ F(h) \in Seq(V) /\ Len(F(h)) = Len(h) /\ \A i \in 1..Len(h) : F(h)[i] = Spoken(h[i])
    BY <1>3, <2>1
  <2> HIDE DEF F
  <2>3. LongerBy(F(u), F(h), Spoken(m))
    <3>1. Len(h) + 1 \in 1..Len(u) /\ \A i \in 1..Len(h) : i \in 1..Len(u)
      BY <2>1 DEF LongerBy
    <3> QED BY <2>1, <2>2, <3>1 DEF LongerBy
  <2>4. Spoken(m) \in V
    BY <1>1
  <2>5. F(u) = Append(F(h), Spoken(m))
    BY <2>2, <2>3, <2>4, LongerIs
  <2> QED BY <2>5 DEF u
<1>5. F(<<>>) = <<>>
  OBVIOUS
<1> HIDE DEF F
<1>6. Said(<<>>) = <<>>
  BY <1>2, <1>5, JoinedIs
<1>7. ASSUME NEW h \in Seq(Chat), NEW m \in Chat
      PROVE  Said(h) \in Seq(Nat) /\ Said(Append(h, m)) = Said(h) \o Spoken(m)
  BY <1>1, <1>2, <1>3, <1>4, JoinedIs
<1>8. ASSUME NEW h \in Seq(Chat) PROVE Said(h) \in Seq(Nat)
  BY <1>2, <1>3, JoinedIs
<1> QED BY <1>6, <1>7, <1>8

\* A function applied to each element of a sequence.
Mapped(g, s) == [i \in DOMAIN s |-> g[s[i]]]

Maps(g, E, V) == g \in [E -> V]

\* A mapped sequence grows with its sequence.
LEMMA MappedIs ==
    ASSUME NEW E, NEW V, NEW g, Maps(g, E, V)
    PROVE  /\ Mapped(g, <<>>) = <<>>
           /\ \A s \in Seq(E) : Mapped(g, s) \in Seq(V)
           /\ \A s \in Seq(E) : \A e \in E : Mapped(g, Append(s, e)) = Append(Mapped(g, s), g[e])
<1>1. ASSUME NEW s \in Seq(E)
      PROVE  /\ Mapped(g, s) \in Seq(V) /\ Len(Mapped(g, s)) = Len(s)
             /\ \A i \in 1..Len(s) : Mapped(g, s)[i] = g[s[i]]
  <2>1. Len(s) \in Nat /\ DOMAIN s = 1..Len(s) /\ \A i \in 1..Len(s) : s[i] \in E
    BY LenProperties, ElementOfSeq
  <2>2. Mapped(g, s) \in [1..Len(s) -> V] /\ \A i \in 1..Len(s) : Mapped(g, s)[i] = g[s[i]]
    BY <2>1 DEF Mapped, Maps
  <2> QED BY <2>1, <2>2, SeqOf
<1>2. ASSUME NEW s \in Seq(E), NEW e \in E
      PROVE  Mapped(g, Append(s, e)) = Append(Mapped(g, s), g[e])
  <2> DEFINE u == Append(s, e)
             x == Mapped(g, s)
             y == Mapped(g, u)
  <2>1. u \in Seq(E) /\ LongerBy(u, s, e) /\ Len(s) \in Nat
    BY AppendProperties, LenProperties DEF LongerBy
  <2> HIDE DEF u
  <2>2. /\ y \in Seq(V) /\ Len(y) = Len(u) /\ \A i \in 1..Len(u) : y[i] = g[u[i]]
        /\ x \in Seq(V) /\ Len(x) = Len(s) /\ \A i \in 1..Len(s) : x[i] = g[s[i]]
    BY <1>1, <2>1
  <2> HIDE DEF x, y
  <2>3. Len(s) + 1 \in 1..Len(u) /\ \A i \in 1..Len(s) : i \in 1..Len(u)
    BY <2>1 DEF LongerBy
  <2>4. LongerBy(y, x, g[e])
    BY <2>1, <2>2, <2>3 DEF LongerBy
  <2>5. g[e] \in V
    BY DEF Maps
  <2>6. y = Append(x, g[e])
    BY <2>2, <2>4, <2>5, LongerIs
  <2> QED BY <2>6 DEF u, x, y
<1>3. Mapped(g, <<>>) = <<>>
  BY DEF Mapped
<1> QED BY <1>1, <1>2, <1>3

\* One message more: what it calls.
LEMMA CalledIs ==
    /\ Called(<<>>) = <<>>
    /\ \A h \in Seq(Chat) : Called(h) \in Seq(Nat)
    /\ \A h \in Seq(Chat) : \A m \in Chat : Called(Append(h, m)) = Called(h) \o m.calls
<1> DEFINE V == Seq(Nat)
           g == [m \in Chat |-> m.calls]
<1>1. Maps(g, Chat, V) /\ \A m \in Chat : g[m] = m.calls
  BY DEF Chat, Maps
<1>2. ASSUME NEW h \in Seq(Chat) PROVE Called(h) = Joined(Mapped(g, h))
  <2>1. DOMAIN h = 1..Len(h) /\ \A i \in 1..Len(h) : h[i] \in Chat
    BY LenProperties, ElementOfSeq
  <2>2. [i \in DOMAIN h |-> h[i].calls] = [i \in DOMAIN h |-> g[h[i]]]
    BY <1>1, <2>1
  <2> QED BY <2>2 DEF Called, Mapped
<1> HIDE DEF V, g
<1>3. /\ Mapped(g, <<>>) = <<>>
      /\ \A h \in Seq(Chat) : Mapped(g, h) \in Seq(V)
      /\ \A h \in Seq(Chat) : \A m \in Chat : Mapped(g, Append(h, m)) = Append(Mapped(g, h), m.calls)
  <2>1. \A h \in Seq(Chat) : \A m \in Chat : Mapped(g, Append(h, m)) = Append(Mapped(g, h), g[m])
    BY <1>1, MappedIs
  <2>2. Mapped(g, <<>>) = <<>> /\ \A h \in Seq(Chat) : Mapped(g, h) \in Seq(V)
    BY <1>1, MappedIs
  <2> QED BY <1>1, <2>1, <2>2
<1>4. Called(<<>>) = <<>>
  BY <1>2, <1>3, JoinedIs, EmptySeq
<1>5. ASSUME NEW h \in Seq(Chat) PROVE Called(h) \in Seq(Nat)
  BY <1>2, <1>3, JoinedIs DEF V
<1>6. ASSUME NEW h \in Seq(Chat), NEW m \in Chat PROVE Called(Append(h, m)) = Called(h) \o m.calls
  <2>1. Append(h, m) \in Seq(Chat) /\ m.calls \in Seq(Nat)
    BY AppendProperties DEF Chat
  <2> QED BY <1>2, <1>3, <2>1, JoinedIs DEF V
<1> QED BY <1>4, <1>5, <1>6

\* One block more: its text and its call.
LEMMA TextsIs ==
    ASSUME NEW E, \A e \in E : e.text \in Seq(Nat) /\ e.call \in Nat
    PROVE  /\ Texts(<<>>) = <<>> /\ Calls(<<>>) = <<>>
           /\ \A s \in Seq(E) : Texts(s) \in Seq(Nat) /\ Calls(s) \in Seq(Nat)
           /\ \A s \in Seq(E) : \A e \in E :
                /\ Texts(Append(s, e)) = Texts(s) \o e.text
                /\ Calls(Append(s, e)) = Append(Calls(s), e.call)
<1> DEFINE g == [e \in E |-> e.text]
           f == [e \in E |-> e.call]
<1>1. /\ Maps(g, E, Seq(Nat)) /\ \A e \in E : g[e] = e.text
      /\ Maps(f, E, Nat) /\ \A e \in E : f[e] = e.call
  BY DEF Maps
<1>2. ASSUME NEW s \in Seq(E) PROVE Texts(s) = Joined(Mapped(g, s)) /\ Calls(s) = Mapped(f, s)
  <2>1. DOMAIN s = 1..Len(s) /\ \A i \in 1..Len(s) : s[i] \in E
    BY LenProperties, ElementOfSeq
  <2>2. /\ [i \in DOMAIN s |-> s[i].text] = [i \in DOMAIN s |-> g[s[i]]]
        /\ [i \in DOMAIN s |-> s[i].call] = [i \in DOMAIN s |-> f[s[i]]]
    BY <1>1, <2>1
  <2> QED BY <2>2 DEF Texts, Calls, Mapped
<1> HIDE DEF g, f
<1>3. /\ Mapped(g, <<>>) = <<>>
      /\ \A s \in Seq(E) : Mapped(g, s) \in Seq(Seq(Nat))
      /\ \A s \in Seq(E) : \A e \in E : Mapped(g, Append(s, e)) = Append(Mapped(g, s), e.text)
  <2>1. Mapped(g, <<>>) = <<>> /\ \A s \in Seq(E) : Mapped(g, s) \in Seq(Seq(Nat))
    BY <1>1, MappedIs
  <2>2. \A s \in Seq(E) : \A e \in E : Mapped(g, Append(s, e)) = Append(Mapped(g, s), g[e])
    BY <1>1, MappedIs
  <2> QED BY <1>1, <2>1, <2>2
<1>4. /\ Mapped(f, <<>>) = <<>>
      /\ \A s \in Seq(E) : Mapped(f, s) \in Seq(Nat)
      /\ \A s \in Seq(E) : \A e \in E : Mapped(f, Append(s, e)) = Append(Mapped(f, s), e.call)
  <2>1. Mapped(f, <<>>) = <<>> /\ \A s \in Seq(E) : Mapped(f, s) \in Seq(Nat)
    BY <1>1, MappedIs
  <2>2. \A s \in Seq(E) : \A e \in E : Mapped(f, Append(s, e)) = Append(Mapped(f, s), f[e])
    BY <1>1, MappedIs
  <2> QED BY <1>1, <2>1, <2>2
<1>5. Texts(<<>>) = <<>> /\ Calls(<<>>) = <<>>
  BY <1>2, <1>3, <1>4, JoinedIs, EmptySeq
<1>6. ASSUME NEW s \in Seq(E) PROVE Texts(s) \in Seq(Nat) /\ Calls(s) \in Seq(Nat)
  BY <1>2, <1>3, <1>4, JoinedIs
<1>7. ASSUME NEW s \in Seq(E), NEW e \in E
      PROVE  /\ Texts(Append(s, e)) = Texts(s) \o e.text
             /\ Calls(Append(s, e)) = Append(Calls(s), e.call)
  <2>1. Append(s, e) \in Seq(E) /\ e.text \in Seq(Nat)
    BY AppendProperties
  <2>2. Texts(Append(s, e)) = Joined(Append(Mapped(g, s), e.text))
    BY <1>2, <1>3, <2>1
  <2>3. Mapped(g, s) \in Seq(Seq(Nat))
    BY <1>3
  <2>4. Texts(Append(s, e)) = Texts(s) \o e.text
    BY <1>2, <2>1, <2>2, <2>3, JoinedIs
  <2>5. Calls(Append(s, e)) = Append(Calls(s), e.call)
    BY <1>2, <1>4, <2>1
  <2> QED BY <2>4, <2>5
<1> QED BY <1>5, <1>6, <1>7

\* Messages at the end that say nothing and call nothing change neither.
LEMMA Silent ==
    ASSUME NEW h \in Seq(Chat), NEW t \in Seq({m \in Chat : Spoken(m) = <<>> /\ m.calls = <<>>})
    PROVE  h \o t \in Seq(Chat) /\ Said(h \o t) = Said(h) /\ Called(h \o t) = Called(h)
<1> DEFINE E == {m \in Chat : Spoken(m) = <<>> /\ m.calls = <<>>}
           P == {s \in Seq(E) : /\ h \o s \in Seq(Chat)
                                /\ Said(h \o s) = Said(h) /\ Called(h \o s) = Called(h)}
<1>1. h \o <<>> = h /\ <<>> \in Seq(E)
  BY ConcatEmptySeq, EmptySeq
<1>2. <<>> \in P
  BY <1>1
<1>3. ASSUME NEW s \in Seq(E), NEW e \in E, s \in P PROVE Append(s, e) \in P
  <2>1. e \in Chat /\ Spoken(e) = <<>> /\ e.calls = <<>> /\ s \in Seq(Chat)
    BY ElementOfSeq, SeqDef
  <2> HIDE DEF E
  <2>2. h \o s \in Seq(Chat) /\ Said(h \o s) = Said(h) /\ Called(h \o s) = Called(h)
    BY <1>3
  <2>3. h \o Append(s, e) = Append(h \o s, e)
    BY <2>1, <2>2, ConcatProperties, AppendProperties
  <2>4. Append(s, e) \in Seq(E) /\ h \o Append(s, e) \in Seq(Chat)
    BY <2>1, <2>2, <2>3, AppendProperties
  <2>5. Said(h \o s) \o <<>> = Said(h \o s) /\ Called(h \o s) \o <<>> = Called(h \o s)
    BY <2>2, SaidIs, CalledIs, ConcatEmptySeq
  <2>6. Said(h \o Append(s, e)) = Said(h) /\ Called(h \o Append(s, e)) = Called(h)
    BY <2>1, <2>2, <2>3, <2>5, SaidIs, CalledIs
  <2> QED BY <2>4, <2>6
<1> HIDE DEF E, P
<1>4. Seq(E) \subseteq P
  BY <1>2, <1>3, AppendInduction
<1> QED BY <1>4 DEF E, P

----------------------------------------------------------------------------
(* A conversation message joined to the one before it *)

\* A history with a last message, and another in the place of that one.
LEMMA LastIs ==
    ASSUME NEW E, NEW front \in Seq(E), NEW m \in E, NEW m2 \in E, NEW h, h = Append(front, m)
    PROVE  /\ h \in Seq(E) /\ h # <<>> /\ h[Len(h)] = m
           /\ [h EXCEPT ![Len(h)] = m2] = Append(front, m2)
<1> DEFINE u == Append(front, m2)
           l == Len(front)
           g == [h EXCEPT ![Len(h)] = m2]
<1>1. /\ l \in Nat /\ h \in Seq(E) /\ Len(h) = l + 1 /\ h[l + 1] = m
      /\ \A i \in 1..l : h[i] = front[i]
  BY AppendProperties, LenProperties
<1>2. /\ u \in Seq(E) /\ Len(u) = l + 1 /\ u[l + 1] = m2
      /\ \A i \in 1..l : u[i] = front[i]
  BY AppendProperties
<1> HIDE DEF u, l
<1>3. h # <<>> /\ Len(h) \in 1..Len(h) /\ DOMAIN h = 1..(l + 1)
  <2>1. h \in [1..Len(h) -> E]
    BY <1>1, LenProperties
  <2>2. Len(h) # 0 /\ Len(h) \in 1..Len(h)
    BY <1>1
  <2>3. Len(<<>>) = 0
    BY EmptySeq
  <2> QED BY <1>1, <2>1, <2>2, <2>3
<1>4. g \in Seq(E) /\ Len(g) = Len(h)
  BY <1>1, <1>3, ExceptSeq
<1>5. g[l + 1] = m2 /\ \A i \in 1..l : g[i] = h[i]
  <2>1. l + 1 \in DOMAIN h /\ Len(h) = l + 1 /\ \A i \in 1..l : i \in DOMAIN h /\ i # l + 1
    BY <1>1, <1>3
  <2> QED BY <2>1
<1> HIDE DEF g
<1>6. ASSUME NEW i \in 1..Len(g) PROVE g[i] = u[i]
  <2>1. CASE i = l + 1
    BY <1>2, <1>5, <2>1
  <2>2. CASE i # l + 1
    <3>1. i \in 1..l
      BY <1>1, <1>4, <2>2
    <3> QED BY <1>1, <1>2, <1>5, <3>1
  <2> QED BY <2>1, <2>2
<1>7. Len(g) = Len(u)
  BY <1>1, <1>2, <1>4
<1>8. g = u
  BY <1>2, <1>4, <1>6, <1>7, SeqEqual
<1> QED BY <1>1, <1>3, <1>8 DEF g, u

\* The messages so far and the thought that waits.
State == [out : Seq(Chat), pending : Seq(Nat)]

\* The messages that the conversion makes.
LEMMA MessageIs ==
    /\ \A role \in {"user", "assistant", "tool"} : \A content \in Seq(Nat) :
         /\ Message(role, content) \in Chat
         /\ Message(role, content) = [role |-> role, content |-> content, calls |-> <<>>,
                                      answers |-> 0, reasoning |-> <<>>]
    /\ \A call \in Nat : \A content \in Seq(Nat) :
         ToolMessage(call, content) = [role |-> "tool", content |-> content, calls |-> <<>>,
                                       answers |-> call, reasoning |-> <<>>]
    /\ \A reasoning \in Seq(Nat) :
         EnsureToolReasoning(reasoning) \in Seq(Nat) /\ EnsureToolReasoning(reasoning) # <<>>
<1>1. <<>> \in Seq(Nat)
  BY EmptySeq
<1>2. ASSUME NEW reasoning \in Seq(Nat)
      PROVE  EnsureToolReasoning(reasoning) \in Seq(Nat) /\ EnsureToolReasoning(reasoning) # <<>>
  BY DEF EnsureToolReasoning
<1> QED BY <1>1, <1>2 DEF Message, ToolMessage, Chat

\* A text of the assistant right after its calls joins their message.
LEMMA TextJoins ==
    ASSUME NEW s \in State, NEW front \in Seq(Chat), NEW m \in Chat, s.out = Append(front, m),
           NEW x \in HistoryItem, x.type = "message", x.role = "assistant", x.text # <<>>,
           m.role = "assistant", m.calls # <<>>, m.content = <<>>
    PROVE  /\ AddItem(s, x) \in State
           /\ \E m2 \in Chat :
                /\ AddItem(s, x).out = Append(front, m2)
                /\ m2 = [m EXCEPT !.content = x.text]
<1> DEFINE m2 == [m EXCEPT !.content = x.text]
           h == s.out
           t == [s EXCEPT !.out[Len(s.out)].content = x.text]
           r == [h EXCEPT ![Len(h)] = m2]
<1>1. m2 \in Chat
  BY Zenon DEF Chat, HistoryItem
<1>2. h \in Seq(Chat) /\ h # <<>> /\ h[Len(h)] = m /\ r = Append(front, m2)
  BY <1>1, LastIs
<1>3. Joinable(s.out)
  BY <1>2 DEF Joinable
<1>4. NormalizeChatRole(x.role) = "assistant"
  BY DEF NormalizeChatRole
<1>5. AddItem(s, x) = t
  BY <1>3, <1>4 DEF AddItem, AddMessage
<1>6. t.out = r /\ t \in [out : {r}, pending : Seq(Nat)]
  BY <1>2 DEF State
<1> HIDE DEF m2, t, r, h
<1>7. r \in Seq(Chat)
  BY <1>1, <1>2, AppendProperties
<1>8. t \in State
  BY <1>6, <1>7 DEF State
<1> QED BY <1>1, <1>2, <1>5, <1>6, <1>8 DEF m2

\* A call joins those before it in a message without text.
LEMMA CallJoins ==
    ASSUME NEW s \in State, NEW front \in Seq(Chat), NEW m \in Chat, s.out = Append(front, m),
           NEW x \in HistoryItem, x.type = "function_call",
           m.role = "assistant", m.calls # <<>>, m.content = <<>>
    PROVE  /\ AddItem(s, x) \in State
           /\ \E m2 \in Chat :
                /\ AddItem(s, x).out = Append(front, m2)
                /\ m2 = [m EXCEPT !.calls = Append(m.calls, x.call)]
<1> DEFINE m2 == [m EXCEPT !.calls = Append(m.calls, x.call)]
           h == s.out
           t == [s EXCEPT !.out[Len(s.out)].calls = Append(@, x.call)]
           r == [h EXCEPT ![Len(h)] = m2]
<1>1. m2 \in Chat
  BY Zenon, AppendProperties DEF Chat, HistoryItem
<1>2. h \in Seq(Chat) /\ h # <<>> /\ h[Len(h)] = m /\ r = Append(front, m2)
  BY <1>1, LastIs
<1>3. Joinable(s.out)
  BY <1>2 DEF Joinable
<1>5. AddItem(s, x) = t
  BY <1>3 DEF AddItem, AddFunctionCall
<1>6. t.out = r /\ t \in [out : {r}, pending : Seq(Nat)]
  BY <1>2 DEF State
<1> HIDE DEF m2, t, r, h
<1>7. r \in Seq(Chat)
  BY <1>1, <1>2, AppendProperties
<1>8. t \in State
  BY <1>6, <1>7 DEF State
<1> QED BY <1>1, <1>2, <1>5, <1>6, <1>8 DEF m2

\* Any other text is a message of its own.
LEMMA TextAppends ==
    ASSUME NEW s \in State, NEW x \in HistoryItem, x.type = "message", x.text # <<>>,
           ~(x.role = "assistant" /\ Joinable(s.out))
    PROVE  /\ AddItem(s, x) \in State
           /\ \E m2 \in Chat :
                /\ AddItem(s, x).out = Append(s.out, m2)
                /\ m2.role = IF x.role = "assistant" THEN "assistant" ELSE "user"
                /\ m2.content = x.text /\ m2.calls = <<>> /\ m2.answers = 0
<1> DEFINE role == NormalizeChatRole(x.role)
           m2 == [Message(role, x.text) EXCEPT
                    !.reasoning = IF role = "assistant" THEN s.pending ELSE <<>>]
           t == [out |-> Append(s.out, m2),
                 pending |-> IF role = "user" THEN <<>> ELSE s.pending]
<1>1. role = IF x.role = "assistant" THEN "assistant" ELSE "user"
  BY Zenon DEF NormalizeChatRole, HistoryItem
<1>2. AddItem(s, x) = t
  BY <1>1 DEF AddItem, AddMessage
<1>3. /\ m2 \in Chat /\ m2.role = role /\ m2.content = x.text /\ m2.calls = <<>>
      /\ m2.answers = 0
  <2>1. <<>> \in Seq(Nat) /\ s.pending \in Seq(Nat) /\ x.text \in Seq(Nat)
    BY Zenon, EmptySeq DEF State, HistoryItem
  <2>2. role \in {"user", "assistant"}
    BY <1>1
  <2> HIDE DEF role
  <2> QED BY <2>1, <2>2 DEF Message, Chat
<1> HIDE DEF role, m2
<1>4. Append(s.out, m2) \in Seq(Chat) /\ <<>> \in Seq(Nat) /\ s.pending \in Seq(Nat)
  BY <1>3, AppendProperties, EmptySeq DEF State
<1>5. t \in State /\ t.out = Append(s.out, m2)
  BY <1>4 DEF State
<1> HIDE DEF t
<1> QED BY <1>1, <1>2, <1>3, <1>5

\* A call that cannot join has a message of its own, with reasoning.
LEMMA CallAppends ==
    ASSUME NEW s \in State, NEW x \in HistoryItem, x.type = "function_call", ~Joinable(s.out)
    PROVE  /\ AddItem(s, x) \in State
           /\ \E m2 \in Chat :
                /\ AddItem(s, x).out = Append(s.out, m2)
                /\ m2.role = "assistant" /\ m2.content = <<>> /\ m2.calls = <<x.call>>
                /\ m2.answers = 0 /\ m2.reasoning # <<>>
<1> DEFINE blank == EnsureToolReasoning(s.pending)
           m2 == [Message("assistant", <<>>) EXCEPT !.calls = <<x.call>>, !.reasoning = blank]
           t == [s EXCEPT !.out = Append(@, m2)]
<1>1. AddItem(s, x) = t
  BY DEF AddItem, AddFunctionCall
<1>2. blank \in Seq(Nat) /\ blank # <<>>
  BY MessageIs DEF State
<1>3. <<>> \in Seq(Nat) /\ <<x.call>> \in Seq(Nat)
  <2>1. x.call \in Nat
    BY Zenon DEF HistoryItem
  <2>2. \A k \in Nat : <<k>> \in Seq(Nat)
    OBVIOUS
  <2> QED BY <2>1, <2>2, EmptySeq
<1> HIDE DEF blank
<1>4. /\ m2 \in Chat /\ m2.role = "assistant" /\ m2.content = <<>> /\ m2.calls = <<x.call>>
      /\ m2.answers = 0 /\ m2.reasoning = blank
  BY <1>2, <1>3 DEF Message, Chat
<1> HIDE DEF m2
<1>5. Append(s.out, m2) \in Seq(Chat)
  BY <1>4, AppendProperties DEF State
<1>6. t \in State /\ t.out = Append(s.out, m2)
  BY <1>5 DEF State
<1> HIDE DEF t
<1> QED BY <1>1, <1>2, <1>4, <1>6

\* The output of a tool is a message of its own.
LEMMA OutputAppends ==
    ASSUME NEW s \in State, NEW x \in HistoryItem, x.type = "function_call_output"
    PROVE  /\ AddItem(s, x) \in State /\ ToolMessage(x.call, x.text) \in Chat
           /\ AddItem(s, x).out = Append(s.out, ToolMessage(x.call, x.text))
<1> DEFINE m2 == ToolMessage(x.call, x.text)
           t == [out |-> Append(s.out, m2), pending |-> <<>>]
<1>1. AddItem(s, x) = t
  BY DEF AddItem, AddFunctionCallOutput
<1>2. <<>> \in Seq(Nat)
  BY EmptySeq
<1>3. m2 \in Chat
  <2>1. x.call \in Nat /\ x.text \in Seq(Nat)
    BY Zenon DEF HistoryItem
  <2>2. m2 = [role |-> "tool", content |-> x.text, calls |-> <<>>, answers |-> x.call,
              reasoning |-> <<>>]
    BY <2>1, MessageIs
  <2> HIDE DEF m2
  <2> QED BY <1>2, <2>1, <2>2 DEF Chat
<1> HIDE DEF m2
<1>4. Append(s.out, m2) \in Seq(Chat)
  BY <1>3, AppendProperties DEF State
<1>5. t \in State /\ t.out = Append(s.out, m2)
  BY <1>2, <1>4 DEF State
<1> HIDE DEF t
<1> QED BY <1>1, <1>3, <1>5 DEF m2

\* A thought, or a message without text, adds nothing to the history.
LEMMA NothingAdded ==
    ASSUME NEW s \in State, NEW x \in HistoryItem,
           x.type = "reasoning" \/ (x.type = "message" /\ x.text = <<>>)
    PROVE  AddItem(s, x) \in State /\ AddItem(s, x).out = s.out
BY Zenon DEF AddItem, AddMessage, State, HistoryItem

\* Whether the last message can take more.
LEMMA JoinableIs ==
    ASSUME NEW s \in State, Joinable(s.out)
    PROVE  \E front \in Seq(Chat), m \in Chat :
             /\ s.out = Append(front, m)
             /\ m.role = "assistant" /\ m.calls # <<>> /\ m.content = <<>>
<1>1. s.out \in Seq(Chat) /\ s.out # <<>>
  BY DEF State, Joinable
<1>2. PICK front \in Seq(Chat), m \in Chat : s.out = Append(front, m)
  BY <1>1, SequenceEmptyOrAppend
<1>3. s.out[Len(s.out)] = m
  BY <1>2, LastIs
<1> QED BY <1>2, <1>3 DEF Joinable

\* Every item leaves a history.
LEMMA AddedIs ==
    ASSUME NEW s \in State, NEW x \in HistoryItem
    PROVE  AddItem(s, x) \in State
<1>1. CASE x.type = "reasoning" \/ (x.type = "message" /\ x.text = <<>>)
  BY <1>1, NothingAdded
<1>2. CASE x.type = "function_call_output"
  BY <1>2, OutputAppends
<1>3. CASE x.type = "function_call"
  <2>1. CASE Joinable(s.out)
    BY <1>3, <2>1, CallJoins, JoinableIs
  <2>2. CASE ~Joinable(s.out)
    BY <1>3, <2>2, CallAppends
  <2> QED BY <2>1, <2>2
<1>4. CASE x.type = "message" /\ x.text # <<>>
  <2>1. CASE x.role = "assistant" /\ Joinable(s.out)
    BY <1>4, <2>1, TextJoins, JoinableIs
  <2>2. CASE ~(x.role = "assistant" /\ Joinable(s.out))
    BY <1>4, <2>2, TextAppends
  <2> QED BY <2>1, <2>2
<1>5. \/ x.type = "message" \/ x.type = "reasoning"
      \/ x.type = "function_call" \/ x.type = "function_call_output"
  BY Zenon DEF HistoryItem
<1> QED BY <1>1, <1>2, <1>3, <1>4, <1>5

\* A fold ends in one place.
LEMMA FoldOne ==
    ASSUME NEW E, NEW first, NEW step, NEW s \in Seq(E), NEW x, NEW y,
           Fold(x, first, step, s), Fold(y, first, step, s)
    PROVE  x = y
<1> DEFINE l == Len(s)
<1>1. PICK g, h : Goes(g, first, step, s) /\ x = g[l] /\ Goes(h, first, step, s) /\ y = h[l]
  BY DEF Fold
<1> DEFINE S == {i \in Nat : i <= l => g[i] = h[i]}
<1>2. l \in Nat
  BY LenProperties
<1>3. /\ g[0] = h[0]
      /\ \A i \in 1..l : g[i] = step[<<g[i - 1], s[i]>>] /\ h[i] = step[<<h[i - 1], s[i]>>]
  BY <1>1 DEF Goes
<1> HIDE DEF l
<1>4. 0 \in S
  BY <1>3
<1>5. ASSUME NEW i \in Nat, i \in S PROVE i + 1 \in S
  <2> SUFFICES ASSUME i + 1 <= l PROVE g[i + 1] = h[i + 1]
    OBVIOUS
  <2>1. i + 1 \in 1..l /\ i + 1 - 1 = i /\ g[i] = h[i]
    BY <1>2, <1>5
  <2>2. g[i + 1] = step[<<g[i], s[i + 1]>>]
    BY <1>3, <2>1
  <2>3. h[i + 1] = step[<<h[i], s[i + 1]>>]
    BY <1>3, <2>1
  <2> QED BY <2>1, <2>2, <2>3
<1> HIDE DEF S
<1>6. l \in S
  BY <1>2, <1>4, <1>5, Induction
<1> QED BY <1>1, <1>2, <1>6 DEF S

ReadTo(f, items) ==
    f = [i \in 0..Len(items) |-> IF i = 0 THEN [out |-> <<>>, pending |-> <<>>]
                                 ELSE AddItem(f[i - 1], items[i])]

\* One item more.
Add == [p \in State \X HistoryItem |-> AddItem(p[1], p[2])]

Nothing == [out |-> <<>>, pending |-> <<>>]

\* The state after some items.
Reading(items) == CHOOSE x \in State : Fold(x, Nothing, Add, items)

\* The conversion goes through the items.
LEMMA ReadGoes ==
    ASSUME NEW items \in Seq(HistoryItem)
    PROVE  \E x \in State : /\ Fold(x, Nothing, Add, items)
                            /\ ResponsesInputToChat(items) = x.out
<1> DEFINE step == Add
           E == HistoryItem
           Val == State
           nothing == Nothing
           l == Len(items)
           h == CHOOSE f : ReadTo(f, items)
<1>1. step \in [Val \X E -> Val]
  BY AddedIs DEF Add
<1>2. \A s \in Val, e \in E : step[<<s, e>>] = AddItem(s, e)
  BY DEF Add
<1>3. nothing \in Val /\ l \in Nat /\ \A i \in 1..l : items[i] \in E
  BY EmptySeq, LenProperties, ElementOfSeq DEF State, Nothing
<1> HIDE DEF step, E, Val, nothing
<1>4. PICK g \in [0..l -> Val] : Goes(g, nothing, step, items)
  BY <1>1, <1>3, Going DEF E
<1>5. g[0] = nothing /\ \A i \in 1..l : g[i] = step[<<g[i - 1], items[i]>>]
  BY <1>4 DEF Goes
<1>6. ASSUME NEW i \in 0..l
      PROVE  g[i] = IF i = 0 THEN nothing ELSE AddItem(g[i - 1], items[i])
  <2>1. CASE i = 0
    BY <1>5, <2>1
  <2>2. CASE i # 0
    <3>1. i \in 1..l /\ i - 1 \in 0..l
      BY <1>3, <2>2
    <3>2. g[i - 1] \in Val /\ items[i] \in E
      BY <1>3, <1>4, <3>1
    <3> QED BY <1>2, <1>5, <2>2, <3>1, <3>2
  <2> QED BY <2>1, <2>2
<1>7. ReadTo(g, items)
  BY <1>4, <1>6 DEF ReadTo, nothing, Nothing
<1>8. ReadTo(h, items)
  BY <1>7
<1>9. ResponsesInputToChat(items) = h[l].out
  BY DEF ResponsesInputToChat, ReadTo
<1> HIDE DEF h, l
<1>10. \A i \in 0..l : h[i] = IF i = 0 THEN nothing ELSE AddItem(h[i - 1], items[i])
  BY <1>8 DEF ReadTo, l, nothing, Nothing
<1>11. ASSUME NEW i \in 1..l, h[i - 1] \in Val PROVE h[i] = step[<<h[i - 1], items[i]>>]
  <2>1. i \in 0..l /\ i # 0 /\ items[i] \in E
    BY <1>3
  <2> QED BY <1>2, <1>10, <1>11, <2>1
<1>12. h[0] = nothing
  <2>1. 0 \in 0..l
    BY <1>3
  <2> QED BY <1>10, <2>1
<1>13. h[l] = g[l]
  BY <1>4, <1>11, <1>12, OneWay DEF l
<1>14. g[l] \in Val
  BY <1>3, <1>4
<1> QED BY <1>4, <1>9, <1>13, <1>14 DEF l, step, Fold, nothing, Val

\* What is read of no items, and of one more.
LEMMA ReadIs ==
    /\ Reading(<<>>) = Nothing
    /\ \A items \in Seq(HistoryItem) :
         Reading(items) \in State /\ ResponsesInputToChat(items) = Reading(items).out
    /\ \A items \in Seq(HistoryItem) : \A x \in HistoryItem :
         Reading(Append(items, x)) = AddItem(Reading(items), x)
<1>1. ASSUME NEW items \in Seq(HistoryItem)
      PROVE  Reading(items) \in State /\ Fold(Reading(items), Nothing, Add, items)
  BY ReadGoes DEF Reading
<1>2. ASSUME NEW items \in Seq(HistoryItem) PROVE ResponsesInputToChat(items) = Reading(items).out
  <2>1. PICK x \in State : Fold(x, Nothing, Add, items) /\ ResponsesInputToChat(items) = x.out
    BY ReadGoes
  <2>2. Reading(items) = x
    BY <1>1, <2>1, FoldOne
  <2> QED BY <2>1, <2>2
<1>3. ASSUME NEW items \in Seq(HistoryItem), NEW x \in HistoryItem
      PROVE  Reading(Append(items, x)) = AddItem(Reading(items), x)
  <2>1. Reading(Append(items, x)) = Add[<<Reading(items), x>>]
    <3>1. Append(items, x) \in Seq(HistoryItem)
      BY AppendProperties
    <3>2. /\ Fold(Reading(items), Nothing, Add, items)
          /\ Fold(Reading(Append(items, x)), Nothing, Add, Append(items, x))
      BY <1>1, <3>1
    <3> QED BY <3>2, FoldOn
  <2> QED BY <1>1, <2>1 DEF Add
<1>4. Reading(<<>>) = Nothing
  BY <1>1, FoldNothing, EmptySeq
<1> QED BY <1>1, <1>2, <1>3, <1>4

----------------------------------------------------------------------------
(* The answer among the items *)

\* The items of an answer, as the client sends them back.
AnswerItem == {x \in HistoryItem : /\ x.type # "function_call_output"
                                   /\ x.type = "message" => x.role = "assistant"}

Visible(items) == OfType(items, {"message", "function_call"})

\* A text follows a call.
Broken(items) ==
    \E i, j \in DOMAIN Visible(items) :
        /\ i < j
        /\ Visible(items)[i].type = "function_call"
        /\ Visible(items)[j].type = "message"

\* An item more to see.
LEMMA VisibleIs ==
    ASSUME NEW p \in Seq(AnswerItem), NEW x \in AnswerItem
    PROVE  /\ Visible(p) \in Seq(AnswerItem) /\ Visible(Append(p, x)) \in Seq(AnswerItem)
           /\ x.type = "reasoning" => Visible(Append(p, x)) = Visible(p)
           /\ x.type # "reasoning" => LongerBy(Visible(Append(p, x)), Visible(p), x)
<1> DEFINE E == AnswerItem
           types == {"message", "function_call"}
           v == OfType(p, types)
           u == OfType(Append(p, x), types)
<1>1. x.type \in types \/ x.type = "reasoning"
  BY Zenon DEF AnswerItem, HistoryItem
<1>2. "reasoning" \notin types
  OBVIOUS
<1>3. Visible(p) = v /\ Visible(Append(p, x)) = u
  BY DEF Visible
<1>4. p \in Seq(E) /\ x \in E /\ Append(p, x) \in Seq(E)
  BY AppendProperties
<1> HIDE DEF E, types
<1>5. v \in Seq(E) /\ u \in Seq(E) /\ u = IF x.type \in types THEN Append(v, x) ELSE v
  <2>1. \A s \in Seq(E) : OfType(s, types) \in Seq(E)
    BY OfTypeIs
  <2>2. \A s \in Seq(E) : \A e \in E :
          OfType(Append(s, e), types) = IF e.type \in types THEN Append(OfType(s, types), e)
                                        ELSE OfType(s, types)
    BY OfTypeIs
  <2> QED BY <1>4, <2>1, <2>2
<1> HIDE DEF v, u
<1>6. LongerBy(Append(v, x), v, x)
  BY <1>4, <1>5, AppendProperties DEF LongerBy
<1> QED BY <1>1, <1>2, <1>3, <1>5, <1>6 DEF E

\* Calls that were together with the last item were together without it, and no text had
\* followed them if it is one to see.
LEMMA TogetherBefore ==
    ASSUME NEW p \in Seq(AnswerItem), NEW x \in AnswerItem, CallsTogether(Append(p, x))
    PROVE  CallsTogether(p) /\ (x.type # "reasoning" => ~Broken(p))
<1> DEFINE v == Visible(p)
           u == Visible(Append(p, x))
<1>1. \A i, j \in DOMAIN u :
        i < j /\ u[i].type = "function_call" /\ u[j].type = "message" => j = Len(u)
  BY DEF CallsTogether, Visible
<1>2. CallsTogether(p) <=> \A i, j \in DOMAIN v :
        i < j /\ v[i].type = "function_call" /\ v[j].type = "message" => j = Len(v)
  BY DEF CallsTogether, Visible
<1>3. Broken(p) <=> \E i, j \in DOMAIN v :
        i < j /\ v[i].type = "function_call" /\ v[j].type = "message"
  BY DEF Broken
<1>4. /\ v \in Seq(AnswerItem) /\ u \in Seq(AnswerItem)
      /\ x.type = "reasoning" => u = v
      /\ x.type # "reasoning" => LongerBy(u, v, x)
  BY VisibleIs
<1> HIDE DEF v, u
<1>5. Len(v) \in Nat /\ DOMAIN v = 1..Len(v) /\ Len(u) \in Nat /\ DOMAIN u = 1..Len(u)
  BY <1>4, LenProperties
<1>6. CASE x.type = "reasoning"
  BY <1>1, <1>2, <1>4, <1>6
<1>7. CASE x.type # "reasoning"
  <2>1. Len(u) = Len(v) + 1 /\ \A i \in DOMAIN v : u[i] = v[i]
    BY Zenon, <1>4, <1>5, <1>7 DEF LongerBy
  <2>2. ASSUME NEW i \in DOMAIN v, NEW j \in DOMAIN v,
               i < j /\ v[i].type = "function_call" /\ v[j].type = "message"
        PROVE  FALSE
    <3>1. i \in DOMAIN u /\ j \in DOMAIN u /\ j # Len(u)
      BY <1>5, <2>1
    <3> QED BY <1>1, <2>1, <2>2, <3>1
  <2> QED BY SMTT(40), <1>2, <1>3, <2>2
<1> QED BY <1>6, <1>7

\* A call that was chosen is among the items to see.
LEMMA CallSeen ==
    ASSUME NEW p \in Seq(AnswerItem)
    PROVE  OfType(p, {"function_call"}) # <<>> =>
             \E i \in DOMAIN Visible(p) : Visible(p)[i].type = "function_call"
<1>0. \A types : \A s \in Seq(AnswerItem) : \A e \in AnswerItem :
        OfType(Append(s, e), types) = IF e.type \in types THEN Append(OfType(s, types), e)
                                      ELSE OfType(s, types)
  BY OfTypeIs
<1> DEFINE E == AnswerItem
           types == {"function_call"}
           Seen(s) == \E i \in DOMAIN Visible(s) : Visible(s)[i].type = "function_call"
           P == {s \in Seq(E) : OfType(s, types) # <<>> => Seen(s)}
<1>1. <<>> \in P
  BY OfTypeIs, EmptySeq
<1>2. ASSUME NEW s \in Seq(E), NEW e \in E, s \in P PROVE Append(s, e) \in P
  <2> DEFINE v == Visible(s)
             u == Visible(Append(s, e))
  <2>1. /\ v \in Seq(E) /\ u \in Seq(E)
        /\ e.type = "reasoning" => u = v
        /\ e.type # "reasoning" => LongerBy(u, v, e)
    BY VisibleIs
  <2>2. OfType(Append(s, e), types) = IF e.type \in types THEN Append(OfType(s, types), e)
                                      ELSE OfType(s, types)
    BY <1>0
  <2>3. Append(s, e) \in Seq(E)
    BY AppendProperties
  <2>4. Seen(s) => \E i \in DOMAIN v : v[i].type = "function_call"
    OBVIOUS
  <2> SUFFICES ASSUME OfType(Append(s, e), types) # <<>>
               PROVE  \E i \in DOMAIN u : u[i].type = "function_call"
    BY <2>3
  <2> HIDE DEF v, u
  <2>5. Len(v) \in Nat /\ DOMAIN v = 1..Len(v) /\ Len(u) \in Nat /\ DOMAIN u = 1..Len(u)
    BY <2>1, LenProperties
  <2>6. CASE e.type = "function_call"
    <3>1. Len(u) \in DOMAIN u /\ u[Len(u)] = e
      BY <2>1, <2>5, <2>6 DEF LongerBy
    <3> QED BY <2>6, <3>1
  <2>7. CASE e.type # "function_call"
    <3>1. PICK i \in DOMAIN v : v[i].type = "function_call"
      BY <1>2, <2>2, <2>4, <2>7
    <3>2. i \in DOMAIN u /\ u[i] = v[i]
      <4>1. CASE e.type = "reasoning"
        BY <2>1, <3>1, <4>1
      <4>2. CASE e.type # "reasoning"
        <5>1. LongerBy(u, v, e)
          BY <2>1, <4>2
        <5> QED BY <2>5, <3>1, <5>1 DEF LongerBy
      <4> QED BY <4>1, <4>2
    <3> QED BY <3>1, <3>2
  <2> QED BY <2>6, <2>7
<1> HIDE DEF P, E
<1>3. Seq(E) \subseteq P
  BY <1>1, <1>2, AppendInduction
<1> QED BY <1>3 DEF P, E

\* A text after a call stays one, and a text after any call is one.
LEMMA BrokenAfter ==
    ASSUME NEW p \in Seq(AnswerItem), NEW x \in AnswerItem
    PROVE  /\ Broken(p) => Broken(Append(p, x))
           /\ x.type = "message" /\ OfType(p, {"function_call"}) # <<>> => Broken(Append(p, x))
<1> DEFINE v == Visible(p)
           u == Visible(Append(p, x))
<1>1. Broken(Append(p, x)) <=> \E i, j \in DOMAIN u :
        i < j /\ u[i].type = "function_call" /\ u[j].type = "message"
  BY DEF Broken
<1>2. Broken(p) <=> \E i, j \in DOMAIN v :
        i < j /\ v[i].type = "function_call" /\ v[j].type = "message"
  BY DEF Broken
<1>3. /\ v \in Seq(AnswerItem) /\ u \in Seq(AnswerItem)
      /\ x.type = "reasoning" => u = v
      /\ x.type # "reasoning" => LongerBy(u, v, x)
  BY VisibleIs
<1>4. OfType(p, {"function_call"}) # <<>> => \E i \in DOMAIN v : v[i].type = "function_call"
  BY CallSeen
<1> HIDE DEF v, u
<1>5. Len(v) \in Nat /\ DOMAIN v = 1..Len(v) /\ Len(u) \in Nat /\ DOMAIN u = 1..Len(u)
  BY <1>3, LenProperties
<1>6. \A i \in DOMAIN v : i \in DOMAIN u /\ u[i] = v[i]
  <2>1. CASE x.type = "reasoning"
    BY <1>3, <2>1
  <2>2. CASE x.type # "reasoning"
    <3>1. LongerBy(u, v, x)
      BY <1>3, <2>2
    <3> QED BY <1>5, <3>1 DEF LongerBy
  <2> QED BY <2>1, <2>2
<1>7. ASSUME Broken(p) PROVE Broken(Append(p, x))
  BY <1>1, <1>2, <1>6, <1>7
<1>8. ASSUME x.type = "message", OfType(p, {"function_call"}) # <<>> PROVE Broken(Append(p, x))
  <2>1. PICK i \in DOMAIN v : v[i].type = "function_call"
    BY <1>4, <1>8
  <2>2. Len(u) \in DOMAIN u /\ u[Len(u)] = x /\ i < Len(u)
    BY <1>3, <1>5, <1>8, <2>1 DEF LongerBy
  <2> QED BY <1>1, <1>6, <1>8, <2>1, <2>2
<1> QED BY <1>7, <1>8

CallsOf(items) == Calls(OfType(items, {"function_call"}))

WordsOf(items) == Texts(OfType(items, {"message"}))

\* The calls and the words of some items, and of one item more.
LEMMA ContentIs ==
    /\ CallsOf(<<>>) = <<>> /\ WordsOf(<<>>) = <<>>
    /\ \A p \in Seq(AnswerItem) :
         /\ CallsOf(p) \in Seq(Nat) /\ WordsOf(p) \in Seq(Nat)
         /\ CallsOf(p) # <<>> => OfType(p, {"function_call"}) # <<>>
    /\ \A p \in Seq(AnswerItem) : \A x \in AnswerItem :
         /\ CallsOf(Append(p, x)) = IF x.type = "function_call" THEN Append(CallsOf(p), x.call)
                                    ELSE CallsOf(p)
         /\ WordsOf(Append(p, x)) = IF x.type = "message" THEN WordsOf(p) \o x.text
                                    ELSE WordsOf(p)
<1> DEFINE E == AnswerItem
           calls == {"function_call"}
           words == {"message"}
<1>1. \A e \in E : e.text \in Seq(Nat) /\ e.call \in Nat
  BY Zenon DEF AnswerItem, HistoryItem
<1>2. \A x : (x \in calls <=> x = "function_call") /\ (x \in words <=> x = "message")
  OBVIOUS
<1>3. \A s : CallsOf(s) = Calls(OfType(s, calls)) /\ WordsOf(s) = Texts(OfType(s, words))
  BY DEF CallsOf, WordsOf
<1> SUFFICES /\ CallsOf(<<>>) = <<>> /\ WordsOf(<<>>) = <<>>
             /\ \A p \in Seq(E) :
                  /\ CallsOf(p) \in Seq(Nat) /\ WordsOf(p) \in Seq(Nat)
                  /\ CallsOf(p) # <<>> => OfType(p, calls) # <<>>
             /\ \A p \in Seq(E) : \A x \in E :
                  /\ CallsOf(Append(p, x)) = IF x.type \in calls THEN Append(CallsOf(p), x.call)
                                             ELSE CallsOf(p)
                  /\ WordsOf(Append(p, x)) = IF x.type \in words THEN WordsOf(p) \o x.text
                                             ELSE WordsOf(p)
  BY <1>2
<1> HIDE DEF E, calls, words
<1>4. /\ Texts(<<>>) = <<>> /\ Calls(<<>>) = <<>>
      /\ \A s \in Seq(E) : Texts(s) \in Seq(Nat) /\ Calls(s) \in Seq(Nat)
      /\ \A s \in Seq(E) : \A e \in E :
           /\ Texts(Append(s, e)) = Texts(s) \o e.text
           /\ Calls(Append(s, e)) = Append(Calls(s), e.call)
  BY <1>1, TextsIs
<1>5. ASSUME NEW types
      PROVE  /\ OfType(<<>>, types) = <<>>
             /\ \A s \in Seq(E) : OfType(s, types) \in Seq(E)
             /\ \A s \in Seq(E) : \A e \in E :
                  OfType(Append(s, e), types) =
                    IF e.type \in types THEN Append(OfType(s, types), e) ELSE OfType(s, types)
  BY OfTypeIs
<1>6. CallsOf(<<>>) = <<>> /\ WordsOf(<<>>) = <<>>
  BY <1>3, <1>4, <1>5
<1>7. ASSUME NEW p \in Seq(E)
      PROVE  /\ CallsOf(p) \in Seq(Nat) /\ WordsOf(p) \in Seq(Nat)
             /\ CallsOf(p) # <<>> => OfType(p, calls) # <<>>
  BY <1>3, <1>4, <1>5
<1>8. ASSUME NEW p \in Seq(E), NEW x \in E
      PROVE  CallsOf(Append(p, x)) = IF x.type \in calls THEN Append(CallsOf(p), x.call)
                                     ELSE CallsOf(p)
  <2>1. OfType(p, calls) \in Seq(E)
    BY <1>5
  <2>2. OfType(Append(p, x), calls) = IF x.type \in calls THEN Append(OfType(p, calls), x)
                                      ELSE OfType(p, calls)
    BY <1>5
  <2> QED BY <1>3, <1>4, <2>1, <2>2
<1>9. ASSUME NEW p \in Seq(E), NEW x \in E
      PROVE  WordsOf(Append(p, x)) = IF x.type \in words THEN WordsOf(p) \o x.text
                                     ELSE WordsOf(p)
  <2>1. OfType(p, words) \in Seq(E)
    BY <1>5
  <2>2. OfType(Append(p, x), words) = IF x.type \in words THEN Append(OfType(p, words), x)
                                      ELSE OfType(p, words)
    BY <1>5
  <2> QED BY <1>3, <1>4, <2>1, <2>2
<1> QED BY <1>6, <1>7, <1>8, <1>9

\* A message that neither calls nor answers.
PlainChat == {m \in Chat : m.calls = <<>> /\ m.role # "tool"}

\* All the calls of the items are in the last message, whatever the assistant has said is in
\* the history, and calls have a text next to them only when one followed them.
Good(p, out) ==
    \E front \in Seq(PlainChat), m \in Chat :
        /\ out = Append(front, m)
        /\ m.role # "tool"
        /\ m.calls # <<>> => m.role = "assistant" /\ m.reasoning # <<>>
        /\ m.calls = CallsOf(p)
        /\ Said(front) \o Spoken(m) = WordsOf(p)
        /\ m.calls # <<>> /\ m.content # <<>> => Broken(p)

\* What an item does to such a history.
LEMMA GoodStep ==
    ASSUME NEW s \in State, NEW p \in Seq(AnswerItem), NEW x \in AnswerItem,
           CallsTogether(Append(p, x)), Good(p, s.out)
    PROVE  Good(Append(p, x), AddItem(s, x).out)
<1> DEFINE c == CallsOf(p)
           w == WordsOf(p)
           c2 == CallsOf(Append(p, x))
           w2 == WordsOf(Append(p, x))
           out == AddItem(s, x).out
           before == Broken(p)
           after == Broken(Append(p, x))
<1>1. PICK front \in Seq(PlainChat), m \in Chat :
        /\ s.out = Append(front, m) /\ m.role # "tool"
        /\ m.calls # <<>> => m.role = "assistant" /\ m.reasoning # <<>>
        /\ m.calls = c /\ Said(front) \o Spoken(m) = w
        /\ m.calls # <<>> /\ m.content # <<>> => before
  BY DEF Good
<1>2. /\ c2 = IF x.type = "function_call" THEN Append(c, x.call) ELSE c
      /\ w2 = IF x.type = "message" THEN w \o x.text ELSE w
      /\ c \in Seq(Nat) /\ w \in Seq(Nat)
  BY ContentIs
<1>3. /\ x.type # "reasoning" => ~before
      /\ before => after
      /\ x.type = "message" /\ c # <<>> => after
  BY TogetherBefore, BrokenAfter, ContentIs
<1>4. x \in HistoryItem /\ x.type # "function_call_output"
      /\ (x.type = "message" => x.role = "assistant") /\ x.text \in Seq(Nat) /\ x.call \in Nat
  BY Zenon DEF AnswerItem, HistoryItem
<1>5. ASSUME NEW f \in Seq(PlainChat), NEW m2 \in Chat, out = Append(f, m2), m2.role # "tool",
             m2.calls # <<>> => m2.role = "assistant" /\ m2.reasoning # <<>>,
             m2.calls = c2, Said(f) \o Spoken(m2) = w2,
             m2.calls # <<>> /\ m2.content # <<>> => after
      PROVE  Good(Append(p, x), out)
  BY <1>5 DEF Good
<1> SUFFICES Good(Append(p, x), out)
  OBVIOUS
<1> HIDE DEF c, w, c2, w2, out, before, after
<1>6. front \in Seq(Chat)
  BY SeqMonotonic DEF PlainChat
<1>7. /\ Said(front) \in Seq(Nat) /\ Spoken(m) \in Seq(Nat) /\ m.content \in Seq(Nat)
      /\ s.out \in Seq(Chat) /\ Said(s.out) = w
  BY <1>1, <1>6, SaidIs, EmptySeq DEF State, Spoken, Chat
<1>8. Joinable(s.out) <=> m.role = "assistant" /\ m.calls # <<>> /\ m.content = <<>>
  <2>1. s.out # <<>> /\ s.out[Len(s.out)] = m
    BY <1>1, <1>6, LastIs
  <2>2. Joinable(s.out) <=>
          /\ s.out # <<>>
          /\ s.out[Len(s.out)].role = "assistant" /\ s.out[Len(s.out)].calls # <<>>
          /\ s.out[Len(s.out)].content = <<>>
    BY DEF Joinable
  <2> QED BY Zenon, <2>1, <2>2
<1>9. m.calls = <<>> => s.out \in Seq(PlainChat)
  BY <1>1, AppendProperties DEF PlainChat
<1>10. CASE x.type = "reasoning" \/ (x.type = "message" /\ x.text = <<>>)
  <2>1. out = s.out
    BY <1>4, <1>10, NothingAdded DEF out
  <2>2. c2 = c /\ w2 = w
    BY <1>2, <1>10, ConcatEmptySeq
  <2> QED BY <1>1, <1>3, <1>5, <2>1, <2>2
<1>11. CASE x.type = "message" /\ x.text # <<>>
  <2>1. c2 = c /\ w2 = w \o x.text /\ ~before
    BY <1>2, <1>3, <1>11
  <2>2. CASE Joinable(s.out)
    <3>1. PICK m2 \in Chat : out = Append(front, m2) /\ m2 = [m EXCEPT !.content = x.text]
      BY SMTT(40), <1>1, <1>4, <1>6, <1>8, <1>11, <2>2, TextJoins DEF out
    <3>2. m2.role = m.role /\ m2.calls = m.calls /\ m2.reasoning = m.reasoning /\ Spoken(m2) = x.text
      BY <1>8, <2>2, <3>1 DEF Chat, Spoken
    <3>3. Said(front) = w
      BY <1>1, <1>7, <1>8, <2>2, ConcatEmptySeq DEF Spoken
    <3>4. after
      BY <1>1, <1>3, <1>8, <1>11, <2>2
    <3> QED BY <1>1, <1>5, <2>1, <3>1, <3>2, <3>3, <3>4
  <2>3. CASE ~Joinable(s.out)
    <3>1. m.calls = <<>>
      BY <1>1, <1>8, <2>1, <2>3
    <3>2. PICK m2 \in Chat : /\ out = Append(s.out, m2) /\ m2.role = "assistant"
                             /\ m2.content = x.text /\ m2.calls = <<>>
      BY <1>4, <1>11, <2>3, TextAppends DEF out
    <3>3. Said(s.out) \o Spoken(m2) = w2
      BY <1>7, <2>1, <3>2 DEF Spoken
    <3> QED BY <1>1, <1>5, <1>9, <2>1, <3>1, <3>2, <3>3
  <2> QED BY <2>2, <2>3
<1>12. CASE x.type = "function_call"
  <2>1. c2 = Append(c, x.call) /\ w2 = w /\ ~before
    BY <1>2, <1>3, <1>12
  <2>2. CASE Joinable(s.out)
    <3>1. PICK m2 \in Chat : /\ out = Append(front, m2)
                             /\ m2 = [m EXCEPT !.calls = Append(m.calls, x.call)]
      <4>1. /\ s.out = Append(front, m) /\ m.role = "assistant" /\ m.calls # <<>>
            /\ m.content = <<>> /\ x \in HistoryItem
        BY <1>1, <1>4, <1>8, <2>2
      <4> QED BY <1>6, <1>12, <4>1, CallJoins DEF out
    <3>2. /\ m2.role = m.role /\ m2.calls = c2 /\ m2.reasoning = m.reasoning
          /\ m2.content = <<>> /\ Spoken(m2) = Spoken(m)
      BY <1>1, <1>8, <2>1, <2>2, <3>1 DEF Chat, Spoken
    <3> QED BY <1>1, <1>5, <1>8, <2>1, <2>2, <3>1, <3>2
  <2>3. CASE ~Joinable(s.out)
    <3>1. m.calls = <<>>
      BY <1>1, <1>8, <2>1, <2>3
    <3>2. PICK m2 \in Chat : /\ out = Append(s.out, m2) /\ m2.role = "assistant"
                             /\ m2.content = <<>> /\ m2.calls = <<x.call>> /\ m2.reasoning # <<>>
      BY <1>4, <1>12, <2>3, CallAppends DEF out
    <3>3. c2 = <<x.call>>
      BY <1>1, <2>1, <3>1
    <3>4. Said(s.out) \o Spoken(m2) = w2
      BY <1>2, <1>7, <2>1, <3>2, ConcatEmptySeq DEF Spoken
    <3> QED BY <1>5, <1>9, <3>1, <3>2, <3>3, <3>4
  <2> QED BY <2>2, <2>3
<1>13. \/ x.type = "reasoning" \/ x.type = "message" \/ x.type = "function_call"
  BY Zenon, <1>4 DEF HistoryItem
<1> QED BY <1>10, <1>11, <1>12, <1>13

Question == [type |-> "message", role |-> "user", text |-> <<1>>, call |-> 0]

\* The user's question is where the history starts.
LEMMA GoodStart ==
    /\ Question \in HistoryItem /\ <<Question>> \in Seq(HistoryItem)
    /\ Good(<<>>, Reading(<<Question>>).out)
<1> DEFINE q == Question
           s == Nothing
<1>1. /\ q \in HistoryItem /\ q.type = "message" /\ q.text # <<>> /\ q.role # "assistant"
  <2>1. <<1>> \in Seq(Nat) /\ <<1>> # <<>>
    OBVIOUS
  <2>2. 0 \in Nat
    OBVIOUS
  <2> QED BY <2>1, <2>2 DEF Question, HistoryItem
<1>2. s \in State /\ s.out = <<>> /\ <<>> \in Seq(Chat)
  BY EmptySeq DEF Nothing, State
<1> HIDE DEF q, s
<1>3. PICK m \in Chat : /\ AddItem(s, q).out = Append(<<>>, m)
                        /\ m.role = "user" /\ m.calls = <<>>
  BY <1>1, <1>2, TextAppends
<1>4. <<q>> = Append(<<>>, q) /\ <<>> \in Seq(HistoryItem)
  BY EmptySeq
<1>5. Reading(<<q>>) = AddItem(s, q)
  BY <1>1, <1>4, ReadIs DEF s
<1>6. Said(<<>>) \o Spoken(m) = WordsOf(<<>>) /\ CallsOf(<<>>) = <<>>
  <2>1. Said(<<>>) = <<>> /\ Spoken(m) = <<>> /\ WordsOf(<<>>) = <<>> /\ CallsOf(<<>>) = <<>>
    BY <1>3, SaidIs, ContentIs DEF Spoken
  <2> QED BY <2>1
<1>7. <<>> \in Seq(PlainChat)
  BY EmptySeq
<1>8. Good(<<>>, Reading(<<q>>).out)
  BY <1>3, <1>5, <1>6, <1>7 DEF Good
<1>9. <<q>> \in Seq(HistoryItem)
  BY <1>1, <1>4, AppendProperties
<1> QED BY <1>1, <1>8, <1>9 DEF q

\* Whatever the items, as long as their calls are together.
LEMMA GoodHistory ==
    ASSUME NEW p \in Seq(AnswerItem), CallsTogether(p)
    PROVE  /\ <<Question>> \o p \in Seq(HistoryItem)
           /\ Good(p, Reading(<<Question>> \o p).out)
<1> DEFINE E == AnswerItem
           b == <<Question>>
           P == {s \in Seq(E) : /\ b \o s \in Seq(HistoryItem)
                                /\ CallsTogether(s) => Good(s, Reading(b \o s).out)}
<1>1. b \in Seq(HistoryItem) /\ Good(<<>>, Reading(b).out)
  BY GoodStart
<1> HIDE DEF b
<1>2. <<>> \in P
  <2>1. b \o <<>> = b /\ <<>> \in Seq(E)
    BY <1>1, ConcatEmptySeq, EmptySeq
  <2> QED BY <1>1, <2>1
<1>3. ASSUME NEW s \in Seq(E), NEW e \in E, s \in P PROVE Append(s, e) \in P
  <2>1. e \in HistoryItem /\ s \in Seq(HistoryItem) /\ b \o s \in Seq(HistoryItem)
    BY <1>3, SeqMonotonic DEF AnswerItem
  <2>2. b \o Append(s, e) = Append(b \o s, e)
    BY <1>1, <2>1, ConcatProperties, AppendProperties
  <2>3. Append(s, e) \in Seq(E) /\ b \o Append(s, e) \in Seq(HistoryItem)
    BY <2>1, <2>2, AppendProperties
  <2>4. Reading(b \o s) \in State /\ Reading(b \o Append(s, e)) = AddItem(Reading(b \o s), e)
    BY <2>1, <2>2, ReadIs
  <2>5. ASSUME CallsTogether(Append(s, e)) PROVE Good(Append(s, e), Reading(b \o Append(s, e)).out)
    <3>1. CallsTogether(s)
      BY <2>5, TogetherBefore
    <3>2. Good(s, Reading(b \o s).out)
      BY <1>3, <3>1
    <3> QED BY <2>4, <2>5, <3>2, GoodStep
  <2> QED BY <2>3, <2>5
<1> HIDE DEF E, P
<1>4. Seq(E) \subseteq P
  BY <1>2, <1>3, AppendInduction
<1> QED BY <1>4 DEF E, P, b

OutputItem == {x \in HistoryItem : x.type = "function_call_output"}

Reply == [x \in OutputItem |-> ToolMessage(x.call, x.text)]

\* The outputs of the tools follow, one message each.
LEMMA OutputsRead ==
    ASSUME NEW p \in Seq(HistoryItem), NEW o \in Seq(OutputItem)
    PROVE  /\ Mapped(Reply, o) \in Seq(Chat)
           /\ ResponsesInputToChat(p \o o) = Reading(p).out \o Mapped(Reply, o)
<1> DEFINE E == OutputItem
           g == Reply
           h == Reading(p).out
           P == {s \in Seq(E) : /\ Mapped(g, s) \in Seq(Chat) /\ p \o s \in Seq(HistoryItem)
                                /\ Reading(p \o s).out = h \o Mapped(g, s)}
<1>1. h \in Seq(Chat)
  BY ReadIs DEF State
<1>2. Maps(g, E, Chat) /\ \A x \in E : g[x] = ToolMessage(x.call, x.text)
  BY OutputAppends, GoodStart, ReadIs DEF Maps, Reply, OutputItem
<1> HIDE DEF g
<1>3. Mapped(g, <<>>) = <<>> /\ \A s \in Seq(E) : Mapped(g, s) \in Seq(Chat)
  <2> HIDE DEF E
  <2> QED BY <1>2, MappedIs
<1>4. \A s \in Seq(E) : \A e \in E : Mapped(g, Append(s, e)) = Append(Mapped(g, s), g[e])
  <2> HIDE DEF E
  <2> QED BY <1>2, MappedIs
<1>5. <<>> \in P
  <2>1. p \o <<>> = p /\ <<>> \in Seq(E) /\ h \o <<>> = h
    BY <1>1, ConcatEmptySeq, EmptySeq
  <2> QED BY <1>3, <2>1
<1>6. ASSUME NEW s \in Seq(E), NEW e \in E, s \in P PROVE Append(s, e) \in P
  <2> DEFINE m == g[e]
             t == Mapped(g, s)
  <2>1. e \in HistoryItem /\ s \in Seq(HistoryItem) /\ p \o s \in Seq(HistoryItem)
    BY <1>6, SeqMonotonic DEF OutputItem
  <2>2. p \o Append(s, e) = Append(p \o s, e)
    BY <2>1, ConcatProperties, AppendProperties
  <2>3. Append(s, e) \in Seq(E) /\ p \o Append(s, e) \in Seq(HistoryItem)
    BY <2>1, <2>2, AppendProperties
  <2>4. /\ Reading(p \o s) \in State
        /\ Reading(p \o Append(s, e)) = AddItem(Reading(p \o s), e)
    BY <2>1, <2>2, ReadIs
  <2>5. /\ AddItem(Reading(p \o s), e).out = Append(Reading(p \o s).out, m)
        /\ m \in Chat
    BY <1>2, <2>1, <2>4, OutputAppends DEF OutputItem
  <2>6. t \in Seq(Chat) /\ Mapped(g, Append(s, e)) = Append(t, m) /\ Reading(p \o s).out = h \o t
    BY <1>3, <1>4, <1>6
  <2> HIDE DEF h, t, m
  <2>7. h \o Append(t, m) = Append(h \o t, m) /\ Append(t, m) \in Seq(Chat)
    BY <1>1, <2>5, <2>6, ConcatProperties, AppendProperties
  <2>8. /\ Mapped(g, Append(s, e)) \in Seq(Chat)
        /\ Reading(p \o Append(s, e)).out = h \o Mapped(g, Append(s, e))
    BY <2>4, <2>5, <2>6, <2>7
  <2> QED BY <2>3, <2>8 DEF h
<1> HIDE DEF P, E
<1>7. Seq(E) \subseteq P
  BY <1>5, <1>6, AppendInduction
<1>8. p \o o \in Seq(HistoryItem) /\ Reading(p \o o).out = h \o Mapped(g, o)
  BY <1>7 DEF P, E
<1> QED BY <1>3, <1>8, ReadIs DEF E, g

\* A history with calls in one message, their answers after it, and nothing else of the kind.
LEMMA AcceptedIs ==
    ASSUME NEW h \in Seq(Chat), NEW k \in 0..Len(h), NEW l \in Nat, k + l <= Len(h),
           NEW ids \in Seq(Nat), Len(ids) = l, k = 0 => l = 0,
           \A i \in 1..k : h[i].role # "tool" /\ (i < k => h[i].calls = <<>>),
           k # 0 => h[k].calls = ids /\ (ids # <<>> => h[k].reasoning # <<>>),
           \A i \in 1..l : h[k + i].role = "tool" /\ h[k + i].answers = ids[i]
                           /\ h[k + i].calls = <<>>,
           \A i \in (k + l + 1)..Len(h) : h[i].role # "tool" /\ h[i].calls = <<>>
    PROVE  Accepted(h)
<1> DEFINE Follows(j, i) == i < j /\ \A r \in (i + 1)..j : h[r].role = "tool"
           d == Len(h)
<1>1. d \in Nat /\ DOMAIN h = 1..d /\ k \in 0..d /\ DOMAIN ids = 1..l
  BY LenProperties
<1> HIDE DEF d
<1>2. ASSUME NEW i \in 1..d, h[i].calls # <<>> PROVE i = k /\ k # 0 /\ h[i].calls = ids
  <2>1. ~(i < k)
    BY <1>1, <1>2
  <2>2. ~(i \in (k + l + 1)..d)
    BY <1>2 DEF d
  <2>3. ASSUME i \in (k + 1)..(k + l) PROVE FALSE
    <3>1. i - k \in 1..l /\ k + (i - k) = i
      BY <1>1, <2>3
    <3> QED BY <1>2, <3>1
  <2> QED BY <1>1, <2>1, <2>2, <2>3
<1>3. ASSUME NEW j \in 1..d, h[j].role = "tool"
      PROVE  \E i \in 1..l : j = k + i /\ k # 0
  <2>1. ~(j \in 1..k) /\ ~(j \in (k + l + 1)..d)
    BY <1>3 DEF d
  <2>2. j - k \in 1..l /\ j = k + (j - k) /\ k # 0
    BY <1>1, <2>1
  <2> QED BY <2>2
<1>4. ASSUME NEW i \in 1..l, k # 0
      PROVE  k + i \in 1..d /\ h[k + i].answers = ids[i] /\ Follows(k + i, k)
  <2>1. k + i \in 1..d /\ k < k + i
    BY <1>1 DEF d
  <2>2. ASSUME NEW r \in (k + 1)..(k + i) PROVE h[r].role = "tool"
    <3>1. r - k \in 1..l /\ k + (r - k) = r
      BY <1>1
    <3> QED BY <3>1
  <2> QED BY <2>1, <2>2
<1> HIDE DEF Follows
<1>5. ASSUME NEW i \in 1..d, NEW r \in DOMAIN h[i].calls
      PROVE  \E j \in 1..d : h[j].answers = h[i].calls[r] /\ Follows(j, i)
  <2>1. h[i].calls # <<>>
    <3>1. DOMAIN <<>> = {}
      OBVIOUS
    <3> QED BY <1>5, <3>1
  <2>2. i = k /\ k # 0 /\ h[i].calls = ids
    BY <1>2, <2>1
  <2>3. r \in 1..l
    BY <1>1, <2>2
  <2> QED BY <1>4, <2>2, <2>3
<1>6. ASSUME NEW j \in 1..d, h[j].role = "tool"
      PROVE  \E i \in 1..d : \E r \in DOMAIN h[i].calls :
               h[j].answers = h[i].calls[r] /\ Follows(j, i)
  <2>1. PICK i \in 1..l : j = k + i /\ k # 0
    BY <1>3, <1>6
  <2>2. k \in 1..d /\ h[k].calls = ids /\ i \in DOMAIN ids
    BY <1>1, <2>1
  <2> QED BY <1>4, <2>1, <2>2
<1>7. ASSUME NEW i \in 1..d, h[i].calls # <<>> PROVE h[i].reasoning # <<>>
  BY <1>2, <1>7
<1>8. Accepted(h) <=>
        /\ \A i \in DOMAIN h : \A r \in DOMAIN h[i].calls :
             \E j \in DOMAIN h : h[j].answers = h[i].calls[r] /\ Follows(j, i)
        /\ \A j \in DOMAIN h : h[j].role = "tool" =>
             \E i \in DOMAIN h : \E r \in DOMAIN h[i].calls :
                h[j].answers = h[i].calls[r] /\ Follows(j, i)
        /\ \A i \in DOMAIN h : h[i].calls # <<>> => h[i].reasoning # <<>>
  BY Zenon DEF Accepted, Follows
<1> QED BY <1>1, <1>5, <1>6, <1>7, <1>8

----------------------------------------------------------------------------
(* Good histories are accepted *)

\* Messages without calls call nothing.
LEMMA PlainCalled ==
    ASSUME NEW t \in Seq(PlainChat)
    PROVE  t \in Seq(Chat) /\ Called(t) = <<>>
<1> DEFINE E == PlainChat
           P == {s \in Seq(E) : Called(s) = <<>>}
<1>1. <<>> \in P
  BY CalledIs, EmptySeq
<1>2. ASSUME NEW s \in Seq(E), NEW e \in E, s \in P PROVE Append(s, e) \in P
  <2>1. s \in Seq(Chat) /\ e \in Chat /\ e.calls = <<>> /\ Called(s) = <<>>
    BY <1>2, SeqMonotonic DEF PlainChat
  <2>2. Called(Append(s, e)) = Called(s) \o e.calls
    BY <2>1, CalledIs
  <2>3. Called(Append(s, e)) = <<>> /\ Append(s, e) \in Seq(E)
    BY <2>1, <2>2, AppendProperties
  <2> QED BY <2>3
<1> HIDE DEF E, P
<1>3. Seq(E) \subseteq P
  BY <1>1, <1>2, AppendInduction
<1>4. PlainChat \subseteq Chat
  BY DEF PlainChat
<1> QED BY <1>3, <1>4, SeqMonotonic DEF E, P

Quiet == {m \in Chat : Spoken(m) = <<>> /\ m.calls = <<>>}

\* The result of a call.
LEMMA OutputIs ==
    ASSUME NEW x \in HistoryItem
    PROVE  LET o == [x EXCEPT !.type = "function_call_output", !.text = <<1>>] IN
           o \in OutputItem /\ o.call = x.call /\ o.text = <<1>>
<1> DEFINE o == [x EXCEPT !.type = "function_call_output", !.text = <<1>>]
<1>1. <<1>> \in Seq(Nat)
  OBVIOUS
<1>2. x \in [type : {"message", "reasoning", "function_call", "function_call_output"},
             role : {"", "user", "assistant"}, text : Seq(Nat), call : Nat]
  BY Zenon DEF HistoryItem
<1> QED BY Zenon, <1>1, <1>2 DEF OutputItem, HistoryItem

\* What takes the place of the elements of a sequence.
LEMMA InPlace ==
    ASSUME NEW E, NEW F, NEW c \in Seq(E), NEW f, f = [i \in DOMAIN c |-> f[i]],
           \A i \in DOMAIN c : f[i] \in F
    PROVE  /\ f \in Seq(F) /\ Len(f) = Len(c) /\ DOMAIN c = 1..Len(c)
           /\ \A i \in 1..Len(c) : c[i] \in E
<1>1. Len(c) \in Nat /\ DOMAIN c = 1..Len(c) /\ \A i \in 1..Len(c) : c[i] \in E
  BY LenProperties, ElementOfSeq
<1>2. f \in [1..Len(c) -> F]
  BY <1>1
<1> QED BY <1>1, <1>2, SeqOf

\* A result for every call, in the place of the call.
LEMMA OutputsAre ==
    ASSUME NEW c \in Seq({x \in HistoryItem : x.type = "function_call"})
    PROVE  LET o == [i \in DOMAIN c |-> [c[i] EXCEPT !.type = "function_call_output",
                                                    !.text = <<1>>]]
           IN /\ o \in Seq(OutputItem) /\ Len(o) = Len(c)
              /\ \A i \in 1..Len(c) : o[i].call = c[i].call /\ o[i].text = <<1>>
<1> DEFINE r(x) == [x EXCEPT !.type = "function_call_output", !.text = <<1>>]
           f == [i \in DOMAIN c |-> r(c[i])]
           E == {x \in HistoryItem : x.type = "function_call"}
<1> SUFFICES /\ f \in Seq(OutputItem) /\ Len(f) = Len(c)
             /\ \A i \in 1..Len(c) : f[i].call = c[i].call /\ f[i].text = <<1>>
  BY Zenon
<1>1. ASSUME NEW x \in E PROVE r(x) \in OutputItem /\ r(x).call = x.call /\ r(x).text = <<1>>
  BY Zenon, OutputIs
<1>2. \A i \in DOMAIN c : f[i] = r(c[i])
  BY Zenon
<1>3. f = [i \in DOMAIN c |-> f[i]]
  BY Zenon
<1>4. c \in Seq(E)
  OBVIOUS
<1> HIDE DEF r, f, E
<1>5. DOMAIN c = 1..Len(c) /\ \A i \in DOMAIN c : c[i] \in E
  BY <1>4, LenProperties, ElementOfSeq
<1>6. \A i \in DOMAIN c : f[i] \in OutputItem /\ f[i].call = c[i].call /\ f[i].text = <<1>>
  BY <1>1, <1>2, <1>5
<1>7. f \in Seq(OutputItem) /\ Len(f) = Len(c)
  BY <1>3, <1>4, <1>6, InPlace
<1> QED BY <1>5, <1>6, <1>7

\* The results of the tools as messages: they answer the calls of some items, in their order.
LEMMA RepliesAre ==
    ASSUME NEW c \in Seq(HistoryItem), NEW o \in Seq(OutputItem), Len(o) = Len(c),
           \A i \in 1..Len(c) : o[i].call = c[i].call /\ o[i].text = << 1 >>
    PROVE  /\ Mapped(Reply, o) \in Seq(Quiet) /\ Len(Mapped(Reply, o)) = Len(c)
           /\ \A i \in 1..Len(c) : /\ Mapped(Reply, o)[i].role = "tool"
                                   /\ Mapped(Reply, o)[i].answers = c[i].call
                                   /\ Mapped(Reply, o)[i].calls = <<>>
<1> DEFINE t == Mapped(Reply, o)
           l == Len(c)
<1>1. /\ l \in Nat /\ DOMAIN o = 1..l
      /\ \A i \in 1..l : o[i] \in OutputItem /\ c[i] \in HistoryItem
  BY LenProperties, ElementOfSeq
<1>2. DOMAIN t = 1..l /\ t = [i \in 1..l |-> t[i]] /\ \A i \in 1..l : t[i] = Reply[o[i]]
  BY <1>1 DEF Mapped
<1>3. \A i \in 1..l : o[i].call = c[i].call /\ o[i].text = <<1>>
  OBVIOUS
<1> HIDE DEF t, l
<1>4. \A i \in 1..l : t[i] = ToolMessage(c[i].call, <<1>>)
  BY <1>1, <1>2, <1>3 DEF Reply
<1>5. ASSUME NEW i \in 1..l
      PROVE  t[i] \in Quiet /\ t[i].role = "tool" /\ t[i].answers = c[i].call /\ t[i].calls = <<>>
  <2>1. c[i].call \in Nat
    BY Zenon, <1>1 DEF HistoryItem
  <2>2. <<1>> \in Seq(Nat) /\ <<>> \in Seq(Nat)
    OBVIOUS
  <2>3. t[i] = [role |-> "tool", content |-> <<1>>, calls |-> <<>>, answers |-> c[i].call,
                reasoning |-> <<>>]
    BY <1>4, <2>1, <2>2, MessageIs
  <2> QED BY <2>1, <2>2, <2>3 DEF Quiet, Chat, Spoken
<1>6. t \in [1..l -> Quiet]
  BY <1>2, <1>5
<1>7. t \in Seq(Quiet) /\ Len(t) = l
  BY <1>1, <1>6, SeqOf
<1> QED BY <1>5, <1>7 DEF t, l

\* Two histories, one after the other, element by element.
LEMMA ConcatIs ==
    ASSUME NEW E, NEW a \in Seq(E), NEW b \in Seq(E)
    PROVE  /\ a \o b \in Seq(E) /\ Len(a \o b) = Len(a) + Len(b)
           /\ \A i \in 1..Len(a) : (a \o b)[i] = a[i]
           /\ \A i \in 1..Len(b) : (a \o b)[Len(a) + i] = b[i]
<1>1. Len(a) \in Nat /\ Len(b) \in Nat
  BY LenProperties
<1>2. /\ a \o b \in Seq(E) /\ Len(a \o b) = Len(a) + Len(b)
      /\ \A i \in 1..(Len(a) + Len(b)) : (a \o b)[i] = IF i <= Len(a) THEN a[i] ELSE b[i - Len(a)]
  BY ConcatProperties
<1> QED BY <1>1, <1>2

\* The items chosen have one of the types chosen from.
LEMMA OfTypeOnly ==
    ASSUME NEW E, NEW types, NEW s \in Seq(E)
    PROVE  OfType(s, types) \in Seq({e \in E : e.type \in types})
<1> DEFINE F == {e \in E : e.type \in types}
           P == {p \in Seq(E) : OfType(p, types) \in Seq(F)}
<1>1. OfType(<<>>, types) = <<>>
  BY OfTypeIs
<1>2. \A p \in Seq(E) : \A e \in E :
        OfType(Append(p, e), types) = IF e.type \in types THEN Append(OfType(p, types), e)
                                      ELSE OfType(p, types)
  BY OfTypeIs
<1>3. <<>> \in P
  BY <1>1, EmptySeq
<1>4. ASSUME NEW p \in Seq(E), NEW e \in E, p \in P PROVE Append(p, e) \in P
  <2>1. OfType(p, types) \in Seq(F) /\ Append(p, e) \in Seq(E)
    BY <1>4, AppendProperties
  <2>2. e.type \in types => e \in F
    OBVIOUS
  <2> HIDE DEF F
  <2>3. OfType(Append(p, e), types) = IF e.type \in types THEN Append(OfType(p, types), e)
                                      ELSE OfType(p, types)
    BY <1>2
  <2>4. e.type \in types => Append(OfType(p, types), e) \in Seq(F)
    BY <2>1, <2>2, AppendProperties
  <2>5. OfType(Append(p, e), types) \in Seq(F)
    BY <2>1, <2>3, <2>4
  <2> QED BY <2>1, <2>5
<1> HIDE DEF P
<1>5. Seq(E) \subseteq P
  BY <1>3, <1>4, AppendInduction
<1> QED BY <1>5 DEF P

\* A good history with the results of its calls after it is accepted, and nothing is lost.
LEMMA GoodAccepted ==
    ASSUME NEW p \in Seq(AnswerItem), NEW out, Good(p, out), NEW t \in Seq(Quiet),
           Len(t) = Len(CallsOf(p)),
           \A i \in 1..Len(t) : t[i].role = "tool" /\ t[i].answers = CallsOf(p)[i]
    PROVE  Accepted(out \o t) /\ Said(out \o t) = WordsOf(p) /\ Called(out \o t) = CallsOf(p)
<1>1. PICK front \in Seq(PlainChat), m \in Chat :
        /\ out = Append(front, m) /\ m.role # "tool"
        /\ m.calls # <<>> => m.reasoning # <<>>
        /\ m.calls = CallsOf(p) /\ Said(front) \o Spoken(m) = WordsOf(p)
  BY DEF Good
<1> DEFINE h == out \o t
           k == Len(front) + 1
           l == Len(t)
           ids == m.calls
<1>2. front \in Seq(Chat) /\ Called(front) = <<>> /\ ids \in Seq(Nat)
  BY PlainCalled DEF Chat
<1>3. out \in Seq(Chat) /\ Said(out) = WordsOf(p) /\ Called(out) = CallsOf(p)
  <2>1. out \in Seq(Chat)
    BY <1>1, <1>2, AppendProperties
  <2>2. Said(out) = Said(front) \o Spoken(m) /\ Called(out) = Called(front) \o m.calls
    BY <1>1, <1>2, SaidIs, CalledIs
  <2>3. Called(out) = m.calls
    BY <1>2, <2>2, ConcatEmptySeq
  <2> QED BY <1>1, <2>1, <2>2, <2>3
<1>4. h \in Seq(Chat) /\ Said(h) = Said(out) /\ Called(h) = Called(out)
  BY <1>3, Silent DEF Quiet
<1>5. t \in Seq(Chat) /\ l \in Nat /\ \A i \in 1..l : t[i] \in Quiet
  BY SeqMonotonic, LenProperties, ElementOfSeq DEF Quiet
<1>6. /\ Len(front) \in Nat /\ Len(out) = k /\ out[k] = m
      /\ \A i \in 1..Len(front) : out[i] = front[i] /\ front[i] \in PlainChat
  BY <1>1, <1>2, AppendProperties, LenProperties, ElementOfSeq
<1>7. Len(h) = k + l /\ (\A i \in 1..k : h[i] = out[i]) /\ \A i \in 1..l : h[k + i] = t[i]
  <2>1. /\ Len(out \o t) = Len(out) + Len(t)
        /\ \A i \in 1..Len(out) : (out \o t)[i] = out[i]
        /\ \A i \in 1..Len(t) : (out \o t)[Len(out) + i] = t[i]
    <3>1. out \in Seq(Chat) /\ t \in Seq(Chat)
      BY <1>3, <1>5
    <3>2. \A a, b \in Seq(Chat) :
            /\ Len(a \o b) = Len(a) + Len(b)
            /\ \A i \in 1..Len(a) : (a \o b)[i] = a[i]
            /\ \A i \in 1..Len(b) : (a \o b)[Len(a) + i] = b[i]
      BY ConcatIs
    <3> QED BY <3>1, <3>2
  <2>2. Len(out) = k
    BY <1>6
  <2> HIDE DEF k
  <2> QED BY <2>1, <2>2
<1>8. ASSUME NEW i \in 1..k PROVE h[i].role # "tool" /\ (i < k => h[i].calls = <<>>)
  <2>1. CASE i = k
    BY <1>1, <1>6, <1>7, <2>1
  <2>2. CASE i # k
    <3>1. i \in 1..Len(front)
      BY <1>6, <2>2
    <3>2. h[i] \in PlainChat
      BY <1>6, <1>7, <3>1
    <3> QED BY <3>2 DEF PlainChat
  <2> QED BY <2>1, <2>2
<1>9. ASSUME NEW i \in 1..l
      PROVE  h[k + i].role = "tool" /\ h[k + i].answers = ids[i] /\ h[k + i].calls = <<>>
  <2>1. h[k + i] = t[i] /\ t[i] \in Quiet /\ t[i].role = "tool" /\ t[i].answers = ids[i]
    BY <1>1, <1>5, <1>7
  <2> QED BY <2>1 DEF Quiet
<1>10. k \in 0..Len(h) /\ k # 0 /\ k + l <= Len(h) /\ Len(ids) = l /\ (k + l + 1)..Len(h) = {}
  BY <1>1, <1>5, <1>6, <1>7
<1>11. h[k].calls = ids /\ (ids # <<>> => h[k].reasoning # <<>>)
  BY <1>1, <1>6, <1>7
<1> HIDE DEF h, k, l, ids
<1>12. Accepted(h)
  BY ZenonT(60), <1>2, <1>4, <1>5, <1>8, <1>9, <1>10, <1>11, AcceptedIs
<1> QED BY <1>3, <1>4, <1>12 DEF h

\* An answer whose calls are together can go back.
LEMMA TogetherAccepted ==
    ASSUME NEW items \in Seq(AnswerItem), CallsTogether(items)
    PROVE  AcceptedWhole(items)
<1> DEFINE c == OfType(items, {"function_call"})
           o == [i \in DOMAIN c |-> [c[i] EXCEPT !.type = "function_call_output", !.text = <<1>>]]
           b == <<Question>> \o items
           t == Mapped(Reply, o)
           out == Reading(b).out
           E == {x \in HistoryItem : x.type = "function_call"}
<1>1. Request(items) = b \o o
  BY DEF Request, Question
<1>2. c \in Seq(E)
  <2>1. c \in Seq({x \in AnswerItem : x.type \in {"function_call"}})
    BY OfTypeOnly
  <2>2. {x \in AnswerItem : x.type \in {"function_call"}} \subseteq E
    BY DEF AnswerItem
  <2> HIDE DEF c, E
  <2> QED BY <2>1, <2>2, SeqMonotonic
<1>3. /\ o \in Seq(OutputItem) /\ Len(o) = Len(c)
      /\ \A i \in 1..Len(c) : o[i].call = c[i].call /\ o[i].text = <<1>>
  <2> HIDE DEF c
  <2> QED BY Zenon, <1>2, OutputsAre
<1>4. CallsOf(items) = [i \in DOMAIN c |-> c[i].call]
  BY DEF CallsOf, Calls
<1> HIDE DEF o, c
<1>5. c \in Seq(HistoryItem)
  BY <1>2, SeqMonotonic
<1>6. DOMAIN c = 1..Len(c) /\ Len(c) \in Nat
  BY <1>5, LenProperties
<1>7. CallsOf(items) \in Seq(Nat) /\ \A i \in 1..Len(c) : CallsOf(items)[i] = c[i].call
  BY <1>4, <1>6, ContentIs
<1>8. Len(CallsOf(items)) = Len(c)
  <2>1. DOMAIN CallsOf(items) = 1..Len(c) /\ DOMAIN CallsOf(items) = 1..Len(CallsOf(items))
    BY <1>4, <1>6, <1>7, LenProperties
  <2> QED BY <1>6, <1>7, <2>1
<1>9. /\ t \in Seq(Quiet) /\ Len(t) = Len(c)
      /\ \A i \in 1..Len(c) : t[i].role = "tool" /\ t[i].answers = c[i].call
  BY <1>3, <1>5, RepliesAre
<1>10. b \in Seq(HistoryItem) /\ Good(items, out)
  BY GoodHistory
<1> HIDE DEF b, t, out
<1>11. ResponsesInputToChat(Request(items)) = out \o t
  BY <1>1, <1>3, <1>10, OutputsRead DEF t, out
<1>12. Accepted(out \o t) /\ Said(out \o t) = WordsOf(items) /\ Called(out \o t) = CallsOf(items)
  BY <1>7, <1>8, <1>9, <1>10, GoodAccepted
<1> QED BY <1>11, <1>12 DEF AcceptedWhole, WordsOf, CallsOf

\* What is chosen of two sequences, one after the other.
LEMMA OfTypeConcat ==
    ASSUME NEW E, NEW types, NEW a \in Seq(E), NEW b \in Seq(E)
    PROVE  OfType(a \o b, types) = OfType(a, types) \o OfType(b, types)
<1> DEFINE P == {p \in Seq(E) : OfType(a \o p, types) = OfType(a, types) \o OfType(p, types)}
<1>1. OfType(<<>>, types) = <<>> /\ \A p \in Seq(E) : OfType(p, types) \in Seq(E)
  BY OfTypeIs
<1>2. \A p \in Seq(E) : \A e \in E :
        OfType(Append(p, e), types) = IF e.type \in types THEN Append(OfType(p, types), e)
                                      ELSE OfType(p, types)
  BY OfTypeIs
<1>3. <<>> \in P
  <2>1. a \o <<>> = a /\ OfType(a, types) \o <<>> = OfType(a, types) /\ <<>> \in Seq(E)
    BY <1>1, ConcatEmptySeq, EmptySeq
  <2> QED BY <1>1, <2>1
<1>4. ASSUME NEW p \in Seq(E), NEW e \in E, p \in P PROVE Append(p, e) \in P
  <2> DEFINE x == OfType(a, types)
             y == OfType(p, types)
  <2>1. a \o Append(p, e) = Append(a \o p, e) /\ a \o p \in Seq(E) /\ Append(p, e) \in Seq(E)
    BY ConcatProperties, AppendProperties
  <2>2. OfType(a \o p, types) = x \o y /\ x \in Seq(E) /\ y \in Seq(E)
    BY <1>1, <1>4
  <2>3. x \o Append(y, e) = Append(x \o y, e)
    BY <2>2, ConcatProperties, AppendProperties
  <2>4. OfType(a \o Append(p, e), types) = IF e.type \in types THEN Append(x \o y, e) ELSE x \o y
    BY <1>2, <2>1, <2>2
  <2>5. OfType(Append(p, e), types) = IF e.type \in types THEN Append(y, e) ELSE y
    BY <1>2
  <2> QED BY <2>1, <2>3, <2>4, <2>5
<1> HIDE DEF P
<1>5. Seq(E) \subseteq P
  BY <1>3, <1>4, AppendInduction
<1> QED BY <1>5 DEF P

\* Items in the order they were finished in have their calls together.
LEMMA FinishedTogether ==
    ASSUME NEW items \in Seq(AnswerItem),
           NEW f, f = OfType(items, {"reasoning", "message"}) \o OfType(items, {"function_call"})
    PROVE  f \in Seq(AnswerItem) /\ CallsTogether(f)
<1> DEFINE E == AnswerItem
           shown == {"message", "function_call"}
           first == {"reasoning", "message"}
           last == {"function_call"}
           a == OfType(items, first)
           b == OfType(items, last)
           F == {e \in E : e.type \in first}
           G == {e \in E : e.type \in last}
           v == OfType(a, shown)
           w == OfType(b, shown)
           u == OfType(f, shown)
<1>1. \A s : /\ (s \in first => s # "function_call")
             /\ (s \in last => s # "message")
  OBVIOUS
<1>2. CallsTogether(f) <=> \A i, j \in DOMAIN u :
        i < j /\ u[i].type = "function_call" /\ u[j].type = "message" => j = Len(u)
  BY DEF CallsTogether
<1>3. f = a \o b
  OBVIOUS
<1> SUFFICES f \in Seq(E) /\ CallsTogether(f)
  OBVIOUS
<1> HIDE DEF E, shown, first, last
<1>4. a \in Seq(F) /\ b \in Seq(G)
  BY OfTypeOnly DEF E
<1>5. a \in Seq(E) /\ b \in Seq(E) /\ f \in Seq(E)
  <2>1. items \in Seq(E)
    BY DEF E
  <2>2. a \in Seq(E) /\ b \in Seq(E)
    BY <2>1, OfTypeIs
  <2> HIDE DEF a, b
  <2> QED BY <1>3, <2>2, ConcatProperties
<1>6. u = v \o w
  <2> HIDE DEF a, b
  <2>1. OfType(a \o b, shown) = OfType(a, shown) \o OfType(b, shown)
    BY <1>5, OfTypeConcat
  <2> QED BY <1>3, <2>1
<1>7. v \in Seq(F) /\ w \in Seq(G) /\ v \in Seq(E) /\ w \in Seq(E)
  <2> HIDE DEF a, b, F, G
  <2> QED BY <1>4, <1>5, OfTypeIs
<1> HIDE DEF a, b, u, v, w
<1>8. Len(v) \in Nat /\ Len(w) \in Nat /\ DOMAIN u = 1..Len(u)
  BY <1>6, <1>7, LenProperties, ConcatProperties
<1>9. /\ Len(u) = Len(v) + Len(w) /\ (\A i \in 1..Len(v) : u[i] = v[i])
      /\ \A i \in 1..Len(w) : u[Len(v) + i] = w[i]
  BY <1>6, <1>7, ConcatIs
<1>10. ASSUME NEW i \in DOMAIN u, NEW j \in DOMAIN u, i < j, u[i].type = "function_call",
              u[j].type = "message"
       PROVE  FALSE
  <2>1. ASSUME i \in 1..Len(v) PROVE FALSE
    <3>1. u[i] \in F
      BY <1>7, <1>9, <2>1, ElementOfSeq
    <3> QED BY <1>1, <1>10, <3>1
  <2>2. ASSUME ~(j \in 1..Len(v)) PROVE FALSE
    <3>1. j - Len(v) \in 1..Len(w) /\ Len(v) + (j - Len(v)) = j
      BY <1>8, <1>9, <2>2
    <3>2. u[j] \in G
      BY <1>7, <1>9, <3>1, ElementOfSeq
    <3> QED BY <1>1, <1>10, <3>2
  <2>3. i \in 1..Len(u) /\ j \in 1..Len(u)
    BY <1>8
  <2> QED BY <1>8, <1>10, <2>1, <2>2, <2>3
<1> QED BY <1>2, <1>5, <1>10

----------------------------------------------------------------------------
(* The answer as a message of content blocks *)

\* Nothing is chosen of a sequence that has nothing of the types, and all of one that has
\* nothing else.
LEMMA OfTypeBounds ==
    ASSUME NEW E, NEW types, NEW s \in Seq(E)
    PROVE  /\ (\A e \in E : e.type \notin types) => OfType(s, types) = <<>>
           /\ (\A e \in E : e.type \in types) => OfType(s, types) = s
<1>1. ASSUME \A e \in E : e.type \notin types PROVE OfType(s, types) = <<>>
  <2> DEFINE t == OfType(s, types)
             F == {e \in E : e.type \in types}
  <2>1. t \in Seq(F)
    BY OfTypeOnly
  <2>2. F = {}
    BY <1>1
  <2> HIDE DEF t, F
  <2>3. t = <<>>
    BY <2>1, <2>2
  <2> QED BY <2>3 DEF t
<1>2. ASSUME \A e \in E : e.type \in types PROVE OfType(s, types) = s
  <2> DEFINE P == {p \in Seq(E) : OfType(p, types) = p}
  <2>1. <<>> \in P
    BY OfTypeIs, EmptySeq
  <2>2. \A p \in Seq(E) : \A e \in E :
          OfType(Append(p, e), types) = IF e.type \in types THEN Append(OfType(p, types), e)
                                        ELSE OfType(p, types)
    BY OfTypeIs
  <2>3. ASSUME NEW p \in Seq(E), NEW e \in E, p \in P PROVE Append(p, e) \in P
    <3>1. Append(p, e) \in Seq(E) /\ OfType(p, types) = p /\ e.type \in types
      BY <1>2, <2>3, AppendProperties
    <3>2. OfType(Append(p, e), types) = Append(p, e)
      BY <2>2, <3>1
    <3> QED BY <3>1, <3>2
  <2> HIDE DEF P
  <2>4. Seq(E) \subseteq P
    BY <2>1, <2>3, AppendInduction
  <2> QED BY <2>4 DEF P
<1> QED BY <1>1, <1>2

MessageBlock == [type : {"thinking", "text", "tool_use", "tool_result"}, text : Seq(Nat),
                 call : Nat, images : Seq(Nat)]

AnswerBlock == {b \in MessageBlock : b.type # "tool_result"}

\* The assistant's message is one message of the history, or none.
LEMMA AssistantIs ==
    ASSUME NEW blocks \in Seq(AnswerBlock)
    PROVE  LET text == Texts(OfType(blocks, {"text"}))
               calls == Calls(OfType(blocks, {"tool_use"}))
               said == AssistantMessage(blocks)
           IN /\ text \in Seq(Nat) /\ calls \in Seq(Nat)
              /\ \/ said = <<>> /\ text = <<>> /\ calls = <<>>
                 \/ \E m \in Chat :
                      /\ said = <<m>> /\ m.role = "assistant" /\ m.content = text
                      /\ m.calls = calls /\ (calls # <<>> => m.reasoning # <<>>)
<1> DEFINE E == AnswerBlock
           text == Texts(OfType(blocks, {"text"}))
           thinking == Texts(OfType(blocks, {"thinking"}))
           calls == Calls(OfType(blocks, {"tool_use"}))
           reasoning == IF calls = <<>> THEN thinking ELSE EnsureToolReasoning(thinking)
           m == [Message("assistant", text) EXCEPT !.calls = calls, !.reasoning = reasoning]
           said == AssistantMessage(blocks)
<1>1. \A s \in Seq(E) : Texts(s) \in Seq(Nat) /\ Calls(s) \in Seq(Nat)
  <2>1. \A e \in E : e.text \in Seq(Nat) /\ e.call \in Nat
    BY DEF AnswerBlock, MessageBlock
  <2> HIDE DEF E
  <2> QED BY <2>1, TextsIs
<1>2. \A types : OfType(blocks, types) \in Seq(E)
  BY OfTypeIs
<1>3. text \in Seq(Nat) /\ thinking \in Seq(Nat) /\ calls \in Seq(Nat)
  BY <1>1, <1>2
<1>4. said = IF text = <<>> /\ calls = <<>> THEN <<>> ELSE <<m>>
  BY DEF AssistantMessage
<1> HIDE DEF text, thinking, calls
<1>5. reasoning \in Seq(Nat) /\ (calls # <<>> => reasoning # <<>>)
  BY <1>3, MessageIs
<1> HIDE DEF reasoning
<1>6. /\ m \in Chat /\ m.role = "assistant" /\ m.content = text /\ m.calls = calls
      /\ m.reasoning = reasoning
  BY <1>3, <1>5 DEF Message, Chat
<1> HIDE DEF m, said
<1> QED BY <1>3, <1>4, <1>5, <1>6 DEF text, calls, said

\* A message of the user that says and shows something, or none.
LEMMA UserIs ==
    ASSUME NEW parts \in Seq(Nat)
    PROVE  (IF parts = <<>> THEN <<>> ELSE <<Message("user", parts)>>)
             \in Seq({m \in Chat : m.role = "user" /\ m.calls = <<>>})
<1> DEFINE E == {m \in Chat : m.role = "user" /\ m.calls = <<>>}
           m == Message("user", parts)
<1>1. m \in E
  BY MessageIs
<1> HIDE DEF E, m
<1>2. <<m>> \in Seq(E) /\ <<>> \in Seq(E)
  BY <1>1
<1> QED BY <1>2 DEF E, m

\* One message of the client is converted on its own.
LEMMA OneMessage ==
    ASSUME NEW m, AnthropicMessageToChat(m) \in Seq(Chat)
    PROVE  MessagesToChat(<<m>>) = AnthropicMessageToChat(m)
<1> DEFINE c == AnthropicMessageToChat(m)
           ms == <<m>>
<1>1. MessagesToChat(ms) = Joined([i \in DOMAIN ms |-> AnthropicMessageToChat(ms[i])])
  BY DEF MessagesToChat
<1>2. DOMAIN ms = 1..1 /\ ms[1] = m
  OBVIOUS
<1>3. [i \in DOMAIN ms |-> AnthropicMessageToChat(ms[i])] = [i \in 1..1 |-> c]
  BY <1>2
<1> HIDE DEF c, ms
<1>4. c \in Seq(Chat)
  BY DEF c
<1>5. [i \in 1..1 |-> c] = Append(<<>>, c)
  OBVIOUS
<1>6. Joined(Append(<<>>, c)) = Joined(<<>>) \o c /\ Joined(<<>>) = <<>>
  <2>1. <<>> \in Seq(Seq(Chat))
    BY EmptySeq
  <2> QED BY <1>4, <2>1, JoinedIs
<1> QED BY <1>1, <1>3, <1>4, <1>5, <1>6, ConcatEmptySeq DEF c, ms

\* What the assistant's message becomes.
LEMMA SaidTurn ==
    ASSUME NEW blocks \in Seq(AnswerBlock), NEW turn,
           turn.role = "assistant", turn.blocks = blocks
    PROVE  /\ MessagesToChat(<<turn>>) = AssistantMessage(blocks)
           /\ AssistantMessage(blocks) \in Seq(Chat)
<1> DEFINE results == OfType(blocks, {"tool_result"})
           said == AssistantMessage(blocks)
<1>1. results = <<>>
  <2> DEFINE E == AnswerBlock
             types == {"tool_result"}
  <2>1. \A e \in E : e.type \notin types
    BY DEF AnswerBlock
  <2> HIDE DEF E, types
  <2>2. OfType(blocks, types) = <<>>
    BY <2>1, OfTypeBounds DEF E
  <2> QED BY <2>2 DEF types
<1>2. said \in Seq(Chat)
  <2>1. said = <<>> \/ \E m \in Chat : said = <<m>>
    BY AssistantIs
  <2>2. <<>> \in Seq(Chat) /\ \A m \in Chat : <<m>> \in Seq(Chat)
    OBVIOUS
  <2> HIDE DEF said
  <2> QED BY <2>1, <2>2
<1>3. Joined([i \in DOMAIN results |-> results[i].images]) = <<>>
  <2>1. [i \in DOMAIN results |-> results[i].images] = <<>>
    BY <1>1
  <2> QED BY <2>1, JoinedIs
<1>4. [i \in DOMAIN results |-> ToolMessage(results[i].call, results[i].text)] = <<>>
  BY <1>1
<1> HIDE DEF said
<1>5. AnthropicMessageToChat(turn) = <<>> \o said \o <<>>
  BY <1>3, <1>4 DEF AnthropicMessageToChat, said
<1>6. AnthropicMessageToChat(turn) = said
  BY <1>2, <1>5, ConcatEmptySeq
<1> QED BY <1>2, <1>6, OneMessage DEF said

ResultBlock == {b \in MessageBlock : b.type = "tool_result"}

Word == [type |-> "text", text |-> <<2>>, call |-> 0, images |-> <<>>]

\* A call and its result, with the pictures the tool made.
LEMMA ResultIs ==
    ASSUME NEW x \in MessageBlock, NEW pictures \in Seq(Nat)
    PROVE  LET r == [x EXCEPT !.type = "tool_result", !.text = <<1>>, !.images = pictures] IN
           r \in ResultBlock /\ r.call = x.call /\ r.text = <<1>>
<1> DEFINE r == [x EXCEPT !.type = "tool_result", !.text = <<1>>, !.images = pictures]
<1>1. <<1>> \in Seq(Nat)
  OBVIOUS
<1>2. x \in [type : {"thinking", "text", "tool_use", "tool_result"}, text : Seq(Nat),
             call : Nat, images : Seq(Nat)]
  BY DEF MessageBlock
<1> QED BY <1>1, <1>2 DEF ResultBlock, MessageBlock

\* A result for every call, in the place of the call.
LEMMA ResultsAre ==
    ASSUME NEW c \in Seq(MessageBlock), NEW pictures \in Seq(Nat)
    PROVE  LET o == [i \in DOMAIN c |-> [c[i] EXCEPT !.type = "tool_result", !.text = <<1>>,
                                                    !.images = pictures]]
           IN /\ o \in Seq(ResultBlock) /\ Len(o) = Len(c)
              /\ \A i \in 1..Len(c) : o[i].call = c[i].call /\ o[i].text = <<1>>
<1> DEFINE r(x) == [x EXCEPT !.type = "tool_result", !.text = <<1>>, !.images = pictures]
           f == [i \in DOMAIN c |-> r(c[i])]
           E == MessageBlock
<1> SUFFICES /\ f \in Seq(ResultBlock) /\ Len(f) = Len(c)
             /\ \A i \in 1..Len(c) : f[i].call = c[i].call /\ f[i].text = <<1>>
  BY Zenon
<1>1. ASSUME NEW x \in E PROVE r(x) \in ResultBlock /\ r(x).call = x.call /\ r(x).text = <<1>>
  BY Zenon, ResultIs
<1>2. \A i \in DOMAIN c : f[i] = r(c[i])
  BY Zenon
<1>3. f = [i \in DOMAIN c |-> f[i]]
  BY Zenon
<1>4. c \in Seq(E)
  OBVIOUS
<1> HIDE DEF r, f, E
<1>5. DOMAIN c = 1..Len(c) /\ \A i \in DOMAIN c : c[i] \in E
  BY <1>4, LenProperties, ElementOfSeq
<1>6. \A i \in DOMAIN c : f[i] \in ResultBlock /\ f[i].call = c[i].call /\ f[i].text = <<1>>
  BY <1>1, <1>2, <1>5
<1>7. f \in Seq(ResultBlock) /\ Len(f) = Len(c)
  BY <1>3, <1>4, <1>6, InPlace
<1> QED BY <1>5, <1>6, <1>7

\* What is chosen of the user's words and the results, whichever comes first.
LEMMA ChosenOfAnswer ==
    ASSUME NEW r \in Seq(ResultBlock), NEW b, b = r \/ b = <<Word>> \o r \/ b = r \o <<Word>>
    PROVE  /\ OfType(b, {"tool_result"}) = r
           /\ Texts(OfType(b, {"text", "image"})) \in Seq(Nat)
<1> DEFINE E == MessageBlock
           results == {"tool_result"}
           words == {"text", "image"}
           w == <<Word>>
<1>1. w \in Seq(E) /\ r \in Seq(E)
  <2>1. Word \in E
    <3>1. <<2>> \in Seq(Nat) /\ <<>> \in Seq(Nat) /\ 0 \in Nat
      OBVIOUS
    <3> QED BY <3>1 DEF Word, MessageBlock
  <2>2. r \in Seq(E)
    BY SeqMonotonic DEF ResultBlock
  <2> HIDE DEF E
  <2> QED BY <2>1, <2>2
<1>2. OfType(r, results) = r
  <2>1. \A e \in ResultBlock : e.type \in results
    BY DEF ResultBlock
  <2> HIDE DEF results
  <2> QED BY <2>1, OfTypeBounds
<1>3. OfType(w, results) = <<>>
  <2> DEFINE F == {e \in E : e.type \notin results}
  <2>1. Word \in F
    BY <1>1, ElementOfSeq DEF Word
  <2>2. \A e \in F : e.type \notin results
    OBVIOUS
  <2> HIDE DEF F, results
  <2>3. w \in Seq(F)
    BY <2>1
  <2> HIDE DEF w
  <2> QED BY <2>2, <2>3, OfTypeBounds
<1> HIDE DEF E, w, results, words
<1>4. OfType(w \o r, results) = r /\ OfType(r \o w, results) = r
  <2>1. /\ OfType(w \o r, results) = OfType(w, results) \o OfType(r, results)
        /\ OfType(r \o w, results) = OfType(r, results) \o OfType(w, results)
    BY <1>1, OfTypeConcat
  <2> QED BY <1>1, <1>2, <1>3, <2>1, ConcatEmptySeq
<1>5. b = r \/ b = w \o r \/ b = r \o w
  BY DEF w
<1>6. b \in Seq(E)
  BY <1>1, <1>5, ConcatProperties
<1>7. OfType(b, results) = r
  BY <1>2, <1>4, <1>5
<1>8. \A e \in E : e.text \in Seq(Nat) /\ e.call \in Nat
  BY DEF E, MessageBlock
<1>9. OfType(b, words) \in Seq(E)
  BY <1>6, OfTypeIs
<1>10. Texts(OfType(b, words)) \in Seq(Nat)
  BY <1>8, <1>9, TextsIs
<1> QED BY <1>7, <1>10 DEF results, words

\* The pictures of the results are pictures.
LEMMA ImagesAre ==
    ASSUME NEW r \in Seq(ResultBlock)
    PROVE  Joined([i \in DOMAIN r |-> r[i].images]) \in Seq(Nat)
<1> DEFINE f == [i \in DOMAIN r |-> r[i].images]
<1>1. DOMAIN r = 1..Len(r) /\ \A i \in 1..Len(r) : r[i] \in ResultBlock
  BY LenProperties, ElementOfSeq
<1>2. f = [i \in DOMAIN r |-> f[i]] /\ \A i \in DOMAIN r : f[i] \in Seq(Nat)
  BY <1>1 DEF ResultBlock, MessageBlock
<1> HIDE DEF f
<1>3. f \in Seq(Seq(Nat))
  BY <1>2, InPlace
<1>4. Joined(f) \in Seq(Nat)
  BY <1>3, JoinedIs
<1> QED BY <1>4 DEF f

Asked == {m \in Chat : m.role = "user" /\ m.calls = <<>>}

\* A turn of the user with the results r of the calls c.
Answering(turn, r, c) ==
    /\ r \in Seq(ResultBlock) /\ Len(r) = Len(c) /\ Len(c) \in Nat
    /\ \A i \in 1..Len(c) : r[i].call = c[i].call
    /\ turn.role = "user"
    /\ turn.blocks = r \/ turn.blocks = <<Word>> \o r \/ turn.blocks = r \o <<Word>>

\* A history that begins with an answer to each of the calls c, and goes on with the user's words.
Answered(h, c) ==
    \E t \in Seq(Chat), v \in Seq(Asked) :
        /\ h = t \o v
        /\ Len(t) = Len(c)
        /\ \A i \in 1..Len(c) : t[i].role = "tool" /\ t[i].answers = c[i].call /\ t[i].calls = <<>>

\* The user's turn becomes the messages of the tools, in the order of the calls, and after
\* them those of the user.
LEMMA AnswerIs ==
    ASSUME NEW turn, NEW r, NEW c, Answering(turn, r, c)
    PROVE  Answered(MessagesToChat(<<turn>>), c)
<1> DEFINE b == turn.blocks
           results == OfType(b, {"tool_result"})
           images == Joined([i \in DOMAIN results |-> results[i].images])
           parts == Texts(OfType(b, {"text", "image"}))
           t == [i \in DOMAIN r |-> ToolMessage(r[i].call, r[i].text)]
           x == IF parts = <<>> THEN <<>> ELSE <<Message("user", parts)>>
           y == IF images = <<>> THEN <<>> ELSE <<Message("user", images)>>
<1>0. /\ r \in Seq(ResultBlock) /\ Len(r) = Len(c) /\ Len(c) \in Nat
      /\ \A i \in 1..Len(c) : r[i].call = c[i].call
      /\ turn.role = "user" /\ (b = r \/ b = <<Word>> \o r \/ b = r \o <<Word>>)
  BY DEF Answering
<1>1. results = r /\ parts \in Seq(Nat)
  BY <1>0, ChosenOfAnswer
<1>2. images \in Seq(Nat)
  BY <1>0, <1>1, ImagesAre
<1>3. AnthropicMessageToChat(turn) = t \o x \o y
  BY Zenon, <1>0, <1>1 DEF AnthropicMessageToChat, UserMessage
<1> HIDE DEF images, parts, results
<1>4. x \in Seq(Asked) /\ y \in Seq(Asked)
  BY <1>1, <1>2, UserIs DEF Asked
<1> HIDE DEF x, y
<1>5. /\ DOMAIN r = 1..Len(r) /\ t = [i \in DOMAIN r |-> t[i]]
      /\ \A i \in DOMAIN r : t[i] = ToolMessage(r[i].call, r[i].text) /\ r[i] \in ResultBlock
  BY <1>0, LenProperties, ElementOfSeq
<1> HIDE DEF t
<1>6. ASSUME NEW i \in DOMAIN r
      PROVE  /\ t[i] \in Chat /\ t[i].role = "tool" /\ t[i].answers = r[i].call
             /\ t[i].calls = <<>>
  <2>1. r[i].call \in Nat /\ r[i].text \in Seq(Nat) /\ <<>> \in Seq(Nat)
    BY <1>5, EmptySeq DEF ResultBlock, MessageBlock
  <2>2. t[i] = [role |-> "tool", content |-> r[i].text, calls |-> <<>>, answers |-> r[i].call,
                reasoning |-> <<>>]
    BY <1>5, <2>1, MessageIs
  <2> QED BY <2>1, <2>2 DEF Chat
<1>7. t \in Seq(Chat) /\ Len(t) = Len(r)
  BY <1>0, <1>5, <1>6, InPlace
<1>8. Asked \subseteq Chat
  BY DEF Asked
<1>9. x \in Seq(Chat) /\ y \in Seq(Chat)
  BY <1>4, <1>8, SeqMonotonic
<1>10. x \o y \in Seq(Asked) /\ x \o y \in Seq(Chat) /\ t \o x \o y = t \o (x \o y)
  BY <1>4, <1>7, <1>9, ConcatProperties, ConcatAssociative
<1>11. t \o (x \o y) \in Seq(Chat)
  BY <1>7, <1>10, ConcatProperties
<1>12. MessagesToChat(<<turn>>) = t \o (x \o y)
  BY <1>3, <1>10, <1>11, OneMessage
<1> QED BY <1>0, <1>5, <1>6, <1>7, <1>10, <1>12 DEF Answered

\* The assistant's message, the messages of the tools and those of the user are accepted.
LEMMA TurnAccepted ==
    ASSUME NEW said \in Seq(Chat), NEW t \in Seq(Chat), NEW v \in Seq(Asked),
           NEW ids \in Seq(Nat), Len(t) = Len(ids),
           \A i \in 1..Len(t) : t[i].role = "tool" /\ t[i].answers = ids[i] /\ t[i].calls = <<>>,
           \/ said = <<>> /\ ids = <<>>
           \/ \E m \in Chat : /\ said = <<m>> /\ m.role = "assistant" /\ m.calls = ids
                              /\ (ids # <<>> => m.reasoning # <<>>)
    PROVE  Accepted(said \o (t \o v))
<1> DEFINE x == t \o v
           h == said \o x
           k == Len(said)
           l == Len(t)
           d == Len(v)
<1>1. v \in Seq(Chat) /\ d \in Nat /\ \A i \in 1..d : v[i] \in Asked
  BY SeqMonotonic, LenProperties, ElementOfSeq DEF Asked
<1>2. k \in Nat /\ l \in Nat
  BY LenProperties
<1>3. \A a, b \in Seq(Chat) :
        /\ a \o b \in Seq(Chat) /\ Len(a \o b) = Len(a) + Len(b)
        /\ \A i \in 1..Len(a) : (a \o b)[i] = a[i]
        /\ \A i \in 1..Len(b) : (a \o b)[Len(a) + i] = b[i]
  BY ConcatIs
<1> SUFFICES Accepted(h)
  OBVIOUS
<1>4. /\ x \in Seq(Chat) /\ Len(x) = l + d
      /\ \A i \in 1..l : x[i] = t[i]
      /\ \A i \in 1..d : x[l + i] = v[i]
  <2> HIDE DEF d
  <2>1. /\ x \in Seq(Chat) /\ Len(x) = Len(t) + Len(v)
        /\ \A i \in 1..Len(t) : x[i] = t[i]
        /\ \A i \in 1..Len(v) : x[Len(t) + i] = v[i]
    BY <1>1, <1>3
  <2> QED BY <2>1 DEF d
<1> HIDE DEF x
<1>5. /\ h \in Seq(Chat) /\ Len(h) = k + Len(x)
      /\ \A i \in 1..k : h[i] = said[i]
      /\ \A i \in 1..Len(x) : h[k + i] = x[i]
  BY <1>3, <1>4
<1>6. \A i \in 1..l : t[i].role = "tool" /\ t[i].answers = ids[i] /\ t[i].calls = <<>>
  OBVIOUS
<1>7. Len(ids) = l /\ (ids = <<>> => l = 0)
  BY EmptySeq
<1> HIDE DEF h, l, d
<1>8. \A i \in 1..l : h[k + i].role = "tool" /\ h[k + i].answers = ids[i] /\ h[k + i].calls = <<>>
  <2>1. \A i \in 1..l : i \in 1..Len(x)
    BY <1>1, <1>2, <1>4
  <2>2. \A i \in 1..l : h[k + i] = t[i]
    BY <1>4, <1>5, <2>1
  <2> QED BY <1>6, <2>2
<1>9. \/ k = 0 /\ l = 0
      \/ /\ k = 1 /\ h[1].role = "assistant" /\ h[1].calls = ids
         /\ (ids # <<>> => h[1].reasoning # <<>>)
  <2>1. CASE said = <<>> /\ ids = <<>>
    BY <1>7, <2>1, EmptySeq
  <2>2. ASSUME NEW m \in Chat, said = <<m>>, m.role = "assistant", m.calls = ids,
               ids # <<>> => m.reasoning # <<>>
        PROVE  /\ k = 1 /\ h[1].role = "assistant" /\ h[1].calls = ids
               /\ (ids # <<>> => h[1].reasoning # <<>>)
    <3>1. k = 1 /\ said[1] = m
      BY <2>2
    <3>2. h[1] = m
      BY <1>5, <3>1
    <3> QED BY <2>2, <3>1, <3>2
  <2> QED BY <2>1, <2>2
<1> HIDE DEF k
<1>10. ASSUME NEW i \in (k + l + 1)..Len(h) PROVE h[i].role # "tool" /\ h[i].calls = <<>>
  <2>1. i - k - l \in 1..d /\ l + (i - k - l) \in 1..Len(x) /\ k + (l + (i - k - l)) = i
    <3>1. Len(h) = k + (l + d) /\ Len(x) = l + d
      BY <1>4, <1>5
    <3>2. i \in (k + l + 1)..(k + (l + d))
      BY <3>1
    <3>3. i - k - l \in 1..d /\ l + (i - k - l) \in 1..(l + d) /\ k + (l + (i - k - l)) = i
      BY <1>1, <1>2, <3>2
    <3> QED BY <3>1, <3>3
  <2>2. h[i] = v[i - k - l]
    BY <1>4, <1>5, <2>1
  <2> QED BY <1>1, <2>1, <2>2 DEF Asked
<1>11. k \in 0..Len(h) /\ k + l <= Len(h) /\ (k = 0 => l = 0)
  <2>1. Len(h) = k + (l + d)
    BY <1>4, <1>5
  <2> QED BY <1>1, <1>2, <1>9, <2>1
<1>12. ASSUME NEW i \in 1..k PROVE h[i].role # "tool" /\ (i < k => h[i].calls = <<>>)
  <2>1. k = 1 /\ h[1].role = "assistant"
    BY <1>2, <1>9
  <2>2. i = 1
    BY <2>1
  <2> QED BY <2>1, <2>2
<1>13. k # 0 => h[k].calls = ids /\ (ids # <<>> => h[k].reasoning # <<>>)
  BY <1>9
<1> QED BY <1>2, <1>5, <1>7, <1>8, <1>10, <1>11, <1>12, <1>13, AcceptedIs

\* What the history says and calls of one message or none.
LEMMA SaidOne ==
    ASSUME NEW m \in Chat
    PROVE  /\ Said(<<>>) = <<>> /\ Called(<<>>) = <<>>
           /\ Said(<<m>>) = Spoken(m) /\ Called(<<m>>) = m.calls
<1>1. <<m>> = Append(<<>>, m) /\ <<>> \in Seq(Chat)
  BY EmptySeq
<1>2. Said(<<m>>) = Said(<<>>) \o Spoken(m) /\ Called(<<m>>) = Called(<<>>) \o m.calls
  BY <1>1, SaidIs, CalledIs
<1>3. Said(<<>>) = <<>> /\ Called(<<>>) = <<>>
  BY SaidIs, CalledIs
<1>4. Spoken(m) \in Seq(Nat) /\ m.calls \in Seq(Nat)
  BY EmptySeq DEF Spoken, Chat
<1> QED BY <1>2, <1>3, <1>4, ConcatEmptySeq

\* An answer of the Messages protocol can go back, wherever the client puts its words.
LEMMA MessageAccepted ==
    ASSUME NEW turn, turn.role = "assistant", turn.blocks \in Seq(AnswerBlock)
    PROVE  LET said == MessagesToChat(<<turn>>)
           IN /\ \A answer \in Answers(turn.blocks) :
                   Accepted(said \o MessagesToChat(<<answer>>))
              /\ Said(said) = Texts(OfType(turn.blocks, {"text"}))
              /\ Called(said) = Calls(OfType(turn.blocks, {"tool_use"}))
<1> DEFINE blocks == turn.blocks
           c == OfType(blocks, {"tool_use"})
           text == Texts(OfType(blocks, {"text"}))
           ids == Calls(c)
           said == AssistantMessage(blocks)
           R(pictures) == [i \in DOMAIN c |-> [c[i] EXCEPT !.type = "tool_result", !.text = <<1>>,
                                                          !.images = pictures]]
<1>1. MessagesToChat(<<turn>>) = said /\ said \in Seq(Chat)
  BY SaidTurn
<1>2. /\ text \in Seq(Nat) /\ ids \in Seq(Nat)
      /\ \/ said = <<>> /\ text = <<>> /\ ids = <<>>
         \/ \E m \in Chat : /\ said = <<m>> /\ m.role = "assistant" /\ m.content = text
                            /\ m.calls = ids /\ (ids # <<>> => m.reasoning # <<>>)
  BY AssistantIs
<1>3. c \in Seq(MessageBlock)
  <2>1. c \in Seq(AnswerBlock)
    BY OfTypeIs
  <2>2. AnswerBlock \subseteq MessageBlock
    BY DEF AnswerBlock
  <2> HIDE DEF c
  <2> QED BY <2>1, <2>2, SeqMonotonic
<1>4. ids = [i \in DOMAIN c |-> c[i].call]
  BY DEF Calls
<1>5. \A answer \in Answers(blocks) :
        /\ answer.role = "user"
        /\ \E pictures \in Seq(Nat) :
             \/ answer.blocks = R(pictures)
             \/ answer.blocks = <<Word>> \o R(pictures)
             \/ answer.blocks = R(pictures) \o <<Word>>
  <2>1. <<>> \in Seq(Nat) /\ <<3>> \in Seq(Nat)
    OBVIOUS
  <2>2. Answers(blocks) = {[role |-> "user", blocks |-> b] :
           b \in {R(<<>>), <<Word>> \o R(<<3>>), R(<<3>>) \o <<Word>>}}
    BY Zenon DEF Answers, Word
  <2>3. ASSUME NEW answer \in Answers(blocks)
        PROVE  \E b \in {R(<<>>), <<Word>> \o R(<<3>>), R(<<3>>) \o <<Word>>} :
                 answer = [role |-> "user", blocks |-> b]
    BY <2>2, Zenon
  <2> HIDE DEF R
  <2>4. ASSUME NEW answer \in Answers(blocks)
        PROVE  /\ answer.role = "user"
               /\ \/ answer.blocks = R(<<>>) \/ answer.blocks = <<Word>> \o R(<<3>>)
                  \/ answer.blocks = R(<<3>>) \o <<Word>>
    BY <2>3
  <2> QED BY <2>1, <2>4
<1>6. \A pictures \in Seq(Nat) :
        /\ R(pictures) \in Seq(ResultBlock) /\ Len(R(pictures)) = Len(c)
        /\ \A i \in 1..Len(c) : R(pictures)[i].call = c[i].call
  <2> HIDE DEF c
  <2> QED BY ZenonT(60), <1>3, ResultsAre
<1> HIDE DEF c, R, said, text
<1>7. Len(c) \in Nat /\ DOMAIN c = 1..Len(c)
  BY <1>3, LenProperties
<1>8. (\A i \in 1..Len(c) : ids[i] = c[i].call) /\ DOMAIN ids = 1..Len(c)
  BY <1>4, <1>7
<1> HIDE DEF ids
<1>9. Len(ids) = Len(c)
  <2>1. DOMAIN ids = 1..Len(ids) /\ Len(ids) \in Nat
    BY <1>2, LenProperties
  <2> QED BY <1>7, <1>8, <2>1
<1>10. ASSUME NEW answer \in Answers(blocks) PROVE Accepted(said \o MessagesToChat(<<answer>>))
  <2>1. PICK pictures \in Seq(Nat) :
          \/ answer.blocks = R(pictures)
          \/ answer.blocks = <<Word>> \o R(pictures)
          \/ answer.blocks = R(pictures) \o <<Word>>
    BY <1>5
  <2> DEFINE r == R(pictures)
  <2>2. /\ r \in Seq(ResultBlock) /\ Len(r) = Len(c) /\ \A i \in 1..Len(c) : r[i].call = c[i].call
        /\ answer.role = "user" /\ (\/ answer.blocks = r \/ answer.blocks = <<Word>> \o r
                                      \/ answer.blocks = r \o <<Word>>)
    BY <1>5, <1>6, <2>1
  <2> HIDE DEF r
  <2>3. Answering(answer, r, c)
    BY <1>7, <2>2 DEF Answering
  <2>4. PICK t \in Seq(Chat), v \in Seq(Asked) :
          /\ MessagesToChat(<<answer>>) = t \o v
          /\ Len(t) = Len(c)
          /\ \A i \in 1..Len(c) : /\ t[i].role = "tool" /\ t[i].answers = c[i].call
                                  /\ t[i].calls = <<>>
    <3>1. Answered(MessagesToChat(<<answer>>), c)
      BY <2>3, AnswerIs, Zenon
    <3> QED BY <3>1, Zenon DEF Answered
  <2>5. \A i \in 1..Len(t) : t[i].role = "tool" /\ t[i].answers = ids[i] /\ t[i].calls = <<>>
    BY <1>8, <2>4
  <2>6. \/ said = <<>> /\ ids = <<>>
        \/ \E m \in Chat : /\ said = <<m>> /\ m.role = "assistant" /\ m.calls = ids
                           /\ (ids # <<>> => m.reasoning # <<>>)
    BY <1>2
  <2>7. Accepted(said \o (t \o v))
    BY <1>1, <1>2, <1>9, <2>4, <2>5, <2>6, TurnAccepted
  <2> QED BY <2>4, <2>7
<1>11. Said(said) = text /\ Called(said) = ids
  BY <1>2, SaidOne, SaidIs, CalledIs DEF Spoken
<1> QED BY <1>1, <1>10, <1>11 DEF text, ids, c

----------------------------------------------------------------------------
(* The next request *)

\* What a client of the Messages protocol assembled are blocks of an answer.
LEMMA AssembledIs ==
    ASSUME protocol = "messages", TypeOK
    PROVE  Assembled.role = "assistant" /\ Assembled.blocks \in Seq(AnswerBlock)
<1> DEFINE b == st.view.blocks
           F == Assembled.blocks
           K == Messages!MessageKind
           r(i) == [type |-> b[i].kind,
                    text |-> IF b[i].kind = "tool_use" THEN <<>> ELSE b[i].frags,
                    call |-> i, images |-> <<>>]
<1>1. b \in Seq([kind : K, open : BOOLEAN, frags : Seq(Nat)])
  <2>1. st \in Messages!StreamState
    BY DEF TypeOK, Messages!TypeOK
  <2>2. st.view \in Messages!Client!View
    BY Zenon, <2>1 DEF Messages!StreamState
  <2> QED BY <2>2 DEF Messages!Client!View, Messages!Client!Block
<1>2. Assembled.role = "assistant" /\ F = [i \in DOMAIN b |-> r(i)]
  BY DEF Assembled
<1> HIDE DEF b, F
<1>3. Len(b) \in Nat /\ DOMAIN b = 1..Len(b)
  <2> DEFINE B == [kind : K, open : BOOLEAN, frags : Seq(Nat)]
  <2>1. b \in Seq(B)
    BY <1>1
  <2> HIDE DEF B
  <2> QED BY <2>1, LenProperties
<1>4. ASSUME NEW i \in 1..Len(b) PROVE r(i) \in AnswerBlock
  <2>1. b \in Blocks(K)
    BY <1>1 DEF Blocks
  <2>2. b[i].kind \in K /\ b[i].frags \in Seq(Nat)
    <3> HIDE DEF K
    <3> QED BY <2>1, BlockType
  <2>3. <<>> \in Seq(Nat) /\ i \in Nat
    BY <1>3, EmptySeq
  <2> QED BY <2>2, <2>3 DEF AnswerBlock, MessageBlock, Messages!MessageKind
<1>5. F = [i \in DOMAIN b |-> F[i]] /\ \A i \in DOMAIN b : F[i] = r(i)
  BY <1>2
<1> HIDE DEF r
<1>6. F \in [1..Len(b) -> AnswerBlock]
  BY <1>3, <1>4, <1>5
<1>7. F \in Seq(AnswerBlock)
  BY <1>3, <1>6, SeqOf
<1> QED BY <1>2, <1>7 DEF F

\* What the terminal event of a response lists are items of an answer.
LEMMA ListedIs ==
    ASSUME protocol = "responses", TypeOK, DeltasAddUp,
           st.view.phase \in {"completed", "incomplete"}
    PROVE  Listed \in Seq(AnswerItem)
<1> DEFINE b == st.view.blocks
           K == Responses!ItemKind
           f == st.final
           r(i) == [type |-> b[i].kind, role |-> IF b[i].kind = "message" THEN "assistant" ELSE "",
                    text |-> IF b[i].kind = "function_call" THEN <<>> ELSE b[i].frags, call |-> i]
<1>1. b \in Seq([kind : K, open : BOOLEAN, frags : Seq(Nat)])
  <2>1. protocol # "messages"
    OBVIOUS
  <2>2. st \in Responses!StreamState
    BY <2>1 DEF TypeOK, Responses!TypeOK
  <2>3. st.view \in Responses!Client!View
    BY Zenon, <2>2 DEF Responses!StreamState
  <2> QED BY <2>3 DEF Responses!Client!View, Responses!Client!Block
<1>2. f = [i \in DOMAIN b |-> [index |-> i, frags |-> b[i].frags]]
  <2>1. protocol # "messages"
    OBVIOUS
  <2>2. Responses!FinalListsWhatWasStreamed
    BY <2>1 DEF DeltasAddUp
  <2>3. st.view.phase \in Responses!Client!Outcome
    BY DEF Responses!Client!Outcome
  <2> QED BY <2>2, <2>3 DEF Responses!FinalListsWhatWasStreamed
<1>3. Listed = [k \in DOMAIN f |-> Replayed(f[k].index)] /\ \A i : Replayed(i) = r(i)
  BY DEF Listed, Replayed
<1> DEFINE L == Listed
<1> HIDE DEF b, f, L
<1>4. Len(b) \in Nat /\ DOMAIN b = 1..Len(b)
  <2> DEFINE B == [kind : K, open : BOOLEAN, frags : Seq(Nat)]
  <2>1. b \in Seq(B)
    BY <1>1
  <2> HIDE DEF B
  <2> QED BY <2>1, LenProperties
<1>5. ASSUME NEW i \in 1..Len(b) PROVE r(i) \in AnswerItem
  <2>1. b \in Blocks(K)
    BY <1>1 DEF Blocks
  <2>2. b[i].kind \in K /\ b[i].frags \in Seq(Nat)
    <3> HIDE DEF K
    <3> QED BY <2>1, BlockType
  <2>3. <<>> \in Seq(Nat) /\ i \in Nat
    BY <1>4, EmptySeq
  <2> QED BY Zenon, <2>2, <2>3 DEF AnswerItem, HistoryItem, Responses!ItemKind
<1>6. DOMAIN f = DOMAIN b /\ \A i \in DOMAIN b : f[i].index = i
  BY <1>2
<1>7. L = [i \in DOMAIN b |-> L[i]] /\ \A i \in DOMAIN b : L[i] = r(i)
  BY Zenon, <1>3, <1>6 DEF L
<1> HIDE DEF r
<1>8. L \in [1..Len(b) -> AnswerItem]
  BY <1>4, <1>5, <1>7
<1>9. L \in Seq(AnswerItem)
  BY <1>4, <1>8, SeqOf
<1> QED BY <1>9 DEF L

\* A completed answer can go back to the upstream as history, with the results of its tool
\* calls: whatever alternated in it and wherever the client puts its own words, the next
\* request is converted to a history the upstream accepts, with all the words and calls of
\* the answer in their order.
THEOREM AnswerGoesBack == Spec => []NextRequestIsAccepted
<1>1. TypeOK /\ DeltasAddUp => NextRequestIsAccepted
  <2> SUFFICES ASSUME TypeOK, DeltasAddUp PROVE NextRequestIsAccepted
    OBVIOUS
  <2>1. CASE protocol = "messages"
    <3>1. Assembled.role = "assistant" /\ Assembled.blocks \in Seq(AnswerBlock)
      BY <2>1, AssembledIs
    <3> DEFINE turn == Assembled
    <3> HIDE DEF turn
    <3>2. LET said == MessagesToChat(<<turn>>)
          IN /\ \A answer \in Answers(turn.blocks) :
                  Accepted(said \o MessagesToChat(<<answer>>))
             /\ Said(said) = Texts(OfType(turn.blocks, {"text"}))
             /\ Called(said) = Calls(OfType(turn.blocks, {"tool_use"}))
      BY <3>1, MessageAccepted DEF turn
    <3> QED BY <2>1, <3>2, Zenon DEF turn, NextRequestIsAccepted, NextMessagesRequestIsAccepted
  <2>2. CASE protocol # "messages"
    <3>1. protocol = "responses"
      BY <2>2 DEF TypeOK
    <3>2. ASSUME st.view.phase \in {"completed", "incomplete"}
          PROVE  AcceptedWhole(Finished) /\ (CallsTogether(Listed) => AcceptedWhole(Listed))
      <4>1. Listed \in Seq(AnswerItem)
        BY <3>1, <3>2, ListedIs
      <4>2. Finished \in Seq(AnswerItem) /\ CallsTogether(Finished)
        BY <4>1, FinishedTogether DEF Finished
      <4> QED BY <4>1, <4>2, TogetherAccepted
    <3> QED BY <2>2, <3>2 DEF NextRequestIsAccepted, NextResponsesRequestIsAccepted
  <2> QED BY <2>1, <2>2
<1> QED BY <1>1, TypeCorrect, InOrderAndOnce, PTL

============================================================================
