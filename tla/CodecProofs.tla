---------------------------- MODULE CodecProofs ----------------------------
(***************************************************************************)
(* The decoder's invariant for any commands, however many and wherever the *)
(* network cuts them, and what follows.                                    *)
(***************************************************************************)
EXTENDS FtlCodec, SequenceTheorems, WellFoundedInduction, TLAPS

-----------------------------------------------------------------------------
(* Induction over the natural numbers, for a set *)

LEMMA LessIsWellFounded ==
  IsWellFoundedOn({ss \in Nat \X Nat : ss[1] < ss[2]}, Nat)
BY NatLessThanWellFounded, Zenon DEF OpToRel

LEMMA Smallest ==
  ASSUME NEW T, T \subseteq Nat, T # {}
  PROVE  \E x \in T : \A y \in T : x <= y
<1> DEFINE R == {ss \in Nat \X Nat : ss[1] < ss[2]}
<1>1. PICK x \in T : \A y \in T : ~(<<y, x>> \in R)
  <2> HIDE DEF R
  <2>1. IsWellFoundedOn(R, Nat)
    BY LessIsWellFounded DEF R
  <2> QED
    BY <2>1, WFMin, Zenon
<1> SUFFICES ASSUME NEW y \in T PROVE x <= y
  BY <1>1
<1>2. ~(<<y, x>> \in R) /\ x \in Nat /\ y \in Nat
  BY <1>1
<1> QED
  BY <1>2

LEMMA Induction ==
  ASSUME NEW S, 0 \in S, \A n \in Nat : n \in S => n + 1 \in S
  PROVE  Nat \subseteq S
<1> SUFFICES ASSUME Nat \ S # {} PROVE FALSE
  OBVIOUS
<1>1. PICK x \in Nat \ S : \A y \in Nat \ S : x <= y
  BY Smallest
<1>2. x # 0 /\ x - 1 \in Nat
  OBVIOUS
<1>3. x - 1 \in S
  BY <1>1, <1>2
<1> QED
  BY <1>2, <1>3

-----------------------------------------------------------------------------
(* FlattenSeq: its recursive function exists, is unique, and grows at both *)
(* ends                                                                    *)

\* f[i] is the concatenation of the first i of the sequences.
Flattens(f, seqs) ==
  f = [i \in 1..Len(seqs) |-> IF i = 1 THEN seqs[i] ELSE f[i - 1] \o seqs[i]]

LEMMA FlattensAt ==
  ASSUME NEW seqs, NEW f, Flattens(f, seqs), NEW i \in 1..Len(seqs)
  PROVE  f[i] = IF i = 1 THEN seqs[i] ELSE f[i - 1] \o seqs[i]
BY Zenon DEF Flattens

LEMMA ConcatIsAssociative ==
  ASSUME NEW S
  PROVE  \A r, s, t \in Seq(S) : (r \o s) \o t = r \o (s \o t)
BY ConcatAssociative

LEMMA FlattensExists ==
  ASSUME NEW S, NEW seqs \in Seq(Seq(S))
  PROVE  \E f \in [1..Len(seqs) -> Seq(S)] : Flattens(f, seqs)
<1> DEFINE Upto(n, f) ==
             \A i \in 1..n :
               f[i] = IF i = 1 THEN seqs[i] ELSE f[i - 1] \o seqs[i]
           Good == {n \in Nat : n <= Len(seqs) =>
                                  \E f \in [1..n -> Seq(S)] : Upto(n, f)}
<1>1. Len(seqs) \in Nat /\ \A i \in 1..Len(seqs) : seqs[i] \in Seq(S)
  BY LenProperties, ElementOfSeq
<1>2. 0 \in Good
  <2>1. [i \in 1..0 |-> seqs[i]] \in [1..0 -> Seq(S)]
    OBVIOUS
  <2>2. Upto(0, [i \in 1..0 |-> seqs[i]])
    OBVIOUS
  <2> HIDE DEF Upto
  <2> QED
    BY <2>1, <2>2
<1>3. ASSUME NEW n \in Nat, n \in Good PROVE n + 1 \in Good
  <2> SUFFICES ASSUME n + 1 <= Len(seqs)
               PROVE  \E f \in [1..n + 1 -> Seq(S)] : Upto(n + 1, f)
    <3>1. n + 1 \in Nat
      OBVIOUS
    <3> QED
      BY <3>1, Zenon
  <2>1. PICK f \in [1..n -> Seq(S)] : Upto(n, f)
    <3> HIDE DEF Upto
    <3> QED
      BY <1>1, <1>3
  <2> DEFINE g == [i \in 1..n + 1 |->
                     IF i <= n THEN f[i]
                     ELSE IF i = 1 THEN seqs[i] ELSE f[n] \o seqs[i]]
  <2>2. ASSUME NEW i \in 1..n + 1
        PROVE  /\ g[i] \in Seq(S)
               /\ g[i] = IF i = 1 THEN seqs[i] ELSE g[i - 1] \o seqs[i]
    <3>1. CASE i <= n
      <4>1. i \in 1..n /\ g[i] = f[i] /\ (i # 1 => g[i - 1] = f[i - 1])
        BY <3>1
      <4>2. f[i] = IF i = 1 THEN seqs[i] ELSE f[i - 1] \o seqs[i]
        BY <2>1, <4>1
      <4> HIDE DEF g
      <4> QED
        BY <4>1, <4>2
    <3>2. CASE i = n + 1 /\ i = 1
      BY <1>1, <3>2
    <3>3. CASE i = n + 1 /\ i # 1
      <4>1. n \in 1..n /\ f[n] \in Seq(S) /\ seqs[i] \in Seq(S)
        BY <1>1, <2>1, <3>3
      <4>2. i - 1 = n /\ ~(i <= n) /\ n \in 1..n + 1 /\ n <= n
        BY <3>3, <4>1
      <4>3. g[i] = f[n] \o seqs[i] /\ g[n] = f[n]
        BY <3>3, <4>2
      <4>4. f[n] \o seqs[i] \in Seq(S)
        BY <4>1, ConcatProperties
      <4> HIDE DEF g
      <4> QED
        BY <3>3, <4>2, <4>3, <4>4
    <3> QED
      BY <3>1, <3>2, <3>3
  <2>3. g \in [1..n + 1 -> Seq(S)]
    BY <2>2
  <2>4. Upto(n + 1, g)
    BY <2>2
  <2> HIDE DEF g, Upto
  <2> QED
    BY <2>3, <2>4
<1>4. Len(seqs) \in Good
  <2> HIDE DEF Good
  <2> QED
    BY <1>1, <1>2, <1>3, Induction
<1>5. PICK f \in [1..Len(seqs) -> Seq(S)] : Upto(Len(seqs), f)
  <2> HIDE DEF Upto
  <2> QED
    BY <1>1, <1>4
<1> QED
  BY <1>5 DEF Flattens

LEMMA FlattensIsUnique ==
  ASSUME NEW S, NEW seqs \in Seq(S),
         NEW f, Flattens(f, seqs), NEW g, Flattens(g, seqs)
  PROVE  f = g
<1> DEFINE Same == {n \in Nat : n + 1 <= Len(seqs) => f[n + 1] = g[n + 1]}
<1>1. Len(seqs) \in Nat
  BY LenProperties
<1>2. 0 \in Same
  <2> SUFFICES ASSUME 1 <= Len(seqs) PROVE f[1] = g[1]
    OBVIOUS
  <2>1. 1 \in 1..Len(seqs)
    BY <1>1
  <2> QED
    BY <2>1, FlattensAt
<1>3. ASSUME NEW n \in Nat, n \in Same PROVE n + 1 \in Same
  <2> SUFFICES ASSUME n + 2 <= Len(seqs) PROVE f[n + 2] = g[n + 2]
    OBVIOUS
  <2>1. f[n + 1] = g[n + 1]
    BY <1>1, <1>3
  <2>2. n + 2 \in 1..Len(seqs) /\ n + 2 # 1 /\ (n + 2) - 1 = n + 1
    BY <1>1
  <2> QED
    BY <2>1, <2>2, FlattensAt
<1>4. Nat \subseteq Same
  <2> HIDE DEF Same
  <2> QED
    BY <1>2, <1>3, Induction
<1>5. ASSUME NEW i \in 1..Len(seqs) PROVE f[i] = g[i]
  <2>1. i - 1 \in Nat /\ (i - 1) + 1 = i /\ i <= Len(seqs)
    BY <1>1
  <2>2. i - 1 \in Same
    BY <1>4, <2>1
  <2> QED
    BY <2>1, <2>2
<1>6. /\ f = [i \in 1..Len(seqs) |-> f[i]]
      /\ g = [i \in 1..Len(seqs) |-> g[i]]
  BY DEF Flattens
<1> QED
  BY <1>5, <1>6

LEMMA FlattenDef ==
  ASSUME NEW S, NEW seqs \in Seq(S), seqs # <<>>,
         NEW f, Flattens(f, seqs)
  PROVE  FlattenSeq(seqs) = f[Len(seqs)]
<1> DEFINE the == CHOOSE h : Flattens(h, seqs)
<1>1. Len(seqs) # 0
  BY EmptySeq
<1>2. FlattenSeq(seqs) = the[Len(seqs)]
  BY <1>1 DEF FlattenSeq, Flattens
<1>3. Flattens(the, seqs)
  BY Zenon
<1>4. the = f
  BY <1>3, FlattensIsUnique
<1> QED
  BY <1>2, <1>4

LEMMA FlattenIsSeq ==
  ASSUME NEW S, NEW seqs \in Seq(Seq(S))
  PROVE  FlattenSeq(seqs) \in Seq(S)
<1>1. CASE seqs = <<>>
  BY <1>1, EmptySeq DEF FlattenSeq
<1>2. CASE seqs # <<>>
  <2>1. PICK f \in [1..Len(seqs) -> Seq(S)] : Flattens(f, seqs)
    BY FlattensExists
  <2>2. FlattenSeq(seqs) = f[Len(seqs)]
    BY <1>2, <2>1, FlattenDef
  <2>3. Len(seqs) \in 1..Len(seqs)
    BY <1>2, EmptySeq
  <2> QED
    BY <2>1, <2>2, <2>3
<1> QED
  BY <1>1, <1>2

LEMMA FlattenAppend ==
  ASSUME NEW S, NEW seqs \in Seq(Seq(S)), NEW s \in Seq(S)
  PROVE  FlattenSeq(Append(seqs, s)) = FlattenSeq(seqs) \o s
<1> DEFINE more == Append(seqs, s)
<1>1. /\ more \in Seq(Seq(S)) /\ more # <<>> /\ Len(more) = Len(seqs) + 1
      /\ Len(seqs) \in Nat
      /\ \A i \in 1..Len(seqs) : more[i] = seqs[i]
      /\ more[Len(seqs) + 1] = s
  BY AppendProperties, LenProperties
<1> HIDE DEF more
<1>2. PICK g \in [1..Len(more) -> Seq(S)] : Flattens(g, more)
  BY <1>1, FlattensExists
<1>3. FlattenSeq(more) = g[Len(more)] /\ Len(more) \in 1..Len(more)
  BY <1>1, <1>2, FlattenDef
<1>4. CASE seqs = <<>>
  <2>1. Len(seqs) = 0 /\ Len(more) = 1 /\ FlattenSeq(seqs) = <<>>
    BY <1>1, <1>4 DEF FlattenSeq
  <2>2. g[1] = s
    BY <1>1, <1>2, <1>3, <2>1, FlattensAt
  <2>3. <<>> \o s = s
    BY ConcatEmptySeq
  <2> QED
    BY <1>3, <2>1, <2>2, <2>3 DEF more
<1>5. CASE seqs # <<>>
  <2> DEFINE f == [i \in 1..Len(seqs) |-> g[i]]
  <2>1. Len(seqs) # 0
    BY <1>5, EmptySeq
  <2>2. ASSUME NEW i \in 1..Len(seqs)
        PROVE  f[i] = IF i = 1 THEN seqs[i] ELSE f[i - 1] \o seqs[i]
    <3>1. i \in 1..Len(more) /\ (i # 1 => i - 1 \in 1..Len(seqs))
      BY <1>1
    <3>2. g[i] = IF i = 1 THEN more[i] ELSE g[i - 1] \o more[i]
      BY <1>2, <3>1, FlattensAt
    <3> QED
      BY <1>1, <3>1, <3>2
  <2>3. Flattens(f, seqs)
    <3>1. f = [i \in 1..Len(seqs) |-> f[i]]
      OBVIOUS
    <3> HIDE DEF f
    <3> QED
      BY <2>2, <3>1 DEF Flattens
  <2>4. FlattenSeq(seqs) = f[Len(seqs)]
    <3> HIDE DEF f
    <3> QED
      BY <1>5, <2>3, FlattenDef
  <2>5. FlattenSeq(seqs) = g[Len(seqs)]
    BY <1>1, <2>1, <2>4
  <2>6. g[Len(more)] = g[Len(seqs)] \o s
    <3>1. /\ Len(more) # 1 /\ Len(more) - 1 = Len(seqs)
          /\ more[Len(more)] = s
      BY <1>1, <2>1
    <3>2. g[Len(more)] = IF Len(more) = 1 THEN more[Len(more)]
                         ELSE g[Len(more) - 1] \o more[Len(more)]
      BY <1>2, <1>3, FlattensAt
    <3> QED
      BY <3>1, <3>2
  <2> QED
    BY <1>3, <2>5, <2>6 DEF more
<1> QED
  BY <1>4, <1>5

LEMMA FlattenHead ==
  ASSUME NEW S, NEW seqs \in Seq(Seq(S)), seqs # <<>>
  PROVE  FlattenSeq(seqs) = Head(seqs) \o FlattenSeq(Tail(seqs))
<1> DEFINE rest == Tail(seqs)
<1>1. /\ rest \in Seq(Seq(S)) /\ Len(rest) = Len(seqs) - 1
      /\ Len(seqs) \in Nat \ {0}
      /\ \A i \in 1..Len(rest) : rest[i] = seqs[i + 1]
      /\ Head(seqs) = seqs[1]
      /\ \A i \in 1..Len(seqs) : seqs[i] \in Seq(S)
  BY HeadTailProperties, EmptySeq, LenProperties, ElementOfSeq
<1>0. \A r, s, t \in Seq(S) : (r \o s) \o t = r \o (s \o t)
  BY ConcatIsAssociative
<1> HIDE DEF rest
<1>2. PICK f \in [1..Len(rest) -> Seq(S)] : Flattens(f, rest)
  BY <1>1, FlattensExists
<1> DEFINE g == [i \in 1..Len(seqs) |->
                   IF i = 1 THEN seqs[1] ELSE seqs[1] \o f[i - 1]]
<1>3. ASSUME NEW i \in 1..Len(seqs)
      PROVE  g[i] = IF i = 1 THEN seqs[i] ELSE g[i - 1] \o seqs[i]
  <2>1. CASE i = 1
    BY <2>1
  <2>2. CASE i # 1
    <3>1. /\ i - 1 \in 1..Len(rest) /\ i - 1 \in 1..Len(seqs)
          /\ rest[i - 1] = seqs[i]
      BY <1>1, <2>2
    <3>2. g[i] = seqs[1] \o f[i - 1]
      BY <2>2
    <3>3. f[i - 1] = IF i - 1 = 1 THEN rest[i - 1]
                     ELSE f[(i - 1) - 1] \o rest[i - 1]
      BY <1>2, <3>1, FlattensAt
    <3>4. CASE i - 1 = 1
      <4>1. g[i - 1] = seqs[1]
        BY <3>1, <3>4
      <4> QED
        BY <2>2, <3>1, <3>2, <3>3, <3>4, <4>1
    <3>5. CASE i - 1 # 1
      <4>1. g[i - 1] = seqs[1] \o f[(i - 1) - 1]
        BY <3>1, <3>5
      <4>2. (i - 1) - 1 \in 1..Len(rest)
        BY <3>1, <3>5
      <4>3. (seqs[1] \o f[(i - 1) - 1]) \o seqs[i]
              = seqs[1] \o (f[(i - 1) - 1] \o seqs[i])
        <5> HIDE DEF g
        <5>1. f[(i - 1) - 1] \in Seq(S)
          BY <1>2, <4>2
        <5>2. seqs[i] \in Seq(S) /\ seqs[1] \in Seq(S)
          BY <1>1
        <5> QED
          BY <1>0, <5>1, <5>2
      <4> HIDE DEF g
      <4> QED
        BY <2>2, <3>1, <3>2, <3>3, <3>5, <4>1, <4>3
    <3> QED
      BY <3>4, <3>5
  <2> QED
    BY <2>1, <2>2
<1>4. Flattens(g, seqs)
  <2>1. g = [i \in 1..Len(seqs) |-> g[i]]
    OBVIOUS
  <2> HIDE DEF g
  <2> QED
    BY <1>3, <2>1 DEF Flattens
<1>5. FlattenSeq(seqs) = g[Len(seqs)]
  <2> HIDE DEF g
  <2> QED
    BY <1>4, FlattenDef
<1>6. CASE rest = <<>>
  <2>1. FlattenSeq(rest) = <<>> /\ Len(seqs) = 1
    BY <1>1, <1>6, EmptySeq DEF FlattenSeq
  <2>2. g[1] = seqs[1] /\ seqs[1] \o <<>> = seqs[1]
    BY <1>1, <2>1, ConcatEmptySeq
  <2> QED
    BY <1>1, <1>5, <2>1, <2>2 DEF rest
<1>7. CASE rest # <<>>
  <2>1. Len(rest) # 0
    BY <1>1, <1>7, EmptySeq
  <2>2. FlattenSeq(rest) = f[Len(rest)]
    BY <1>1, <1>2, <1>7, FlattenDef
  <2>3. g[Len(seqs)] = seqs[1] \o f[Len(rest)]
    <3>1. /\ Len(seqs) \in 1..Len(seqs) /\ Len(seqs) # 1
          /\ Len(seqs) - 1 = Len(rest)
      BY <1>1, <2>1
    <3> QED
      BY <3>1
  <2> QED
    BY <1>1, <1>5, <2>2, <2>3 DEF rest
<1> QED
  BY <1>6, <1>7

-----------------------------------------------------------------------------
(* Words *)

LEMMA RangeAt ==
  ASSUME NEW S, NEW s \in Seq(S), NEW x
  PROVE  /\ x \in Range(s) <=> \E i \in 1..Len(s) : s[i] = x
         /\ Contains(s, x) <=> x \in Range(s)
BY RangeEquality DEF Contains

LEMMA CutAt ==
  ASSUME NEW S, NEW s \in Seq(S), NEW separator, NEW n \in 1..Len(s) + 1,
         n <= Len(s) => s[n] = separator,
         \A i \in 1..n - 1 : s[i] # separator
  PROVE  Cut(s, separator) = n
<1> DEFINE cuts == {i \in DOMAIN s : s[i] = separator} \cup {Len(s) + 1}
<1>1. Len(s) \in Nat /\ DOMAIN s = 1..Len(s)
  BY LenProperties
<1>2. n \in cuts /\ \A i \in cuts : i \in Int /\ n <= i
  BY <1>1
<1>3. ASSUME NEW x \in cuts, \A y \in cuts : x <= y PROVE x = n
  <2> HIDE DEF cuts
  <2> QED
    BY <1>2, <1>3
<1>4. Min(cuts) = n
  <2> HIDE DEF cuts
  <2> QED
    BY <1>2, <1>3 DEF Min
<1> QED
  BY <1>4 DEF Cut

\* The first word is what is before the first separator ...
LEMMA FirstOfMany ==
  ASSUME NEW S, NEW s \in Seq(S), NEW separator \in S,
         separator \notin Range(s), NEW t \in Seq(S)
  PROVE  LET text == (s \o <<separator>>) \o t
         IN  First(text, separator) = s /\ Rest(text, separator) = t
<1> DEFINE one  == <<separator>>
           head == s \o one
           text == head \o t
           n    == Len(s) + 1
<1>1. one \in Seq(S) /\ Len(one) = 1 /\ one[1] = separator
  <2>1. Len(one) = 1 /\ one[1] = separator
    OBVIOUS
  <2>2. one \in Seq(S)
    OBVIOUS
  <2> QED
    BY <2>1, <2>2
<1> HIDE DEF one
<1>2. /\ Len(s) \in Nat /\ Len(t) \in Nat
      /\ n \in Nat /\ n - Len(s) = 1 /\ ~(n <= Len(s)) /\ n \in 1..n
      /\ 1..n - 1 = 1..Len(s) /\ n = Len(s) + 1
  BY LenProperties
<1>3. /\ head \in Seq(S) /\ Len(head) = n
      /\ \A i \in 1..n : head[i] = IF i <= Len(s) THEN s[i]
                                   ELSE one[i - Len(s)]
  BY <1>1, ConcatProperties
<1> HIDE DEF head, n
<1>4. head[n] = separator /\ \A i \in 1..Len(s) : head[i] = s[i]
  BY <1>1, <1>2, <1>3
<1>5. /\ text \in Seq(S) /\ Len(text) = n + Len(t)
      /\ \A i \in 1..n + Len(t) :
           text[i] = IF i <= n THEN head[i] ELSE t[i - n]
  BY <1>3, ConcatProperties
<1> HIDE DEF text
<1>6. Cut(text, separator) = n
  <2>1. \A i \in 1..n - 1 : text[i] # separator
    <3>1. \A i \in 1..Len(s) : s[i] # separator
      BY RangeAt
    <3> QED
      BY <1>2, <1>4, <1>5, <3>1
  <2>2. n \in 1..Len(text) + 1 /\ text[n] = separator
    BY <1>2, <1>4, <1>5
  <2> QED
    BY <1>5, <2>1, <2>2, CutAt
<1>7. First(text, separator) = s
  <2>1. ASSUME NEW i \in 1..Len(s) PROVE text[i] = s[i] /\ text[i] \in S
    <3>1. i \in 1..n + Len(t) /\ i <= n /\ s[i] \in S
      BY <1>2, ElementOfSeq
    <3> QED
      BY <1>4, <1>5, <3>1
  <2>2. /\ SubSeq(text, 1, Len(s)) \in Seq(S)
        /\ Len(SubSeq(text, 1, Len(s))) = Len(s)
        /\ \A i \in 1..Len(s) : SubSeq(text, 1, Len(s))[i] = s[i]
    BY <1>2, <2>1, SubSeqProperties
  <2>3. SubSeq(text, 1, Len(s)) = s
    BY <2>2, SeqEqual
  <2> QED
    BY <1>2, <1>6, <2>3 DEF First
<1>8. Rest(text, separator) = t
  <2> DEFINE rest == SubSeq(text, n + 1, n + Len(t))
  <2>1. \A i \in n + 1..n + Len(t) : text[i] = t[i - n] /\ text[i] \in S
    BY <1>2, <1>5, ElementOfSeq
  <2>2. /\ rest \in Seq(S) /\ Len(rest) = Len(t)
        /\ \A i \in 1..Len(t) : rest[i] = t[i]
    BY <1>2, <2>1, SubSeqProperties
  <2>3. rest = t
    <3> HIDE DEF rest
    <3> QED
      BY <2>2, SeqEqual
  <2> QED
    BY <1>5, <1>6, <2>3 DEF Rest
<1> QED
  BY <1>7, <1>8 DEF text, head, one

\* ... and all of the text if there is none.
LEMMA FirstOfOne ==
  ASSUME NEW S, NEW s \in Seq(S), NEW separator, separator \notin Range(s)
  PROVE  First(s, separator) = s
<1>1. Len(s) \in Nat
  BY LenProperties
<1>2. \A i \in 1..Len(s) : s[i] # separator
  BY RangeAt
<1>3. Cut(s, separator) = Len(s) + 1
  <2>1. /\ Len(s) + 1 \in 1..Len(s) + 1 /\ ~(Len(s) + 1 <= Len(s))
        /\ 1..(Len(s) + 1) - 1 = 1..Len(s)
    BY <1>1
  <2> QED
    BY <1>2, <2>1, CutAt
<1> QED
  BY <1>1, <1>3, SubSeqFull DEF First

LEMMA TrimAt ==
  ASSUME NEW S, "space" \in S, NEW s \in Seq(S),
         s # <<>> => s[1] # "space" /\ s[Len(s)] # "space"
  PROVE  Trim(<<"space">> \o s) = s
<1> DEFINE one   == <<"space">>
           text  == one \o s
           inner == {i \in DOMAIN text : text[i] # "space"}
<1>1. one \in Seq(S) /\ Len(one) = 1 /\ one[1] = "space"
  <2>1. Len(one) = 1 /\ one[1] = "space"
    OBVIOUS
  <2>2. one \in Seq(S)
    OBVIOUS
  <2> QED
    BY <2>1, <2>2
<1>2. Len(s) \in Nat
  BY LenProperties
<1> HIDE DEF one
<1>3. /\ text \in Seq(S) /\ Len(text) = Len(s) + 1
      /\ DOMAIN text = 1..Len(s) + 1
      /\ text[1] = "space" /\ \A i \in 1..Len(s) : text[i + 1] = s[i]
  <2>1. /\ text \in Seq(S) /\ Len(text) = Len(one) + Len(s)
        /\ \A i \in 1..Len(one) + Len(s) :
             text[i] = IF i <= Len(one) THEN one[i] ELSE s[i - Len(one)]
    BY <1>1, ConcatProperties
  <2>2. DOMAIN text = 1..Len(text)
    BY <2>1, LenProperties
  <2> HIDE DEF text
  <2> QED
    BY <1>1, <1>2, <2>1, <2>2
<1> HIDE DEF text
<1>4. CASE s = <<>>
  <2>1. Len(s) = 0
    BY <1>4
  <2>2. inner = {}
    BY <1>3, <2>1
  <2> QED
    BY <1>4, <2>2 DEF Trim, text, one
<1>5. CASE s # <<>>
  <2> DEFINE m == Len(s) + 1
  <2>1. Len(s) \in Nat \ {0}
    BY <1>5, EmptySeq
  <2>2. /\ 2 \in inner /\ m \in inner
        /\ \A i \in inner : i \in Int /\ 2 <= i /\ i <= m
    <3>1. text[2] = s[1] /\ text[m] = s[Len(s)]
      BY <1>3, <2>1
    <3> QED
      BY <1>3, <1>5, <2>1, <3>1
  <2> HIDE DEF inner, m
  <2>3. Min(inner) = 2
    <3>1. \A x \in inner : (\A y \in inner : x <= y) => x = 2
      BY <2>2
    <3> QED
      BY <2>2, <3>1 DEF Min
  <2>4. Max(inner) = m
    <3>1. \A x \in inner : (\A y \in inner : x >= y) => x = m
      BY <2>2
    <3> QED
      BY <2>2, <3>1 DEF Max
  <2>5. SubSeq(text, 2, m) = s
    <3> DEFINE sub == SubSeq(text, 2, m)
    <3>1. ASSUME NEW i \in 2..m PROVE text[i] \in S
      BY <1>3, ElementOfSeq DEF m
    <3>2. /\ sub \in Seq(S) /\ Len(sub) = Len(s)
          /\ \A i \in 1..Len(s) : sub[i] = text[i + 1]
      BY <2>1, <3>1, SubSeqProperties DEF m
    <3> HIDE DEF sub
    <3>3. sub = s
      BY <1>3, <3>2, SeqEqual
    <3> QED
      BY <3>3 DEF sub
  <2> QED
    BY <2>2, <2>3, <2>4, <2>5 DEF Trim, text, one, inner
<1> QED
  BY <1>4, <1>5

LEMMA OneSymbol ==
  ASSUME NEW S, NEW x \in S
  PROVE  /\ <<x>> \in Seq(S) /\ Len(<<x>>) = 1 /\ <<x>>[1] = x
         /\ Range(<<x>>) = {x}
<1>1. <<x>> \in Seq(S) /\ Len(<<x>>) = 1 /\ <<x>>[1] = x
  OBVIOUS
<1>2. DOMAIN <<x>> = {1}
  OBVIOUS
<1> QED
  BY <1>1, <1>2 DEF Range

LEMMA TailBehindOne ==
  ASSUME NEW S, NEW x \in S, NEW s \in Seq(S)
  PROVE  /\ <<x>> \o s \in Seq(S) /\ <<x>> \o s # <<>>
         /\ Tail(<<x>> \o s) = s
         /\ Range(<<x>> \o s) = {x} \cup Range(s)
<1> DEFINE one  == <<x>>
           text == one \o s
<1>1. one \in Seq(S) /\ Len(one) = 1 /\ Range(one) = {x}
  BY OneSymbol
<1>2. Len(s) \in Nat
  BY LenProperties
<1> HIDE DEF one
<1>3. /\ text \in Seq(S) /\ Len(text) = Len(one) + Len(s)
      /\ \A i \in 1..Len(one) + Len(s) :
           text[i] = IF i <= Len(one) THEN one[i] ELSE s[i - Len(one)]
  BY <1>1, ConcatProperties
<1>4. text # <<>>
  BY <1>1, <1>2, <1>3, EmptySeq
<1>5. Range(text) = {x} \cup Range(s)
  BY <1>1, RangeConcatenation
<1> HIDE DEF text
<1>6. /\ Tail(text) \in Seq(S) /\ Len(Tail(text)) = Len(s)
      /\ \A i \in 1..Len(s) : Tail(text)[i] = text[i + 1]
  BY <1>1, <1>2, <1>3, <1>4, HeadTailProperties
<1>7. \A i \in 1..Len(s) : text[i + 1] = s[i]
  BY <1>1, <1>2, <1>3
<1>8. Tail(text) = s
  BY <1>6, <1>7, SeqEqual
<1> QED
  BY <1>3, <1>4, <1>5, <1>8 DEF text, one

LEMMA Symbols ==
  /\ Looked \subseteq Symbol
  /\ {"space", "dollar", "dot", "number", "cr", "lf"} \subseteq Symbol
BY DEF Symbol

LEMMA RangeOfJoin ==
  ASSUME NEW S, NEW s \in Seq(S), NEW separator \in S, NEW t \in Seq(S)
  PROVE  /\ Join(s, separator, t) \in Seq(S)
         /\ Range(Join(s, separator, t))
              = Range(s) \cup {separator} \cup Range(t)
<1> DEFINE one  == <<separator>>
           head == s \o one
<1>1. one \in Seq(S) /\ Range(one) = {separator}
  BY OneSymbol
<1> HIDE DEF one
<1>2. head \in Seq(S) /\ Range(head) = Range(s) \cup {separator}
  BY <1>1, ConcatProperties, RangeConcatenation
<1> HIDE DEF head
<1>3. /\ head \o t \in Seq(S)
      /\ Range(head \o t) = Range(s) \cup {separator} \cup Range(t)
  BY <1>2, ConcatProperties, RangeConcatenation
<1> QED
  BY <1>3 DEF Join, head, one

-----------------------------------------------------------------------------
(* Commands and their texts *)

LEMMA ParseConnectText ==
  ASSUME NEW a \in Word, NEW k \in Word
  PROVE  LET text == Join(<<"CONNECT">>, "space",
                          Join(a, "space", <<"dollar">> \o k))
         IN  /\ text \in Line /\ Looked \cap Range(text) = {"CONNECT"}
             /\ ParseConnect(text)
                  = [kind |-> "Connect", channel |-> a, key |-> k]
<1> DEFINE connect == <<"CONNECT">>
           last    == <<"dollar">> \o k
           rest    == Join(a, "space", last)
           text    == Join(connect, "space", rest)
<1>1. "CONNECT" \in Symbol /\ "space" \in Symbol /\ "dollar" \in Symbol
  BY Symbols DEF Looked
<1>2. /\ a \in Seq(Symbol) /\ k \in Seq(Symbol)
      /\ (Looked \cup {"cr", "lf", "space"}) \cap Range(a) = {}
      /\ (Looked \cup {"cr", "lf", "space"}) \cap Range(k) = {}
  BY DEF Word, Plain, Line
<1>3. /\ connect \in Seq(Symbol) /\ Range(connect) = {"CONNECT"}
      /\ <<"dollar">> \in Seq(Symbol) /\ Range(<<"dollar">>) = {"dollar"}
  BY <1>1, OneSymbol
<1>4. /\ last \in Seq(Symbol) /\ Range(last) = {"dollar"} \cup Range(k)
      /\ last # <<>> /\ Tail(last) = k
  BY <1>1, <1>2, <1>3, TailBehindOne
<1> HIDE DEF connect, last
<1>5. /\ rest \in Seq(Symbol)
      /\ Range(rest) = Range(a) \cup {"space"} \cup Range(last)
  BY <1>1, <1>2, <1>4, RangeOfJoin
<1>6. First(rest, "space") = a /\ Rest(rest, "space") = last
  BY <1>1, <1>2, <1>4, FirstOfMany DEF Join
<1>7. Contains(rest, "space")
  BY <1>5, RangeAt
<1> HIDE DEF rest
<1>8. /\ text \in Seq(Symbol)
      /\ Range(text) = {"CONNECT"} \cup {"space"} \cup Range(rest)
  BY <1>1, <1>3, <1>5, RangeOfJoin
<1>9. Rest(text, "space") = rest
  BY <1>1, <1>3, <1>5, FirstOfMany DEF Join
<1>10. First(last, "space") = last
  BY <1>2, <1>4, FirstOfOne
<1> HIDE DEF text
<1>11. ParseConnect(text) = [kind |-> "Connect", channel |-> a, key |-> k]
  BY <1>4, <1>6, <1>7, <1>9, <1>10 DEF ParseConnect
<1>12. text \in Line /\ Looked \cap Range(text) = {"CONNECT"}
  BY <1>2, <1>4, <1>5, <1>8 DEF Line, Looked
<1> QED
  BY <1>11, <1>12 DEF text, rest, last, connect

LEMMA ParseAttributeText ==
  ASSUME NEW k \in Plain, NEW v \in Trimmed
  PROVE  LET text == Join(k, "colon", <<"space">> \o v)
         IN  /\ text \in Line /\ Looked \cap Range(text) = {"colon"}
             /\ ParseAttribute(text)
                  = [kind |-> "Attribute", key |-> k, value |-> v]
<1> DEFINE last == <<"space">> \o v
           text == Join(k, "colon", last)
<1>1. "colon" \in Symbol /\ "space" \in Symbol
  BY Symbols DEF Looked
<1>2. /\ k \in Seq(Symbol) /\ v \in Seq(Symbol)
      /\ (Looked \cup {"cr", "lf"}) \cap Range(k) = {}
      /\ (Looked \cup {"cr", "lf"}) \cap Range(v) = {}
      /\ v # <<>> => v[1] # "space" /\ v[Len(v)] # "space"
  BY DEF Trimmed, Plain, Line
<1>3. /\ <<"space">> \in Seq(Symbol) /\ Range(<<"space">>) = {"space"}
  BY <1>1, OneSymbol
<1>4. /\ last \in Seq(Symbol) /\ Range(last) = {"space"} \cup Range(v)
      /\ Trim(last) = v
  BY <1>1, <1>2, <1>3, TailBehindOne, TrimAt
<1> HIDE DEF last
<1>5. /\ text \in Seq(Symbol)
      /\ Range(text) = Range(k) \cup {"colon"} \cup Range(last)
  BY <1>1, <1>2, <1>4, RangeOfJoin
<1>6. "colon" \notin Range(k) /\ "colon" \notin Range(last)
  BY <1>2, <1>4 DEF Looked
<1>7. First(text, "colon") = k /\ Rest(text, "colon") = last
  BY <1>1, <1>2, <1>4, <1>6, FirstOfMany DEF Join
<1>8. First(last, "colon") = last
  BY <1>4, <1>6, FirstOfOne
<1> HIDE DEF text
<1>9. ParseAttribute(text) = [kind |-> "Attribute", key |-> k, value |-> v]
  BY <1>4, <1>7, <1>8 DEF ParseAttribute
<1>10. text \in Line /\ Looked \cap Range(text) = {"colon"}
  BY <1>2, <1>4, <1>5 DEF Line, Looked
<1> QED
  BY <1>9, <1>10 DEF text, last

\* Which way Parse goes depends on the words it looks for only.
LEMMA ParseWay ==
  ASSUME NEW S, NEW text \in Seq(S)
  PROVE  Parse(text) =
           IF      "HMAC" \in Range(text)       THEN [kind |-> "HMAC"]
           ELSE IF "DISCONNECT" \in Range(text) THEN [kind |-> "Disconnect"]
           ELSE IF "CONNECT" \in Range(text)    THEN ParseConnect(text)
           ELSE IF "colon" \in Range(text)      THEN ParseAttribute(text)
           ELSE IF text = <<"dot">>             THEN [kind |-> "Dot"]
           ELSE IF "PING" \in Range(text)       THEN [kind |-> "Ping"]
           ELSE Failure("error")
<1>1. \A w : Contains(text, w) <=> w \in Range(text)
  BY RangeAt
<1>2. /\ Has(text, "HMAC") <=> "HMAC" \in Range(text)
      /\ Has(text, "DISCONNECT") <=> "DISCONNECT" \in Range(text)
      /\ Has(text, "CONNECT") <=>
           "CONNECT" \in Range(text) \/ "DISCONNECT" \in Range(text)
      /\ Has(text, "colon") <=> "colon" \in Range(text)
      /\ Has(text, "PING") <=> "PING" \in Range(text)
  BY <1>1 DEF Has
<1> QED
  BY <1>2 DEF Parse

\* A CONNECT with less than two spaces has no third word.
LEMMA ShortConnect ==
  ASSUME NEW S, NEW text \in Seq(S),
         \A i, j \in DOMAIN text :
           text[i] = "space" /\ text[j] = "space" => i = j
  PROVE  ParseConnect(text) = Failure("panic")
<1> DEFINE rest == Rest(text, "space")
<1>1. Len(text) \in Nat /\ DOMAIN text = 1..Len(text)
  BY LenProperties
<1>2. ~Contains(rest, "space")
  <2>1. CASE \A i \in 1..Len(text) : text[i] # "space"
    <3>1. Cut(text, "space") = Len(text) + 1
      <4>1. /\ Len(text) + 1 \in 1..Len(text) + 1
            /\ ~(Len(text) + 1 <= Len(text))
            /\ 1..(Len(text) + 1) - 1 = 1..Len(text)
        BY <1>1
      <4> QED
        BY <2>1, <4>1, CutAt
    <3>2. rest = <<>>
      <4>1. /\ Len(text) + 2 \in Int /\ Len(text) \in Int
            /\ Len(text) < Len(text) + 2 /\ (Len(text) + 1) + 1 = Len(text) + 2
        BY <1>1
      <4> QED
        BY <3>1, <4>1, SubSeqEmpty DEF Rest
    <3> QED
      BY <3>2 DEF Contains
  <2>2. CASE \E i \in 1..Len(text) : text[i] = "space"
    <3>1. PICK n \in 1..Len(text) : text[n] = "space"
      BY <2>2
    <3>2. \A i \in 1..Len(text) : i # n => text[i] # "space"
      BY <1>1, <3>1
    <3>3. Cut(text, "space") = n
      <4>1. n \in 1..Len(text) + 1 /\ \A i \in 1..n - 1 : text[i] # "space"
        BY <1>1, <3>2
      <4> QED
        BY <3>1, <4>1, CutAt
    <3>4. /\ Len(rest) = IF n + 1 <= Len(text) THEN Len(text) - (n + 1) + 1
                         ELSE 0
          /\ \A i \in 1..Len(text) - (n + 1) + 1 :
               rest[i] = text[(n + 1) + i - 1]
      <4>1. \A i \in n + 1..Len(text) : text[i] \in S
        BY <1>1, ElementOfSeq
      <4>2. n + 1 \in Int /\ Len(text) \in Int
        BY <1>1
      <4> QED
        BY <3>3, <4>1, <4>2, SubSeqProperties DEF Rest
    <3> HIDE DEF rest
    <3>5. ASSUME NEW i \in 1..Len(rest) PROVE rest[i] # "space"
      <4>1. i \in 1..Len(text) - (n + 1) + 1
        <5>1. CASE n + 1 <= Len(text)
          BY <3>4, <5>1
        <5>2. CASE ~(n + 1 <= Len(text))
          <6>1. Len(rest) = 0
            BY <3>4, <5>2
          <6> QED
            BY <6>1
        <5> QED
          BY <5>1, <5>2
      <4>2. i \in Int /\ i >= 1 /\ i <= Len(text) - n
        BY <1>1, <4>1
      <4>3. (n + 1) + i - 1 \in 1..Len(text) /\ (n + 1) + i - 1 # n
        BY <1>1, <4>2
      <4> QED
        BY <3>2, <3>4, <4>1, <4>3
    <3> QED
      BY <3>5 DEF Contains
  <2> QED
    BY <2>1, <2>2
<1> QED
  BY <1>2 DEF ParseConnect

\* decode gives back each command from its text, and refuses the others.
LEMMA ParseText ==
  ASSUME NEW c \in FtlCommand
  PROVE  /\ Text(c) \in Line
         /\ ~Refused(c) => Parse(Text(c)) = c
         /\ Refused(c) => Parse(Text(c)).kind \in {"error", "panic"}
<1> DEFINE text == Text(c)
<1>0. /\ Looked \subseteq Symbol
      /\ {"space", "dollar", "dot", "number", "cr", "lf"} \subseteq Symbol
  BY Symbols
<1>1. CASE c \in [kind : {"Connect"}, channel : Word, key : Word]
  <2>1. /\ c.channel \in Word /\ c.key \in Word /\ c.kind = "Connect"
        /\ c = [kind |-> "Connect", channel |-> c.channel, key |-> c.key]
    BY <1>1
  <2>2. text = Join(<<"CONNECT">>, "space",
                    Join(c.channel, "space", <<"dollar">> \o c.key))
    BY <2>1 DEF Text
  <2>3. /\ text \in Line /\ Looked \cap Range(text) = {"CONNECT"}
        /\ ParseConnect(text) = c
    BY <2>1, <2>2, ParseConnectText
  <2> HIDE DEF text
  <2>4. Parse(text) = c
    <3>1. text \in Seq(Symbol)
      BY <2>3 DEF Line
    <3> QED
      BY <2>3, <3>1, ParseWay DEF Looked
  <2> QED
    BY <2>1, <2>3, <2>4 DEF Refused, text
<1>2. CASE c \in [kind : {"Attribute"}, key : Plain, value : Trimmed]
  <2>1. /\ c.key \in Plain /\ c.value \in Trimmed /\ c.kind = "Attribute"
        /\ c = [kind |-> "Attribute", key |-> c.key, value |-> c.value]
    BY <1>2
  <2>2. text = Join(c.key, "colon", <<"space">> \o c.value)
    BY <2>1 DEF Text
  <2>3. /\ text \in Line /\ Looked \cap Range(text) = {"colon"}
        /\ ParseAttribute(text) = c
    BY <2>1, <2>2, ParseAttributeText
  <2> HIDE DEF text
  <2>4. Parse(text) = c
    <3>1. text \in Seq(Symbol)
      BY <2>3 DEF Line
    <3> QED
      BY <2>3, <3>1, ParseWay DEF Looked
  <2> QED
    BY <2>1, <2>3, <2>4 DEF Refused, text
<1>3. CASE c \in [kind : {"HMAC", "Dot", "Ping", "Disconnect"}]
  <2>1. /\ c.kind \in {"HMAC", "Dot", "Ping", "Disconnect"}
        /\ c = [kind |-> c.kind]
    BY <1>3
  <2>2. CASE c.kind = "HMAC"
    <3>1. text = <<"HMAC">> /\ "HMAC" \in Symbol
      BY <1>0, <2>2 DEF Text, Looked
    <3>2. text \in Seq(Symbol) /\ Range(text) = {"HMAC"}
      BY <3>1, OneSymbol
    <3> HIDE DEF text
    <3> QED
      BY <2>1, <2>2, <3>2, ParseWay DEF text, Refused, Line
  <2>3. CASE c.kind = "Disconnect"
    <3>1. text = <<"DISCONNECT">> /\ "DISCONNECT" \in Symbol
      BY <1>0, <2>3 DEF Text, Looked
    <3>2. text \in Seq(Symbol) /\ Range(text) = {"DISCONNECT"}
      BY <3>1, OneSymbol
    <3> HIDE DEF text
    <3> QED
      BY <2>1, <2>3, <3>2, ParseWay DEF text, Refused, Line
  <2>4. CASE c.kind = "Dot"
    <3>1. text = <<"dot">> /\ "dot" \in Symbol
      BY <1>0, <2>4 DEF Text
    <3>2. text \in Seq(Symbol) /\ Range(text) = {"dot"}
      BY <3>1, OneSymbol
    <3> HIDE DEF text
    <3> QED
      BY <2>1, <2>4, <3>1, <3>2, ParseWay DEF text, Refused, Line
  <2>5. CASE c.kind = "Ping"
    <3> DEFINE ping == <<"PING">>
               number == <<"number">>
    <3>1. text = Join(ping, "space", number)
      BY <2>5 DEF Text
    <3>2. /\ ping \in Seq(Symbol) /\ Range(ping) = {"PING"}
          /\ number \in Seq(Symbol) /\ Range(number) = {"number"}
          /\ "space" \in Symbol
      BY <1>0, OneSymbol DEF Looked
    <3> HIDE DEF text, ping, number
    <3>3. text \in Seq(Symbol) /\ Range(text) = {"PING", "space", "number"}
      BY <3>1, <3>2, RangeOfJoin
    <3>4. text # <<"dot">>
      <4>1. Range(<<"dot">>) = {"dot"}
        BY <1>0, OneSymbol
      <4> QED
        BY <3>3, <4>1
    <3>5. Parse(text) = [kind |-> "Ping"]
      BY <3>3, <3>4, ParseWay
    <3> QED
      BY <2>1, <2>5, <3>3, <3>5 DEF text, Refused, Line
  <2> QED
    BY <2>1, <2>2, <2>3, <2>4, <2>5
<1>4. CASE c \in [kind : {"Other"}, text : Refusable]
  <2>1. c.kind = "Other" /\ text = c.text /\ text \in Refusable
    BY <1>4 DEF Text
  <2> HIDE DEF text
  <2>2. CASE text \in Plain /\ text # <<"dot">>
    <3>1. text \in Line /\ text \in Seq(Symbol) /\ Looked \cap Range(text) = {}
      BY <2>2 DEF Plain, Line
    <3>2. Parse(text) = Failure("error")
      BY <2>2, <3>1, ParseWay DEF Looked
    <3> QED
      BY <2>1, <3>1, <3>2 DEF text, Refused, Failure
  <2>3. CASE /\ text \in Line /\ Looked \cap Range(text) = {"CONNECT"}
             /\ \A i, j \in DOMAIN text :
                  text[i] = "space" /\ text[j] = "space" => i = j
    <3>1. text \in Seq(Symbol)
      BY <2>3 DEF Line
    <3>2. Parse(text) = Failure("panic")
      BY <2>3, <3>1, ShortConnect, ParseWay DEF Looked
    <3> QED
      BY <2>1, <2>3, <3>2 DEF text, Refused, Failure
  <2> QED
    BY <2>1, <2>2, <2>3 DEF Refusable
<1> QED
  BY <1>1, <1>2, <1>3, <1>4 DEF FtlCommand

-----------------------------------------------------------------------------
(* Prefixes of a stream *)

LEMMA PrefixAt ==
  ASSUME NEW S, NEW s \in Seq(S), NEW t \in Seq(S)
  PROVE  IsPrefix(s, t) <=>
           /\ Len(s) <= Len(t)
           /\ \A i \in 1..Len(s) : s[i] = t[i]
<1>1. /\ Len(s) \in Nat /\ DOMAIN s = 1..Len(s)
      /\ Len(t) \in Nat /\ DOMAIN t = 1..Len(t)
  BY LenProperties
<1>2. \A i \in 1..Len(s) : s[i] \in S
  BY ElementOfSeq
<1>3. \A i \in 1..Len(t) : t[i] \in S
  BY ElementOfSeq
<1> QED
  BY <1>1, <1>2, <1>3 DEF IsPrefix

LEMMA PrefixOfConcat ==
  ASSUME NEW S, NEW s \in Seq(S), NEW t \in Seq(S)
  PROVE  IsPrefix(s, s \o t)
<1>1. Len(s) \in Nat /\ Len(t) \in Nat
  BY LenProperties
<1>2. /\ s \o t \in Seq(S) /\ Len(s \o t) = Len(s) + Len(t)
      /\ \A i \in 1..Len(s) + Len(t) :
           (s \o t)[i] = IF i <= Len(s) THEN s[i] ELSE t[i - Len(s)]
  BY ConcatProperties
<1>3. Len(s) <= Len(s \o t) /\ \A i \in 1..Len(s) : s[i] = (s \o t)[i]
  BY <1>1, <1>2
<1> QED
  BY <1>2, <1>3, PrefixAt

LEMMA PrefixIsTransitive ==
  ASSUME NEW S, NEW r \in Seq(S), NEW s \in Seq(S), NEW t \in Seq(S),
         IsPrefix(r, s), IsPrefix(s, t)
  PROVE  IsPrefix(r, t)
<1>1. Len(r) \in Nat /\ Len(s) \in Nat /\ Len(t) \in Nat
  BY LenProperties
<1>2. Len(r) <= Len(s) /\ \A i \in 1..Len(r) : r[i] = s[i]
  BY PrefixAt
<1>3. Len(s) <= Len(t) /\ \A i \in 1..Len(s) : s[i] = t[i]
  BY PrefixAt
<1>4. Len(r) <= Len(t) /\ \A i \in 1..Len(r) : r[i] = t[i]
  BY <1>1, <1>2, <1>3
<1> QED
  BY <1>4, PrefixAt

LEMMA PrefixOfSameLength ==
  ASSUME NEW S, NEW s \in Seq(S), NEW t \in Seq(S),
         IsPrefix(s, t), Len(t) <= Len(s)
  PROVE  s = t
<1>1. Len(s) \in Nat /\ Len(t) \in Nat
  BY LenProperties
<1>2. Len(s) <= Len(t) /\ \A i \in 1..Len(s) : s[i] = t[i]
  BY PrefixAt
<1> QED
  BY <1>1, <1>2, SeqEqual

\* The first n of a sequence, and the others.
LEMMA Halves ==
  ASSUME NEW S, NEW s \in Seq(S), NEW n \in 0..Len(s)
  PROVE  /\ SubSeq(s, 1, n) \in Seq(S) /\ Len(SubSeq(s, 1, n)) = n
         /\ \A i \in 1..n : SubSeq(s, 1, n)[i] = s[i]
         /\ SubSeq(s, n + 1, Len(s)) \in Seq(S)
         /\ Len(SubSeq(s, n + 1, Len(s))) = Len(s) - n
         /\ \A i \in 1..Len(s) - n : SubSeq(s, n + 1, Len(s))[i] = s[n + i]
         /\ SubSeq(s, 1, n) \o SubSeq(s, n + 1, Len(s)) = s
<1>1. Len(s) \in Nat /\ n \in Nat /\ n <= Len(s)
  BY LenProperties
<1>2. \A i \in 1..Len(s) : s[i] \in S
  BY ElementOfSeq
<1>3. /\ SubSeq(s, 1, n) \in Seq(S) /\ Len(SubSeq(s, 1, n)) = n
      /\ \A i \in 1..n : SubSeq(s, 1, n)[i] = s[i]
  <2>1. \A i \in 1..n : s[i] \in S
    BY <1>1, <1>2
  <2> QED
    BY <1>1, <2>1, SubSeqProperties
<1>4. /\ SubSeq(s, n + 1, Len(s)) \in Seq(S)
      /\ Len(SubSeq(s, n + 1, Len(s))) = Len(s) - n
      /\ \A i \in 1..Len(s) - n : SubSeq(s, n + 1, Len(s))[i] = s[n + i]
  <2>1. \A i \in n + 1..Len(s) : s[i] \in S
    BY <1>1, <1>2
  <2>2. n + 1 \in Int /\ Len(s) \in Int
    BY <1>1
  <2>3. /\ SubSeq(s, n + 1, Len(s)) \in Seq(S)
        /\ Len(SubSeq(s, n + 1, Len(s)))
             = IF n + 1 <= Len(s) THEN Len(s) - (n + 1) + 1 ELSE 0
        /\ \A i \in 1..Len(s) - (n + 1) + 1 :
             SubSeq(s, n + 1, Len(s))[i] = s[(n + 1) + i - 1]
    BY <2>1, <2>2, SubSeqProperties
  <2> QED
    BY <1>1, <2>3
<1>5. SubSeq(s, 1, n) \o SubSeq(s, n + 1, Len(s)) = s
  <2> DEFINE one == SubSeq(s, 1, n)
             two == SubSeq(s, n + 1, Len(s))
             all == one \o two
  <2>1. /\ one \in Seq(S) /\ Len(one) = n /\ two \in Seq(S)
        /\ Len(two) = Len(s) - n /\ \A i \in 1..n : one[i] = s[i]
        /\ \A i \in 1..Len(s) - n : two[i] = s[n + i]
    BY <1>3, <1>4
  <2> HIDE DEF one, two
  <2>2. /\ all \in Seq(S) /\ Len(all) = Len(one) + Len(two)
        /\ \A i \in 1..Len(one) + Len(two) :
             all[i] = IF i <= Len(one) THEN one[i] ELSE two[i - Len(one)]
    BY <2>1, ConcatProperties
  <2> HIDE DEF all
  <2>3. Len(all) = Len(s)
    BY <1>1, <2>1, <2>2
  <2>4. ASSUME NEW i \in 1..Len(s) PROVE all[i] = s[i]
    <3>1. all[i] = IF i <= n THEN one[i] ELSE two[i - n]
      BY <1>1, <2>1, <2>2
    <3>2. CASE i <= n
      BY <2>1, <3>1, <3>2
    <3>3. CASE ~(i <= n)
      <4>1. i - n \in 1..Len(s) - n /\ n + (i - n) = i
        BY <1>1, <3>3
      <4> QED
        BY <2>1, <3>1, <3>3, <4>1
    <3> QED
      BY <3>2, <3>3
  <2>5. all = s
    BY <2>2, <2>3, <2>4, SeqEqual
  <2> QED
    BY <2>5 DEF all, one, two
<1> QED
  BY <1>3, <1>4, <1>5

LEMMA PrefixOfItself ==
  ASSUME NEW S, NEW s \in Seq(S)
  PROVE  IsPrefix(s, s)
BY PrefixAt, LenProperties

LEMMA PrefixesOfEachOther ==
  ASSUME NEW S, NEW s \in Seq(S), NEW t \in Seq(S),
         IsPrefix(s, t), IsPrefix(t, s)
  PROVE  s = t
<1>1. Len(t) <= Len(s)
  BY PrefixAt
<1> QED
  BY <1>1, PrefixOfSameLength

\* What arrives moves from one sequence to the other.
LEMMA Moved ==
  ASSUME NEW S, NEW s \in Seq(S), NEW t \in Seq(S), NEW n \in 0..Len(t)
  PROVE  /\ s \o SubSeq(t, 1, n) \in Seq(S)
         /\ (s \o SubSeq(t, 1, n)) \o SubSeq(t, n + 1, Len(t)) = s \o t
         /\ IsPrefix(s \o SubSeq(t, 1, n), s \o t)
<1>0. \A a, b, c \in Seq(S) : (a \o b) \o c = a \o (b \o c)
  BY ConcatIsAssociative
<1> DEFINE one == SubSeq(t, 1, n)
           two == SubSeq(t, n + 1, Len(t))
<1>1. one \in Seq(S) /\ two \in Seq(S) /\ one \o two = t
  BY Halves
<1> HIDE DEF one, two
<1>2. s \o one \in Seq(S)
  BY <1>1, ConcatProperties
<1>3. (s \o one) \o two = s \o t
  BY <1>0, <1>1
<1>4. IsPrefix(s \o one, (s \o one) \o two)
  BY <1>1, <1>2, PrefixOfConcat
<1> QED
  BY <1>2, <1>3, <1>4 DEF one, two

LEMMA TakenApart ==
  ASSUME NEW S, NEW s \in Seq(S), NEW t \in Seq(S), NEW n \in 0..Len(s)
  PROVE  SubSeq(s, 1, n) \o (SubSeq(s, n + 1, Len(s)) \o t) = s \o t
<1>0. \A a, b, c \in Seq(S) : (a \o b) \o c = a \o (b \o c)
  BY ConcatIsAssociative
<1> DEFINE one == SubSeq(s, 1, n)
           two == SubSeq(s, n + 1, Len(s))
<1>1. one \in Seq(S) /\ two \in Seq(S) /\ one \o two = s
  BY Halves
<1> HIDE DEF one, two
<1>2. (one \o two) \o t = one \o (two \o t)
  BY <1>0, <1>1
<1> QED
  BY <1>1, <1>2 DEF one, two

LEMMA SamePrefix ==
  ASSUME NEW S, NEW r \in Seq(S), NEW s \in Seq(S), NEW t \in Seq(S)
  PROVE  IsPrefix(r \o s, r \o t) => IsPrefix(s, t)
<1>1. Len(r) \in Nat /\ Len(s) \in Nat /\ Len(t) \in Nat
  BY LenProperties
<1> DEFINE rs == r \o s
           rt == r \o t
<1>2. /\ rs \in Seq(S) /\ Len(rs) = Len(r) + Len(s)
      /\ \A i \in 1..Len(r) + Len(s) :
           rs[i] = IF i <= Len(r) THEN r[i] ELSE s[i - Len(r)]
  BY ConcatProperties
<1>3. /\ rt \in Seq(S) /\ Len(rt) = Len(r) + Len(t)
      /\ \A i \in 1..Len(r) + Len(t) :
           rt[i] = IF i <= Len(r) THEN r[i] ELSE t[i - Len(r)]
  BY ConcatProperties
<1> HIDE DEF rs, rt
<1>4. ASSUME NEW i \in 1..Len(s) PROVE s[i] = rs[Len(r) + i]
  <2>1. /\ Len(r) + i \in 1..Len(r) + Len(s)
        /\ ~(Len(r) + i <= Len(r)) /\ (Len(r) + i) - Len(r) = i
    BY <1>1
  <2> QED
    BY <1>2, <2>1
<1>5. ASSUME NEW i \in 1..Len(t) PROVE t[i] = rt[Len(r) + i]
  <2>1. /\ Len(r) + i \in 1..Len(r) + Len(t)
        /\ ~(Len(r) + i <= Len(r)) /\ (Len(r) + i) - Len(r) = i
    BY <1>1
  <2> QED
    BY <1>3, <2>1
<1>6. ASSUME IsPrefix(rs, rt) PROVE IsPrefix(s, t)
  <2>1. Len(rs) <= Len(rt) /\ \A i \in 1..Len(rs) : rs[i] = rt[i]
    BY <1>2, <1>3, <1>6, PrefixAt
  <2>2. Len(s) <= Len(t)
    BY <1>1, <1>2, <1>3, <2>1
  <2>3. ASSUME NEW i \in 1..Len(s) PROVE s[i] = t[i]
    <3>1. i \in 1..Len(t) /\ Len(r) + i \in 1..Len(rs)
      BY <1>1, <1>2, <2>2
    <3> QED
      BY <1>4, <1>5, <2>1, <3>1
  <2> QED
    BY <2>2, <2>3, PrefixAt
<1> QED
  BY <1>6 DEF rs, rt

\* A stream that starts with w: what is behind w starts what is behind it.
LEMMA Behind ==
  ASSUME NEW S, NEW b \in Seq(S), NEW t \in Seq(S),
         NEW w \in Seq(S), NEW more \in Seq(S),
         IsPrefix(b \o t, w \o more), Len(w) <= Len(b)
  PROVE  LET rest == SubSeq(b, Len(w) + 1, Len(b))
         IN  /\ rest \in Seq(S)
             /\ IsPrefix(rest \o t, more)
             /\ IsPrefix(w \o more, b \o t) => IsPrefix(more, rest \o t)
<1> DEFINE rest == SubSeq(b, Len(w) + 1, Len(b))
           head == SubSeq(b, 1, Len(w))
<1>1. /\ Len(w) \in 0..Len(b) /\ Len(b) \in Nat /\ Len(w) \in Nat
      /\ Len(t) \in Nat
  BY LenProperties
<1>2. /\ rest \in Seq(S) /\ head \in Seq(S) /\ head \o rest = b
      /\ Len(head) = Len(w) /\ \A i \in 1..Len(w) : head[i] = b[i]
  BY <1>1, Halves
<1> HIDE DEF rest, head
<1>3. /\ b \o t \in Seq(S) /\ Len(b \o t) = Len(b) + Len(t)
      /\ \A i \in 1..Len(b) + Len(t) :
           (b \o t)[i] = IF i <= Len(b) THEN b[i] ELSE t[i - Len(b)]
  BY ConcatProperties
<1>4. /\ w \o more \in Seq(S) /\ Len(w \o more) = Len(w) + Len(more)
      /\ \A i \in 1..Len(w) + Len(more) :
           (w \o more)[i] = IF i <= Len(w) THEN w[i] ELSE more[i - Len(w)]
  BY ConcatProperties
<1>5. /\ Len(b \o t) <= Len(w \o more)
      /\ \A i \in 1..Len(b \o t) : (b \o t)[i] = (w \o more)[i]
  BY <1>3, <1>4, PrefixAt
<1>6. head = w
  <2>1. ASSUME NEW i \in 1..Len(w) PROVE head[i] = w[i]
    <3>1. (b \o t)[i] = b[i]
      BY <1>1, <1>3
    <3>2. (w \o more)[i] = w[i]
      <4>1. i \in 1..Len(w) + Len(more) /\ i <= Len(w)
        BY <1>1, LenProperties
      <4> QED
        BY <1>4, <4>1
    <3>3. i \in 1..Len(b \o t)
      BY <1>1, <1>3
    <3> QED
      BY <1>2, <1>5, <3>1, <3>2, <3>3
  <2> QED
    BY <1>2, <2>1, SeqEqual
<1>7. b \o t = w \o (rest \o t) /\ rest \o t \in Seq(S)
  <2>1. rest \o t \in Seq(S)
    BY <1>2, ConcatProperties
  <2>2. head \o (rest \o t) = b \o t
    BY <1>1, TakenApart DEF head, rest
  <2> QED
    BY <1>6, <2>1, <2>2
<1>8. /\ IsPrefix(w \o (rest \o t), w \o more) => IsPrefix(rest \o t, more)
      /\ IsPrefix(w \o more, w \o (rest \o t)) => IsPrefix(more, rest \o t)
  BY <1>7, SamePrefix
<1> QED
  BY <1>2, <1>7, <1>8 DEF rest

-----------------------------------------------------------------------------
(* Commands on the wire *)

LEMMA WrittenIs ==
  ASSUME NEW c \in FtlCommand
  PROVE  /\ Text(c) \in Seq(Symbol) /\ Written(c) \in Seq(Symbol)
         /\ Len(Written(c)) = Len(Text(c)) + 4
         /\ \A i \in 1..Len(Text(c)) :
              Written(c)[i] = Text(c)[i] /\ Text(c)[i] # "cr"
         /\ Written(c)[Len(Text(c)) + 1] = "cr"
         /\ Written(c)[Len(Text(c)) + 2] = "lf"
         /\ Written(c)[Len(Text(c)) + 3] = "cr"
         /\ Written(c)[Len(Text(c)) + 4] = "lf"
<1> DEFINE text == Text(c)
           all  == text \o Delimiter
<1>1. /\ Delimiter \in Seq(Symbol) /\ Len(Delimiter) = 4
      /\ Delimiter[1] = "cr" /\ Delimiter[2] = "lf"
      /\ Delimiter[3] = "cr" /\ Delimiter[4] = "lf"
  <2>1. "cr" \in Symbol /\ "lf" \in Symbol
    BY Symbols
  <2> QED
    BY <2>1 DEF Delimiter
<1>2. text \in Seq(Symbol) /\ "cr" \notin Range(text)
  BY ParseText DEF Line
<1> HIDE DEF text
<1>3. Len(text) \in Nat /\ \A i \in 1..Len(text) : text[i] # "cr"
  BY <1>2, LenProperties, RangeAt
<1>4. /\ all \in Seq(Symbol) /\ Len(all) = Len(text) + 4
      /\ \A i \in 1..Len(text) + 4 :
           all[i] = IF i <= Len(text) THEN text[i]
                    ELSE Delimiter[i - Len(text)]
  <2>1. /\ all \in Seq(Symbol) /\ Len(all) = Len(text) + Len(Delimiter)
        /\ \A i \in 1..Len(text) + Len(Delimiter) :
             all[i] = IF i <= Len(text) THEN text[i]
                      ELSE Delimiter[i - Len(text)]
    BY <1>1, <1>2, ConcatProperties, Zenon
  <2> HIDE DEF all
  <2> QED
    BY <1>1, <2>1
<1> HIDE DEF all
<1>5. \A i \in 1..Len(text) : all[i] = text[i]
  BY <1>3, <1>4
<1>6. ASSUME NEW k \in 1..4 PROVE all[Len(text) + k] = Delimiter[k]
  <2>1. /\ Len(text) + k \in 1..Len(text) + 4
        /\ ~(Len(text) + k <= Len(text)) /\ (Len(text) + k) - Len(text) = k
    BY <1>3
  <2> QED
    BY <1>4, <2>1
<1>7. all = Written(c)
  BY DEF all, text, Written
<1> QED
  BY <1>1, <1>2, <1>3, <1>4, <1>5, <1>6, <1>7 DEF text

LEMMA WrittenSeq ==
  ASSUME NEW commands \in Seq(FtlCommand)
  PROVE  /\ [k \in DOMAIN commands |-> Written(commands[k])]
              \in Seq(Seq(Symbol))
         /\ Len([k \in DOMAIN commands |-> Written(commands[k])])
              = Len(commands)
         /\ \A i \in 1..Len(commands) : Written(commands[i]) \in Seq(Symbol)
<1>1. Len(commands) \in Nat /\ DOMAIN commands = 1..Len(commands)
  BY LenProperties
<1>2. \A i \in 1..Len(commands) : Written(commands[i]) \in Seq(Symbol)
  BY ElementOfSeq, WrittenIs
<1> QED
  BY <1>1, <1>2

LEMMA NoStream ==
  Stream(<<>>) = <<>>
BY DEF Stream, FlattenSeq

LEMMA StreamIsSeq ==
  ASSUME NEW commands \in Seq(FtlCommand)
  PROVE  Stream(commands) \in Seq(Symbol)
BY WrittenSeq, FlattenIsSeq DEF Stream

LEMMA StreamAppend ==
  ASSUME NEW commands \in Seq(FtlCommand), NEW c \in FtlCommand
  PROVE  Stream(Append(commands, c)) = Stream(commands) \o Written(c)
<1> DEFINE all  == Append(commands, c)
           old  == [k \in DOMAIN commands |-> Written(commands[k])]
           new  == [k \in DOMAIN all |-> Written(all[k])]
           w    == Written(c)
<1>1. /\ all \in Seq(FtlCommand) /\ Len(all) = Len(commands) + 1
      /\ \A i \in 1..Len(commands) : all[i] = commands[i]
      /\ all[Len(commands) + 1] = c
  BY AppendProperties
<1>2. /\ Len(commands) \in Nat /\ DOMAIN commands = 1..Len(commands)
      /\ DOMAIN all = 1..Len(all)
  BY <1>1, LenProperties
<1>3. /\ old \in Seq(Seq(Symbol)) /\ Len(old) = Len(commands)
      /\ w \in Seq(Symbol)
  BY WrittenSeq, WrittenIs
<1> HIDE DEF all
<1>4. new \in Seq(Seq(Symbol)) /\ Len(new) = Len(all)
  BY <1>1, WrittenSeq
<1>5. /\ \A i \in 1..Len(commands) : new[i] = old[i]
      /\ new[Len(commands) + 1] = w
  BY <1>1, <1>2
<1> HIDE DEF old, new, w
<1>6. /\ Append(old, w) \in Seq(Seq(Symbol))
      /\ Len(Append(old, w)) = Len(old) + 1
      /\ \A i \in 1..Len(old) : Append(old, w)[i] = old[i]
      /\ Append(old, w)[Len(old) + 1] = w
  BY <1>3, AppendProperties
<1>7. new = Append(old, w)
  <2>1. Len(new) = Len(Append(old, w))
    BY <1>1, <1>3, <1>4, <1>6
  <2>2. ASSUME NEW i \in 1..Len(new) PROVE new[i] = Append(old, w)[i]
    <3>1. i \in 1..Len(commands) \/ i = Len(commands) + 1
      BY <1>1, <1>2, <1>4
    <3> QED
      BY <1>3, <1>5, <1>6, <3>1
  <2> QED
    BY <1>4, <1>6, <2>1, <2>2, SeqEqual
<1>8. FlattenSeq(new) = FlattenSeq(old) \o w
  BY <1>3, <1>7, FlattenAppend
<1> QED
  BY <1>8 DEF Stream, all, old, new, w

LEMMA StreamHead ==
  ASSUME NEW commands \in Seq(FtlCommand), commands # <<>>
  PROVE  Stream(commands) = Written(Head(commands)) \o Stream(Tail(commands))
<1> DEFINE rest == Tail(commands)
           all  == [k \in DOMAIN commands |-> Written(commands[k])]
           new  == [k \in DOMAIN rest |-> Written(rest[k])]
<1>1. /\ rest \in Seq(FtlCommand) /\ Len(rest) = Len(commands) - 1
      /\ \A i \in 1..Len(rest) : rest[i] = commands[i + 1]
      /\ Head(commands) = commands[1]
  BY HeadTailProperties
<1>2. /\ Len(commands) \in Nat \ {0} /\ DOMAIN commands = 1..Len(commands)
      /\ DOMAIN rest = 1..Len(rest)
  BY <1>1, LenProperties, EmptySeq
<1>3. all \in Seq(Seq(Symbol)) /\ Len(all) = Len(commands)
  BY WrittenSeq
<1> HIDE DEF rest
<1>4. new \in Seq(Seq(Symbol)) /\ Len(new) = Len(rest)
  BY <1>1, WrittenSeq
<1>5. /\ \A i \in 1..Len(rest) : new[i] = all[i + 1]
      /\ all[1] = Written(Head(commands))
  BY <1>1, <1>2
<1> HIDE DEF all, new
<1>6. all # <<>>
  BY <1>2, <1>3, EmptySeq
<1>7. /\ Tail(all) \in Seq(Seq(Symbol)) /\ Len(Tail(all)) = Len(all) - 1
      /\ \A i \in 1..Len(Tail(all)) : Tail(all)[i] = all[i + 1]
      /\ Head(all) = all[1]
  BY <1>3, <1>6, HeadTailProperties
<1>8. Tail(all) = new
  <2>1. Len(Tail(all)) = Len(new)
    BY <1>1, <1>3, <1>4, <1>7
  <2>2. \A i \in 1..Len(Tail(all)) : Tail(all)[i] = new[i]
    BY <1>4, <1>5, <1>7, <2>1
  <2> QED
    BY <1>4, <1>7, <2>1, <2>2, SeqEqual
<1>9. FlattenSeq(all) = Head(all) \o FlattenSeq(Tail(all))
  BY <1>3, <1>6, FlattenHead
<1> QED
  BY <1>5, <1>7, <1>8, <1>9 DEF Stream, all, new, rest

LEMMA DelimitersAt ==
  ASSUME NEW bytes \in Seq(Symbol), NEW i
  PROVE  i \in Delimiters(bytes) <=>
           /\ i \in Nat \ {0} /\ i + 3 <= Len(bytes)
           /\ bytes[i] = "cr" /\ bytes[i + 1] = "lf"
           /\ bytes[i + 2] = "cr" /\ bytes[i + 3] = "lf"
<1>1. Len(bytes) \in Nat /\ \A j \in 1..Len(bytes) : bytes[j] \in Symbol
  BY LenProperties, ElementOfSeq
<1>2. ASSUME i \in Nat \ {0}, i + 3 <= Len(bytes)
      PROVE  SubSeq(bytes, i, i + 3) = Delimiter <=>
               /\ bytes[i] = "cr" /\ bytes[i + 1] = "lf"
               /\ bytes[i + 2] = "cr" /\ bytes[i + 3] = "lf"
  <2> DEFINE window == SubSeq(bytes, i, i + 3)
  <2>1. \A j \in i..i + 3 : bytes[j] \in Symbol
    BY <1>1, <1>2
  <2>2. i \in Int /\ i + 3 \in Int /\ i <= i + 3 /\ (i + 3) - i + 1 = 4
    BY <1>2
  <2>3. /\ window \in Seq(Symbol) /\ Len(window) = 4
        /\ \A j \in 1..4 : window[j] = bytes[i + j - 1]
    BY <2>1, <2>2, SubSeqProperties
  <2> HIDE DEF window
  <2>4. /\ window[1] = bytes[i] /\ window[2] = bytes[i + 1]
        /\ window[3] = bytes[i + 2] /\ window[4] = bytes[i + 3]
    BY <1>2, <2>3
  <2>5. /\ Delimiter \in Seq(Symbol) /\ Len(Delimiter) = 4
        /\ Delimiter[1] = "cr" /\ Delimiter[2] = "lf"
        /\ Delimiter[3] = "cr" /\ Delimiter[4] = "lf"
    <3>1. "cr" \in Symbol /\ "lf" \in Symbol
      BY Symbols
    <3> QED
      BY <3>1 DEF Delimiter
  <2>6. window = Delimiter <=> \A j \in 1..4 : window[j] = Delimiter[j]
    BY <2>3, <2>5, SeqEqual
  <2>7. window = Delimiter <=>
          /\ window[1] = "cr" /\ window[2] = "lf"
          /\ window[3] = "cr" /\ window[4] = "lf"
    <3>1. \A j \in 1..4 : j = 1 \/ j = 2 \/ j = 3 \/ j = 4
      OBVIOUS
    <3> QED
      BY <2>5, <2>6, <3>1
  <2> QED
    BY <2>4, <2>7 DEF window
<1>3. i \in 1..(Len(bytes) - 3) <=> i \in Nat \ {0} /\ i + 3 <= Len(bytes)
  BY <1>1
<1> QED
  BY <1>2, <1>3 DEF Delimiters

\* The first delimiter of a stream is the one of its first command.
LEMMA FirstDelimiter ==
  ASSUME NEW c \in FtlCommand, NEW more \in Seq(Symbol),
         NEW bytes \in Seq(Symbol), IsPrefix(bytes, Written(c) \o more)
  PROVE  /\ \A i \in Delimiters(bytes) :
              Len(Text(c)) + 1 <= i /\ Len(Written(c)) <= Len(bytes)
         /\ Len(Written(c)) <= Len(bytes) =>
              /\ Len(Text(c)) + 1 \in Delimiters(bytes)
              /\ SubSeq(bytes, 1, Len(Text(c))) = Text(c)
<1> DEFINE text == Text(c)
           w    == Written(c)
           all  == w \o more
           n    == Len(text)
<1>1. /\ text \in Seq(Symbol) /\ w \in Seq(Symbol) /\ Len(w) = n + 4
      /\ \A i \in 1..n : w[i] = text[i] /\ text[i] # "cr"
      /\ w[n + 1] = "cr" /\ w[n + 2] = "lf"
      /\ w[n + 3] = "cr" /\ w[n + 4] = "lf"
  BY WrittenIs
<1> HIDE DEF text, w
<1>2. n \in Nat /\ Len(bytes) \in Nat /\ Len(more) \in Nat
  BY <1>1, LenProperties
<1>3. /\ all \in Seq(Symbol) /\ Len(all) = Len(w) + Len(more)
      /\ \A i \in 1..Len(w) + Len(more) :
           all[i] = IF i <= Len(w) THEN w[i] ELSE more[i - Len(w)]
  BY <1>1, ConcatProperties
<1>4. IsPrefix(bytes, all)
  BY DEF w
<1> HIDE DEF all
<1>5. Len(bytes) <= Len(all) /\ \A i \in 1..Len(bytes) : bytes[i] = all[i]
  BY <1>3, <1>4, PrefixAt
<1>6. ASSUME NEW i \in 1..Len(bytes), i <= Len(w) PROVE bytes[i] = w[i]
  <2>1. i \in 1..Len(w) + Len(more)
    BY <1>1, <1>2, <1>6
  <2> QED
    BY <1>3, <1>5, <1>6, <2>1
<1> HIDE DEF n
<1>7. ASSUME NEW i \in Delimiters(bytes)
      PROVE  n + 1 <= i /\ Len(w) <= Len(bytes)
  <2>1. i \in Nat \ {0} /\ i + 3 <= Len(bytes) /\ bytes[i] = "cr"
    BY DelimitersAt
  <2>2. ~(i <= n)
    <3> SUFFICES ASSUME i <= n PROVE FALSE
      OBVIOUS
    <3>1. i \in 1..Len(bytes) /\ i \in 1..n /\ i <= Len(w)
      BY <1>1, <1>2, <2>1
    <3> QED
      BY <1>1, <1>6, <2>1, <3>1
  <2> QED
    BY <1>1, <1>2, <2>1, <2>2
<1>8. ASSUME Len(w) <= Len(bytes)
      PROVE  n + 1 \in Delimiters(bytes) /\ SubSeq(bytes, 1, n) = text
  <2>1. ASSUME NEW i \in 1..n + 4 PROVE bytes[i] = w[i]
    BY <1>1, <1>2, <1>6, <1>8
  <2>2. n + 1 \in Delimiters(bytes)
    <3>1. n + 1 \in Nat \ {0} /\ (n + 1) + 3 <= Len(bytes)
      BY <1>1, <1>2, <1>8
    <3>2. /\ (n + 1) + 1 = n + 2 /\ (n + 1) + 2 = n + 3 /\ (n + 1) + 3 = n + 4
          /\ n + 1 \in 1..n + 4 /\ n + 2 \in 1..n + 4
          /\ n + 3 \in 1..n + 4 /\ n + 4 \in 1..n + 4
      BY <1>2
    <3> QED
      BY <1>1, <2>1, <3>1, <3>2, DelimitersAt
  <2>3. SubSeq(bytes, 1, n) = text
    <3>1. n \in 0..Len(bytes)
      BY <1>1, <1>2, <1>8
    <3>2. /\ SubSeq(bytes, 1, n) \in Seq(Symbol)
          /\ Len(SubSeq(bytes, 1, n)) = n
          /\ \A i \in 1..n : SubSeq(bytes, 1, n)[i] = bytes[i]
      BY <3>1, Halves
    <3>3. \A i \in 1..n : SubSeq(bytes, 1, n)[i] = text[i]
      BY <1>1, <1>2, <2>1, <3>2
    <3>4. Len(text) = n
      BY DEF n
    <3> QED
      BY <1>1, <3>2, <3>3, <3>4, SeqEqual
  <2> QED
    BY <2>2, <2>3
<1> QED
  BY <1>7, <1>8 DEF n, w, text

\* What is owed of some commands when d of them are decoded.
LEMMA OwedOf ==
  ASSUME NEW q \in Seq(FtlCommand), NEW d \in 0..Len(q)
  PROVE  /\ Stream(SubSeq(q, d + 1, Len(q))) \in Seq(Symbol)
         /\ d = Len(q) => Stream(SubSeq(q, d + 1, Len(q))) = <<>>
         /\ d < Len(q) =>
              /\ q[d + 1] \in FtlCommand
              /\ Stream(SubSeq(q, d + 2, Len(q))) \in Seq(Symbol)
              /\ Stream(SubSeq(q, d + 1, Len(q)))
                   = Written(q[d + 1]) \o Stream(SubSeq(q, d + 2, Len(q)))
<1> DEFINE left == SubSeq(q, d + 1, Len(q))
<1>1. Len(q) \in Nat /\ d \in Nat
  BY LenProperties
<1>2. left \in Seq(FtlCommand) /\ Len(left) = Len(q) - d
  BY Halves
<1>3. ASSUME d = Len(q) PROVE Stream(left) = <<>>
  <2>1. left = <<>>
    <3>1. Len(q) \in Int /\ d + 1 \in Int /\ Len(q) < d + 1
      BY <1>1, <1>3
    <3> QED
      BY <3>1, SubSeqEmpty
  <2> QED
    BY <2>1, NoStream
<1>4. ASSUME d < Len(q)
      PROVE  /\ q[d + 1] \in FtlCommand
             /\ Stream(SubSeq(q, d + 2, Len(q))) \in Seq(Symbol)
             /\ Stream(left)
                  = Written(q[d + 1]) \o Stream(SubSeq(q, d + 2, Len(q)))
  <2>1. /\ d + 1 \in 1..Len(q) /\ Len(q) \in d + 1..Len(q)
        /\ (d + 1) + 1 = d + 2 /\ d + 1 \in 0..Len(q)
    BY <1>1, <1>4
  <2>2. q[d + 1] \in FtlCommand
    BY <2>1, ElementOfSeq
  <2>3. SubSeq(q, d + 2, Len(q)) \in Seq(FtlCommand)
    BY <2>1, Halves
  <2>4. Head(left) = q[d + 1] /\ Tail(left) = SubSeq(q, (d + 1) + 1, Len(q))
    BY <2>1, HeadTailOfSubSeq
  <2> HIDE DEF left
  <2>5. left # <<>>
    BY <1>1, <1>2, <1>4, EmptySeq
  <2>6. Stream(left) = Written(Head(left)) \o Stream(Tail(left))
    BY <1>2, <2>5, StreamHead
  <2> QED
    BY <2>1, <2>2, <2>3, <2>4, <2>6, StreamIsSeq
<1>5. Stream(left) \in Seq(Symbol)
  BY <1>2, StreamIsSeq
<1> QED
  BY <1>3, <1>4, <1>5

LEMMA OwedOfMore ==
  ASSUME NEW q \in Seq(FtlCommand), NEW d \in 0..Len(q), NEW c \in FtlCommand
  PROVE  LET more == Append(q, c)
         IN  Stream(SubSeq(more, d + 1, Len(more)))
               = Stream(SubSeq(q, d + 1, Len(q))) \o Written(c)
<1> DEFINE more == Append(q, c)
           left == SubSeq(q, d + 1, Len(q))
           new  == SubSeq(more, d + 1, Len(more))
           both == Append(left, c)
<1>1. Len(q) \in Nat /\ d \in Nat /\ d <= Len(q)
  BY LenProperties
<1>2. /\ more \in Seq(FtlCommand) /\ Len(more) = Len(q) + 1
      /\ \A i \in 1..Len(q) : more[i] = q[i]
      /\ more[Len(q) + 1] = c
  BY AppendProperties
<1>3. /\ left \in Seq(FtlCommand) /\ Len(left) = Len(q) - d
      /\ \A i \in 1..Len(q) - d : left[i] = q[d + i]
  BY Halves
<1> HIDE DEF more, left
<1>4. /\ new \in Seq(FtlCommand) /\ Len(new) = Len(more) - d
      /\ \A i \in 1..Len(more) - d : new[i] = more[d + i]
  <2>1. d \in 0..Len(more)
    BY <1>1, <1>2
  <2> QED
    BY <1>2, <2>1, Halves
<1>5. /\ both \in Seq(FtlCommand) /\ Len(both) = Len(left) + 1
      /\ \A i \in 1..Len(left) : both[i] = left[i]
      /\ both[Len(left) + 1] = c
  BY <1>3, AppendProperties
<1> HIDE DEF new, both
<1>6. new = both
  <2>1. Len(new) = Len(both)
    BY <1>1, <1>2, <1>3, <1>4, <1>5
  <2>2. ASSUME NEW i \in 1..Len(new) PROVE new[i] = both[i]
    <3>1. new[i] = more[d + i]
      BY <1>4
    <3>2. CASE i <= Len(q) - d
      <4>1. i \in 1..Len(left) /\ i \in 1..Len(q) - d /\ d + i \in 1..Len(q)
        BY <1>1, <1>3, <3>2
      <4> QED
        BY <1>2, <1>3, <1>5, <3>1, <4>1
    <3>3. CASE ~(i <= Len(q) - d)
      <4>1. i = Len(left) + 1 /\ d + i = Len(q) + 1
        BY <1>1, <1>2, <1>3, <1>4, <3>3
      <4> QED
        BY <1>2, <1>5, <3>1, <4>1
    <3> QED
      BY <3>2, <3>3
  <2> QED
    BY <1>4, <1>5, <2>1, <2>2, SeqEqual
<1>7. Stream(both) = Stream(left) \o Written(c)
  BY <1>3, StreamAppend DEF both
<1> QED
  BY <1>6, <1>7 DEF new, left, more

-----------------------------------------------------------------------------
(* The steps *)

\* What the invariant says, in the terms that the steps need.
LEMMA OwedIs ==
  ASSUME TypeOK, IsPrefix(decoded, sent)
  PROVE  /\ sent \in Seq(FtlCommand) /\ decoded \in Seq(FtlCommand)
         /\ Len(decoded) \in 0..Len(sent)
         /\ Owed \in Seq(Symbol)
         /\ Len(decoded) = Len(sent) => Owed = <<>> /\ decoded = sent
         /\ Len(decoded) < Len(sent) =>
              /\ sent[Len(decoded) + 1] \in Command
              /\ sent[Len(decoded) + 1] \in FtlCommand
              /\ Stream(SubSeq(sent, Len(decoded) + 2, Len(sent)))
                   \in Seq(Symbol)
              /\ Owed = Written(sent[Len(decoded) + 1])
                          \o Stream(SubSeq(sent, Len(decoded) + 2, Len(sent)))
<1>1. \A q \in Seq(Command) : q \in Seq(FtlCommand)
  <2> SUFFICES ASSUME NEW q \in Seq(Command) PROVE q \in Seq(FtlCommand)
    OBVIOUS
  <2> QED
    BY CommandAssumption
<1>2. /\ sent \in Seq(FtlCommand) /\ decoded \in Seq(FtlCommand)
      /\ sent \in Seq(Command)
  BY <1>1 DEF TypeOK
<1>3. Len(decoded) \in 0..Len(sent)
  BY <1>2, PrefixAt, LenProperties
<1>4. ASSUME Len(decoded) = Len(sent) PROVE Owed = <<>> /\ decoded = sent
  <2>1. Owed = <<>>
    BY <1>2, <1>3, <1>4, OwedOf DEF Owed
  <2>2. decoded = sent
    BY <1>2, <1>4, PrefixOfSameLength, LenProperties
  <2> QED
    BY <2>1, <2>2
<1>5. ASSUME Len(decoded) < Len(sent)
      PROVE  sent[Len(decoded) + 1] \in Command
  <2>1. Len(decoded) + 1 \in 1..Len(sent)
    BY <1>2, <1>3, <1>5, LenProperties
  <2> QED
    BY <1>2, <2>1, ElementOfSeq
<1> QED
  BY <1>2, <1>3, <1>4, <1>5, OwedOf DEF Owed

LEMMA NothingIsPrefix ==
  ASSUME NEW S, NEW s \in Seq(S)
  PROVE  IsPrefix(<<>>, s)
<1>1. <<>> \in Seq(S) /\ <<>> \o s = s
  BY EmptySeq, ConcatEmptySeq
<1>2. IsPrefix(<<>>, <<>> \o s)
  BY <1>1, PrefixOfConcat
<1> QED
  BY <1>1, <1>2

LEMMA InitKeeps ==
  Init => CodecInvariant
<1> SUFFICES ASSUME Init PROVE CodecInvariant
  OBVIOUS
<1>1. TypeOK
  BY MaxSentAssumption, EmptySeq DEF Init, TypeOK, Reader
<1>2. IsPrefix(decoded, sent) /\ DecodesWhatWasSent
  <2>1. IsPrefix(decoded, sent)
    <3>1. decoded = <<>> /\ sent = <<>> /\ <<>> \in Seq(Command)
      BY EmptySeq DEF Init
    <3> QED
      BY <3>1, NothingIsPrefix
  <2> QED
    BY <2>1 DEF Init, DecodesWhatWasSent
<1>3. StreamIsOwed
  <2>1. Owed = <<>>
    BY <1>1, <1>2, OwedIs DEF Init
  <2>2. buffer \o network = <<>> /\ <<>> \in Seq(Symbol)
    BY ConcatEmptySeq, EmptySeq DEF Init
  <2>3. IsPrefix(<<>>, <<>>)
    BY <2>2, NothingIsPrefix
  <2> QED
    BY <2>1, <2>2, <2>3 DEF StreamIsOwed
<1> QED
  BY <1>1, <1>2, <1>3 DEF CodecInvariant

\* The whole of the first command is there as soon as a delimiter is.
LEMMA FirstOwed ==
  ASSUME CodecInvariant, reader \notin {"error", "panic"},
         NEW index \in Delimiters(buffer),
         \A i \in Delimiters(buffer) : index <= i
  PROVE  LET c == sent[Len(decoded) + 1]
         IN  /\ Len(decoded) < Len(sent)
             /\ c \in FtlCommand /\ c \in Command
             /\ index = Len(Text(c)) + 1
             /\ SubSeq(buffer, 1, index - 1) = Text(c)
             /\ Len(Written(c)) = index + 3
             /\ Len(Written(c)) <= Len(buffer)
<1> DEFINE d == Len(decoded)
           c == sent[d + 1]
           more == Stream(SubSeq(sent, d + 2, Len(sent)))
<1>1. /\ buffer \in Seq(Symbol) /\ network \in Seq(Symbol)
      /\ IsPrefix(decoded, sent) /\ TypeOK
      /\ IsPrefix(buffer \o network, Owed)
  BY DEF CodecInvariant, TypeOK, StreamIsOwed, DecodesWhatWasSent
<1>2. /\ Owed \in Seq(Symbol) /\ d \in 0..Len(sent) /\ Len(sent) \in Nat
      /\ d = Len(sent) => Owed = <<>>
  BY <1>1, OwedIs, LenProperties
<1>3. IsPrefix(buffer, Owed)
  <2>1. buffer \o network \in Seq(Symbol)
    BY <1>1, ConcatProperties
  <2>2. IsPrefix(buffer, buffer \o network)
    BY <1>1, PrefixOfConcat
  <2> QED
    BY <1>1, <1>2, <2>1, <2>2, PrefixIsTransitive
<1>4. Len(buffer) \in Nat /\ index \in Nat \ {0} /\ index + 3 <= Len(buffer)
  BY <1>1, DelimitersAt, LenProperties
<1>5. d < Len(sent)
  <2> SUFFICES ASSUME d = Len(sent) PROVE FALSE
    BY <1>2
  <2>1. Len(buffer) <= Len(Owed)
    BY <1>1, <1>2, <1>3, PrefixAt
  <2>2. Len(Owed) = 0
    BY <1>2, EmptySeq
  <2> QED
    BY <1>4, <2>1, <2>2
<1>6. /\ c \in FtlCommand /\ c \in Command /\ more \in Seq(Symbol)
      /\ IsPrefix(buffer, Written(c) \o more)
  BY <1>1, <1>3, <1>5, OwedIs
<1> HIDE DEF c, more
<1>7. /\ Len(Text(c)) + 1 <= index
      /\ Len(Written(c)) <= Len(buffer)
      /\ Len(Text(c)) + 1 \in Delimiters(buffer)
      /\ SubSeq(buffer, 1, Len(Text(c))) = Text(c)
  BY <1>1, <1>6, FirstDelimiter
<1>8. Len(Text(c)) \in Nat /\ Len(Written(c)) = Len(Text(c)) + 4
  BY <1>6, WrittenIs, LenProperties
<1>9. /\ index = Len(Text(c)) + 1 /\ index - 1 = Len(Text(c))
      /\ Len(Written(c)) = index + 3
  BY <1>4, <1>7, <1>8
<1> QED
  BY <1>5, <1>6, <1>7, <1>9 DEF c

LEMMA DecodeCommandKeeps ==
  ASSUME CodecInvariant, DecodeCommand
  PROVE  CodecInvariant'
<1> DEFINE d == Len(decoded)
           c == sent[d + 1]
           more == Stream(SubSeq(sent, d + 2, Len(sent)))
<1>1. PICK index \in Delimiters(buffer) :
        /\ \A i \in Delimiters(buffer) : index <= i
        /\ buffer' = After(buffer, index)
        /\ LET command == Parse(SubSeq(buffer, 1, index - 1))
           IN  IF command.kind \in Reader
               THEN reader' = command.kind /\ UNCHANGED decoded
               ELSE decoded' = Append(decoded, command) /\ UNCHANGED reader
  BY Zenon DEF DecodeCommand
<1>2. reader = "decode" /\ UNCHANGED <<sent, network, open>>
  BY DEF DecodeCommand
<1>3. /\ buffer \in Seq(Symbol) /\ network \in Seq(Symbol)
      /\ IsPrefix(decoded, sent) /\ TypeOK
      /\ IsPrefix(buffer \o network, Owed)
      /\ open => buffer \o network = Owed
      /\ sent \in Seq(Command) /\ decoded \in Seq(Command)
  BY <1>2 DEF CodecInvariant, TypeOK, StreamIsOwed, DecodesWhatWasSent
<1>4. /\ d < Len(sent) /\ c \in FtlCommand /\ c \in Command
      /\ SubSeq(buffer, 1, index - 1) = Text(c)
      /\ Len(Written(c)) = index + 3 /\ Len(Written(c)) <= Len(buffer)
  BY <1>1, <1>2, FirstOwed
<1>5. /\ d \in Nat /\ Len(sent) \in Nat /\ index \in Nat
      /\ more \in Seq(Symbol) /\ Owed = Written(c) \o more
  BY <1>3, <1>4, OwedIs, DelimitersAt, LenProperties
<1> HIDE DEF c, more
<1>6. /\ buffer' \in Seq(Symbol)
      /\ IsPrefix(buffer' \o network, more)
      /\ open => buffer' \o network = more
  <2>1. buffer' = SubSeq(buffer, Len(Written(c)) + 1, Len(buffer))
    <3>1. Len(Written(c)) + 1 = index + 4
      BY <1>4, <1>5
    <3> QED
      BY <1>1, <3>1 DEF After
  <2>2. Written(c) \in Seq(Symbol)
    BY <1>4, WrittenIs
  <2> DEFINE w    == Written(c)
             rest == SubSeq(buffer, Len(w) + 1, Len(buffer))
  <2>3. /\ w \in Seq(Symbol) /\ Len(w) <= Len(buffer)
        /\ IsPrefix(buffer \o network, w \o more)
        /\ open => buffer \o network = w \o more
    BY <1>3, <1>4, <1>5, <2>2
  <2>4. buffer' = rest
    BY <2>1
  <2> HIDE DEF w
  <2>5. /\ rest \in Seq(Symbol) /\ IsPrefix(rest \o network, more)
        /\ IsPrefix(w \o more, buffer \o network)
             => IsPrefix(more, rest \o network)
    BY <1>3, <1>5, <2>3, Behind
  <2>6. ASSUME open PROVE rest \o network = more
    <3>1. rest \o network \in Seq(Symbol) /\ w \o more \in Seq(Symbol)
      BY <1>3, <1>5, <2>3, <2>5, ConcatProperties
    <3>2. IsPrefix(w \o more, w \o more)
      BY <3>1, PrefixOfItself
    <3>3. IsPrefix(more, rest \o network)
      BY <2>3, <2>5, <2>6, <3>2
    <3> QED
      BY <1>5, <2>5, <3>1, <3>3, PrefixesOfEachOther
  <2> QED
    BY <2>4, <2>5, <2>6
<1>7. CASE Refused(c)
  <2>1. Parse(Text(c)).kind \in {"error", "panic"}
    BY <1>4, <1>7, ParseText
  <2>2. reader' \in {"error", "panic"} /\ decoded' = decoded
    BY <1>1, <1>4, <2>1 DEF Reader
  <2>3. TypeOK'
    BY <1>2, <1>3, <1>6, <2>2 DEF TypeOK, Reader
  <2>4. StreamIsOwed'
    BY <2>2 DEF StreamIsOwed
  <2>5. DecodesWhatWasSent'
    BY <1>2, <1>3, <1>4, <1>7, <2>2 DEF DecodesWhatWasSent, c
  <2> QED
    BY <2>3, <2>4, <2>5 DEF CodecInvariant
<1>8. CASE ~Refused(c)
  <2>1. Parse(Text(c)) = c
    BY <1>4, <1>8, ParseText
  <2>2. c.kind \notin Reader
    BY <1>4 DEF FtlCommand, Reader
  <2>3. decoded' = Append(decoded, c) /\ reader' = "decode"
    BY <1>1, <1>2, <1>4, <2>1, <2>2
  <2>4. /\ decoded' \in Seq(Command) /\ Len(decoded') = d + 1
        /\ \A i \in 1..d : decoded'[i] = decoded[i]
        /\ decoded'[d + 1] = c
    BY <1>3, <1>4, <2>3, AppendProperties
  <2>5. TypeOK'
    BY <1>2, <1>3, <1>6, <2>3, <2>4 DEF TypeOK, Reader
  <2>6. IsPrefix(decoded', sent)
    <3>1. Len(decoded) <= Len(sent) /\ \A i \in 1..d : decoded[i] = sent[i]
      BY <1>3, PrefixAt
    <3>2. Len(decoded') <= Len(sent)
      BY <1>4, <1>5, <2>4
    <3>3. ASSUME NEW i \in 1..d + 1 PROVE decoded'[i] = sent[i]
      <4>1. i \in 1..d \/ i = d + 1
        BY <1>5
      <4> QED
        BY <2>4, <3>1, <4>1 DEF c
    <3> QED
      BY <1>3, <2>4, <3>2, <3>3, PrefixAt
  <2>7. Owed' = more
    <3>1. Len(decoded') + 1 = d + 2 /\ sent' = sent
      BY <1>2, <1>5, <2>4
    <3> QED
      BY <3>1 DEF Owed, more
  <2>8. StreamIsOwed'
    BY <1>2, <1>6, <2>7 DEF StreamIsOwed
  <2>9. DecodesWhatWasSent'
    BY <1>2, <2>3, <2>6 DEF DecodesWhatWasSent
  <2> QED
    BY <2>5, <2>8, <2>9 DEF CodecInvariant
<1> QED
  BY <1>7, <1>8

LEMMA DecodeNoneKeeps ==
  ASSUME CodecInvariant, DecodeNone
  PROVE  CodecInvariant'
<1>1. /\ reader = "decode" /\ Delimiters(buffer) = {} /\ reader' = "read"
      /\ UNCHANGED <<sent, network, open, buffer, decoded>>
  BY DEF DecodeNone
<1>2. /\ buffer \in Seq(Symbol) /\ network \in Seq(Symbol)
      /\ IsPrefix(decoded, sent) /\ TypeOK
      /\ IsPrefix(buffer \o network, Owed)
      /\ open => buffer \o network = Owed
  BY <1>1 DEF CodecInvariant, TypeOK, StreamIsOwed, DecodesWhatWasSent
<1>3. TypeOK'
  BY <1>1, <1>2 DEF TypeOK, Reader
<1>4. StreamIsOwed'
  BY <1>1, <1>2 DEF StreamIsOwed, Owed
<1>5. ASSUME network = <<>>, open PROVE decoded = sent
  <2> DEFINE c == sent[Len(decoded) + 1]
             more == Stream(SubSeq(sent, Len(decoded) + 2, Len(sent)))
  <2>1. buffer = Owed
    BY <1>2, <1>5, ConcatEmptySeq
  <2> SUFFICES ASSUME Len(decoded) < Len(sent) PROVE FALSE
    BY <1>2, OwedIs
  <2>2. /\ c \in FtlCommand /\ more \in Seq(Symbol)
        /\ buffer = Written(c) \o more
    BY <1>2, <2>1, OwedIs
  <2> HIDE DEF c, more
  <2>3. /\ Written(c) \in Seq(Symbol)
        /\ Len(Written(c)) <= Len(buffer)
    BY <2>2, WrittenIs, ConcatProperties, LenProperties
  <2>4. IsPrefix(buffer, Written(c) \o more)
    <3>1. IsPrefix(buffer, buffer \o <<>>) /\ buffer \o <<>> = buffer
      BY <1>2, PrefixOfConcat, ConcatEmptySeq, EmptySeq
    <3> QED
      BY <2>2, <3>1
  <2>5. Len(Text(c)) + 1 \in Delimiters(buffer)
    BY <1>2, <2>2, <2>3, <2>4, FirstDelimiter
  <2> QED
    BY <1>1, <2>5
<1>6. DecodesWhatWasSent'
  BY <1>1, <1>2, <1>5 DEF DecodesWhatWasSent
<1> QED
  BY <1>3, <1>4, <1>6 DEF CodecInvariant

LEMMA ReadKeeps ==
  ASSUME CodecInvariant, NEW n \in 1..Len(network), Read(n)
  PROVE  CodecInvariant'
<1>1. /\ reader = "read" /\ reader' = "decode"
      /\ buffer' = buffer \o SubSeq(network, 1, n)
      /\ network' = SubSeq(network, n + 1, Len(network))
      /\ UNCHANGED <<sent, open, decoded>>
  BY DEF Read
<1>2. /\ buffer \in Seq(Symbol) /\ network \in Seq(Symbol)
      /\ IsPrefix(decoded, sent) /\ TypeOK
      /\ IsPrefix(buffer \o network, Owed)
      /\ open => buffer \o network = Owed
  BY <1>1 DEF CodecInvariant, TypeOK, StreamIsOwed, DecodesWhatWasSent
<1>3. n \in 0..Len(network)
  BY <1>2, LenProperties
<1>4. /\ buffer' \in Seq(Symbol) /\ network' \in Seq(Symbol)
      /\ buffer' \o network' = buffer \o network
  <2>1. SubSeq(network, n + 1, Len(network)) \in Seq(Symbol)
    BY <1>2, <1>3, Halves
  <2>2. /\ buffer \o SubSeq(network, 1, n) \in Seq(Symbol)
        /\ (buffer \o SubSeq(network, 1, n))
             \o SubSeq(network, n + 1, Len(network)) = buffer \o network
    BY <1>2, <1>3, Moved
  <2> QED
    BY <1>1, <2>1, <2>2
<1>5. TypeOK'
  BY <1>1, <1>2, <1>4 DEF TypeOK, Reader
<1>6. StreamIsOwed'
  <2>1. Owed' = Owed
    BY <1>1 DEF Owed
  <2> QED
    BY <1>1, <1>2, <1>4, <2>1 DEF StreamIsOwed
<1>7. DecodesWhatWasSent'
  BY <1>1, <1>2 DEF DecodesWhatWasSent
<1> QED
  BY <1>5, <1>6, <1>7 DEF CodecInvariant

LEMMA ReadEndKeeps ==
  ASSUME CodecInvariant, ReadEnd
  PROVE  CodecInvariant'
<1>1. /\ reader = "read" /\ ~open /\ reader' \in {"end", "error"}
      /\ UNCHANGED <<sent, network, open, buffer, decoded>>
  BY DEF ReadEnd
<1>2. /\ TypeOK /\ IsPrefix(decoded, sent)
      /\ IsPrefix(buffer \o network, Owed)
  BY <1>1 DEF CodecInvariant, StreamIsOwed, DecodesWhatWasSent
<1>3. TypeOK'
  BY <1>1, <1>2 DEF TypeOK, Reader
<1>4. StreamIsOwed'
  BY <1>1, <1>2 DEF StreamIsOwed, Owed
<1>5. DecodesWhatWasSent'
  BY <1>1, <1>2 DEF DecodesWhatWasSent
<1> QED
  BY <1>3, <1>4, <1>5 DEF CodecInvariant

LEMMA SendKeeps ==
  ASSUME CodecInvariant, NEW c \in Command, Send(c)
  PROVE  CodecInvariant'
<1>1. /\ open /\ Len(sent) < MaxSent /\ sent' = Append(sent, c)
      /\ network' = network \o Written(c)
      /\ UNCHANGED <<open, buffer, decoded, reader>>
  BY DEF Send
<1>2. /\ buffer \in Seq(Symbol) /\ network \in Seq(Symbol)
      /\ sent \in Seq(Command) /\ TypeOK
      /\ IsPrefix(decoded, sent)
      /\ reader \in {"error", "panic"} =>
           Len(decoded) < Len(sent) /\ Refused(sent[Len(decoded) + 1])
  BY <1>1 DEF CodecInvariant, TypeOK, DecodesWhatWasSent
<1>3. /\ c \in FtlCommand /\ Written(c) \in Seq(Symbol)
      /\ Text(c) \in Seq(Symbol) /\ Len(Written(c)) = Len(Text(c)) + 4
  BY CommandAssumption, WrittenIs
<1>4. /\ sent' \in Seq(Command) /\ Len(sent') = Len(sent) + 1
      /\ \A i \in 1..Len(sent) : sent'[i] = sent[i]
  BY <1>1, <1>2, AppendProperties
<1>5. Len(sent) \in Nat /\ Len(decoded) \in 0..Len(sent)
  BY <1>2, OwedIs, LenProperties
<1>6. network' \in Seq(Symbol) /\ network' # <<>>
  <2>1. /\ network' \in Seq(Symbol)
        /\ Len(network') = Len(network) + Len(Written(c))
    BY <1>1, <1>2, <1>3, ConcatProperties
  <2>2. Len(network') # 0
    BY <1>2, <1>3, <2>1, LenProperties
  <2> QED
    BY <2>1, <2>2, EmptySeq
<1>7. TypeOK'
  BY <1>1, <1>2, <1>4, <1>5, <1>6, MaxSentAssumption DEF TypeOK
<1>8. StreamIsOwed'
  <2> SUFFICES ASSUME reader \notin {"error", "panic"}
               PROVE  /\ IsPrefix(buffer' \o network', Owed')
                      /\ buffer' \o network' = Owed'
    BY <1>1 DEF StreamIsOwed
  <2>1. buffer \o network = Owed
    BY <1>1 DEF CodecInvariant, StreamIsOwed
  <2>2. Owed' = Owed \o Written(c)
    <3>1. sent \in Seq(FtlCommand)
      BY <1>2, OwedIs
    <3> QED
      BY <1>1, <1>3, <1>5, <3>1, OwedOfMore DEF Owed
  <2>3. buffer \o (network \o Written(c)) = (buffer \o network) \o Written(c)
    BY <1>2, <1>3, ConcatIsAssociative
  <2>4. buffer' \o network' = Owed' /\ Owed' \in Seq(Symbol)
    BY <1>1, <1>2, <1>3, <2>1, <2>2, <2>3, OwedIs, ConcatProperties
  <2>5. IsPrefix(Owed', Owed')
    BY <2>4, PrefixAt, LenProperties
  <2> QED
    BY <2>4, <2>5
<1>9. DecodesWhatWasSent'
  <2>1. IsPrefix(decoded, sent')
    <3>1. /\ decoded \in Seq(Command) /\ Len(decoded) <= Len(sent)
          /\ \A i \in 1..Len(decoded) : decoded[i] = sent[i]
      BY <1>2, PrefixAt DEF TypeOK
    <3>2. /\ Len(decoded) <= Len(sent')
          /\ \A i \in 1..Len(decoded) : decoded[i] = sent'[i]
      BY <1>4, <1>5, <3>1
    <3> QED
      BY <1>4, <3>1, <3>2, PrefixAt
  <2>2. ASSUME reader \in {"error", "panic"}
        PROVE  /\ Len(decoded) < Len(sent')
               /\ Refused(sent'[Len(decoded) + 1])
    <3>1. Len(decoded) + 1 \in 1..Len(sent)
      BY <1>2, <1>5, <2>2
    <3> QED
      BY <1>2, <1>4, <1>5, <2>2, <3>1
  <2> QED
    BY <1>1, <1>6, <2>1, <2>2 DEF DecodesWhatWasSent
<1> QED
  BY <1>7, <1>8, <1>9 DEF CodecInvariant

LEMMA HangupKeeps ==
  ASSUME CodecInvariant, NEW n \in 0..Len(network), Hangup(n)
  PROVE  CodecInvariant'
<1>1. /\ open' = FALSE /\ network' = SubSeq(network, 1, n)
      /\ UNCHANGED <<sent, buffer, decoded, reader>>
  BY DEF Hangup
<1>2. /\ buffer \in Seq(Symbol) /\ network \in Seq(Symbol)
      /\ TypeOK /\ IsPrefix(decoded, sent)
  BY DEF CodecInvariant, TypeOK, DecodesWhatWasSent
<1>3. /\ network' \in Seq(Symbol)
      /\ buffer \o network' \in Seq(Symbol)
      /\ IsPrefix(buffer \o network', buffer \o network)
  BY <1>1, <1>2, Halves, Moved
<1>4. TypeOK'
  BY <1>1, <1>2, <1>3 DEF TypeOK
<1>5. StreamIsOwed'
  <2> SUFFICES ASSUME reader \notin {"error", "panic"}
               PROVE  IsPrefix(buffer \o network', Owed)
    BY <1>1 DEF StreamIsOwed, Owed
  <2>1. IsPrefix(buffer \o network, Owed) /\ Owed \in Seq(Symbol)
    BY <1>2, OwedIs DEF CodecInvariant, StreamIsOwed
  <2>2. buffer \o network \in Seq(Symbol)
    BY <1>2, ConcatProperties
  <2> QED
    BY <1>3, <2>1, <2>2, PrefixIsTransitive
<1>6. DecodesWhatWasSent'
  BY <1>1, <1>2 DEF DecodesWhatWasSent
<1> QED
  BY <1>4, <1>5, <1>6 DEF CodecInvariant

LEMMA NextKeeps ==
  CodecInvariant /\ [Next]_vars => CodecInvariant'
<1> SUFFICES ASSUME CodecInvariant, [Next]_vars PROVE CodecInvariant'
  OBVIOUS
<1>1. ASSUME UNCHANGED vars PROVE CodecInvariant'
  BY <1>1 DEF vars, CodecInvariant, TypeOK, StreamIsOwed, Owed,
              DecodesWhatWasSent
<1>2. CASE DecodeCommand
  BY <1>2, DecodeCommandKeeps
<1>3. CASE DecodeNone
  BY <1>3, DecodeNoneKeeps
<1>4. CASE ReadEnd
  BY <1>4, ReadEndKeeps
<1>5. ASSUME NEW n \in 1..Len(network), Read(n) PROVE CodecInvariant'
  BY <1>5, ReadKeeps
<1>6. ASSUME NEW c \in Command, Send(c) PROVE CodecInvariant'
  BY <1>6, SendKeeps
<1>7. ASSUME NEW n \in 0..Len(network), Hangup(n) PROVE CodecInvariant'
  BY <1>7, HangupKeeps
<1> QED
  BY <1>1, <1>2, <1>3, <1>4, <1>5, <1>6, <1>7
  DEF Next, DecoderStep, ClientStep

-----------------------------------------------------------------------------

\* Wherever the network cuts the stream and however long it is, the decoder
\* and Framed (ftl_codec.rs) hold, of what is under way, exactly the bytes of
\* the commands not yet decoded, from the first byte of one of them on, and
\* never a command they could decode while they wait.
THEOREM CodecInvariantHolds ==
  Spec => []CodecInvariant
<1>1. Init => CodecInvariant
  BY InitKeeps
<1>2. CodecInvariant /\ [Next]_vars => CodecInvariant'
  BY NextKeeps
<1> QED
  BY <1>1, <1>2, PTL DEF Spec

\* decode returns what the client sent, in order and with nothing lost, and
\* ends the stream only at a command it refuses or because the client has
\* gone.
THEOREM CommandsAreDecoded ==
  Spec => []DecodesWhatWasSent
<1>1. CodecInvariant => DecodesWhatWasSent
  BY DEF CodecInvariant
<1> QED
  BY <1>1, CodecInvariantHolds, PTL
=============================================================================
