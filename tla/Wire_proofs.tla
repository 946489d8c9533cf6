----------------------------- MODULE Wire_proofs -----------------------------
(***************************************************************************)
(* Proofs about Wire, for any structure with any embedded structure, any   *)
(* number of units and any sizes of the names, the initial buffer and the  *)
(* message: what the active writes is what the standby reads, unless the   *)
(* message is damaged in one of the four ways that harm names.             *)
(***************************************************************************)
EXTENDS Wire, SequenceTheorems, WellFoundedInduction, TLAPS

(***************************************************************************)
(* Induction.                                                              *)
(***************************************************************************)

LessThan == {ss \in Nat \X Nat : ss[1] < ss[2]}

\* A nonempty set of natural numbers has a least element.
LEMMA LeastNumber ==
    ASSUME NEW T, T \subseteq Nat, T # {}
    PROVE  \E x \in T : \A y \in T : x <= y
<1>1. IsWellFoundedOn(LessThan, Nat)
  BY NatLessThanWellFounded DEF OpToRel, LessThan
<1>2. PICK x \in T : \A y \in T : ~(<<y, x>> \in LessThan)
  BY <1>1, WFMin
<1>3. \A y \in T : ~(y < x)
  BY <1>2 DEF LessThan
<1> QED BY <1>3

\* A set of numbers that contains 0, and up to n the successor of each of its
\* elements, contains the numbers up to n.
LEMMA Upto ==
    ASSUME NEW n \in Nat, NEW S, 0 \in S, \A i \in 0..(n - 1) : i \in S => i + 1 \in S
    PROVE  0..n \subseteq S
<1> DEFINE T == 0..n \ S
<1>1. SUFFICES ASSUME T # {} PROVE FALSE
  OBVIOUS
<1>2. PICK x \in T : \A y \in T : x <= y
  <2>1. T \subseteq Nat
    OBVIOUS
  <2> HIDE DEF T
  <2> QED BY <1>1, <2>1, LeastNumber
<1>3. x \in 1..n /\ x - 1 \in 0..(n - 1) /\ (x - 1) + 1 = x
  OBVIOUS
<1>4. x - 1 \in T
  BY <1>3
<1> QED BY <1>2, <1>3, <1>4

(***************************************************************************)
(* The three recursions: sequences that start somewhere and go on by a     *)
(* rule.  Each is shown to exist; its equations are all that is used.      *)
(***************************************************************************)

\* The sizes that doubling goes through.
Doubles(d, s, n) == d = [i \in 0..n |-> IF i = 0 THEN s ELSE 2 * d[i - 1]]

LEMMA DoublesExist ==
    ASSUME NEW s, NEW n \in Nat
    PROVE  \E d : Doubles(d, s, n)
<1> DEFINE S == {k \in 0..n : \E d : Doubles(d, s, k)}
<1>1. 0 \in S
  <2>1. Doubles([i \in 0..0 |-> s], s, 0)
    BY DEF Doubles
  <2> QED BY <2>1
<1>2. ASSUME NEW k \in 0..(n - 1), k \in S PROVE k + 1 \in S
  <2>1. PICK d : Doubles(d, s, k)
    BY <1>2
  <2> DEFINE g == [i \in 0..(k + 1) |-> IF i = k + 1 THEN 2 * d[k] ELSE d[i]]
  <2>2. \A i \in 0..k : g[i] = d[i]
    OBVIOUS
  <2>3. Doubles(g, s, k + 1)
    <3> SUFFICES ASSUME NEW i \in 0..(k + 1)
                 PROVE  g[i] = IF i = 0 THEN s ELSE 2 * g[i - 1]
      BY Zenon DEF Doubles, g
    <3>1. CASE i = 0
      BY <2>1, <2>2, <3>1 DEF Doubles
    <3>2. CASE i \in 1..k
      BY <2>1, <2>2, <3>2 DEF Doubles
    <3>3. CASE i = k + 1
      BY <2>2, <3>3
    <3> QED BY <3>1, <3>2, <3>3
  <2> HIDE DEF g
  <2>4. k + 1 \in 0..n
    OBVIOUS
  <2> QED BY <2>3, <2>4
<1> HIDE DEF S
<1>3. 0..n \subseteq S
  BY <1>1, <1>2, Upto
<1>4. n \in S
  BY <1>3
<1> QED BY <1>4 DEF S

\* A buffer: what is written fits into it.
IsBuffer(b) == b \in [w : Seq(AnyWord), size : Nat \ {0}] /\ Len(b.w) <= b.size

\* The buffer grows until the words fit.
LEMMA GrownFits ==
    ASSUME NEW b, IsBuffer(b), NEW n \in Nat
    PROVE  Grown(b, n) \in Nat \ {0} /\ Len(b.w) + n <= Grown(b, n)
<1> DEFINE d == CHOOSE f : Doubles(f, b.size, n)
           enough == {i \in 0..n : d[i] - Len(b.w) >= n}
           least == CHOOSE i \in enough : \A j \in enough : i <= j
<1>1. Doubles(d, b.size, n)
  BY DoublesExist
<1>2. Grown(b, n) = d[least]
  BY DEF Grown, Doubles
<1>3. Len(b.w) \in Nat /\ b.size \in Nat \ {0} /\ Len(b.w) <= b.size
  BY DEF IsBuffer
<1> HIDE DEF d
<1>4. d[0] = b.size /\ \A i \in 1..n : d[i] = 2 * d[i - 1]
  BY <1>1 DEF Doubles
<1>5. \A i \in 0..n : d[i] \in Nat /\ d[i] >= b.size + i
  <2> DEFINE S == {i \in 0..n : d[i] \in Nat /\ d[i] >= b.size + i}
  <2>1. 0 \in S
    BY <1>3, <1>4
  <2>2. ASSUME NEW i \in 0..(n - 1), i \in S PROVE i + 1 \in S
    <3>1. i + 1 \in 1..n /\ (i + 1) - 1 = i
      OBVIOUS
    <3>2. d[i + 1] = 2 * d[i]
      BY <1>4, <3>1
    <3>3. d[i] \in Nat /\ d[i] >= b.size + i
      BY <2>2
    <3> QED BY <1>3, <3>1, <3>2, <3>3
  <2> HIDE DEF S
  <2>3. 0..n \subseteq S
    BY <2>1, <2>2, Upto
  <2> QED BY <2>3 DEF S
<1>6. n \in enough
  BY <1>3, <1>5
<1>7. least \in enough
  <2>1. enough \subseteq Nat
    OBVIOUS
  <2> HIDE DEF enough
  <2>2. \E i \in enough : \A j \in enough : i <= j
    BY <1>6, <2>1, LeastNumber
  <2> QED BY <2>2
<1>8. least \in 0..n /\ d[least] - Len(b.w) >= n
  BY <1>7
<1> HIDE DEF least
<1> QED BY <1>2, <1>3, <1>5, <1>8

\* The sums that Offsets goes through.
Sums(o, types, n) == o = [k \in 0..n |-> IF k = 0 THEN 0 ELSE o[k - 1] + Span(types[k])]

LEMMA SumsExist ==
    ASSUME NEW types, NEW n \in Nat
    PROVE  \E o : Sums(o, types, n)
<1> DEFINE S == {k \in 0..n : \E o : Sums(o, types, k)}
<1>1. 0 \in S
  <2>1. Sums([k \in 0..0 |-> 0], types, 0)
    BY DEF Sums
  <2> QED BY <2>1
<1>2. ASSUME NEW k \in 0..(n - 1), k \in S PROVE k + 1 \in S
  <2>1. PICK o : Sums(o, types, k)
    BY <1>2
  <2> DEFINE g == [i \in 0..(k + 1) |-> IF i = k + 1 THEN o[k] + Span(types[k + 1]) ELSE o[i]]
  <2>2. \A i \in 0..k : g[i] = o[i]
    OBVIOUS
  <2>3. Sums(g, types, k + 1)
    <3> SUFFICES ASSUME NEW i \in 0..(k + 1)
                 PROVE  g[i] = IF i = 0 THEN 0 ELSE g[i - 1] + Span(types[i])
      BY Zenon DEF Sums, g
    <3>1. CASE i = 0
      BY <2>1, <2>2, <3>1 DEF Sums
    <3>2. CASE i \in 1..k
      BY <2>1, <2>2, <3>2 DEF Sums
    <3>3. CASE i = k + 1
      BY <2>2, <3>3
    <3> QED BY <3>1, <3>2, <3>3
  <2> HIDE DEF g
  <2>4. k + 1 \in 0..n
    OBVIOUS
  <2> QED BY <2>3, <2>4
<1> HIDE DEF S
<1>3. 0..n \subseteq S
  BY <1>1, <1>2, Upto
<1>4. n \in S
  BY <1>3
<1> QED BY <1>4 DEF S

\* A structure is a sequence of fields, and so is the one embedded in it.
LEMMA TypesSeq ==
    ASSUME NEW f \in Field
    PROVE  /\ Types(f) \in Seq({"DATA", "PTR"})
           /\ Len(Types(f)) \in Nat \ {0}
           /\ DOMAIN Types(f) = 1..Len(Types(f))
<1>1. f \in 1..Len(Fields) /\ Fields[f] \in {"DATA", "PTR", "EMB"}
  BY FieldsAssumption DEF Field, NFields
<1>2. CASE Fields[f] = "EMB"
  BY <1>2, FieldsAssumption, EmptySeq DEF Types
<1>3. CASE Fields[f] \in {"DATA", "PTR"}
  <2>1. Types(f) = <<Fields[f]>>
    BY <1>3 DEF Types
  <2>2. <<Fields[f]>> \in Seq({"DATA", "PTR"}) /\ Len(<<Fields[f]>>) = 1
    BY <1>3
  <2> QED BY <2>1, <2>2
<1> QED BY <1>1, <1>2, <1>3

LEMMA SpanNat == \A t : Span(t) \in Nat \ {0}
BY SizesAssumption DEF Span

\* Each value of a field takes up what comes after the values before it.
LEMMA OffsetsAre ==
    ASSUME NEW f \in Field
    PROVE  /\ Offsets(f)[0] = 0
           /\ \A k \in 1..Len(Types(f)) :
                 Offsets(f)[k] = Offsets(f)[k - 1] + Span(Types(f)[k])
           /\ \A k \in 0..Len(Types(f)) : Offsets(f)[k] \in Nat
<1> DEFINE n == Len(Types(f))
           o == CHOOSE sum : Sums(sum, Types(f), n)
<1>1. n \in Nat \ {0}
  BY TypesSeq
<1>2. Sums(o, Types(f), n)
  BY <1>1, SumsExist
<1>3. Offsets(f) = o
  BY DEF Offsets, Sums
<1> HIDE DEF o
<1>4. o[0] = 0 /\ \A k \in 1..n : o[k] = o[k - 1] + Span(Types(f)[k])
  BY <1>1, <1>2 DEF Sums
<1>5. \A k \in 0..n : o[k] \in Nat
  <2> DEFINE S == {k \in 0..n : o[k] \in Nat}
  <2>1. 0 \in S
    BY <1>1, <1>4
  <2>2. ASSUME NEW k \in 0..(n - 1), k \in S PROVE k + 1 \in S
    <3>1. k + 1 \in 1..n /\ (k + 1) - 1 = k
      BY <1>1
    <3>2. o[k + 1] = o[k] + Span(Types(f)[k + 1])
      BY <1>4, <3>1
    <3>3. Span(Types(f)[k + 1]) \in Nat
      BY SpanNat
    <3> QED BY <1>1, <2>2, <3>1, <3>2, <3>3
  <2> HIDE DEF S
  <2>3. 0..n \subseteq S
    BY <1>1, <2>1, <2>2, Upto
  <2> QED BY <2>3 DEF S
<1> QED BY <1>3, <1>4, <1>5

\* Every value lies within its field.
LEMMA OffsetsWithin ==
    ASSUME NEW f \in Field, NEW k \in 1..Len(Types(f))
    PROVE  Offsets(f)[k] <= FieldSpan(f)
<1> DEFINE n == Len(Types(f))
           S == {i \in 0..(n - k) : Offsets(f)[k] <= Offsets(f)[k + i]}
<1>1. n \in Nat \ {0} /\ n - k \in Nat
  BY TypesSeq
<1>2. 0 \in S
  BY <1>1, OffsetsAre
<1>3. ASSUME NEW i \in 0..(n - k - 1), i \in S PROVE i + 1 \in S
  <2>1. k + i \in 0..n /\ k + i + 1 \in 1..n /\ (k + i + 1) - 1 = k + i /\ k + (i + 1) = k + i + 1
    BY <1>1
  <2>2. Offsets(f)[k + i + 1] = Offsets(f)[k + i] + Span(Types(f)[k + i + 1])
    BY <2>1, OffsetsAre
  <2>3. Span(Types(f)[k + i + 1]) \in Nat /\ Offsets(f)[k + i] \in Nat /\ Offsets(f)[k] \in Nat
    BY <2>1, SpanNat, OffsetsAre
  <2>4. Offsets(f)[k] <= Offsets(f)[k + i]
    BY <1>3
  <2> QED BY <1>1, <2>1, <2>2, <2>3, <2>4
<1> HIDE DEF S
<1>4. 0..(n - k) \subseteq S
  BY <1>1, <1>2, <1>3, Upto
<1>5. n - k \in S
  BY <1>1, <1>4
<1>6. k + (n - k) = n
  BY <1>1
<1> QED BY <1>5, <1>6 DEF S, FieldSpan

LEMMA FieldSpanNat ==
    ASSUME NEW f \in Field
    PROVE  FieldSpan(f) \in Nat
BY OffsetsAre, TypesSeq DEF FieldSpan

(***************************************************************************)
(* Writing: each operation of the buffer appends a number of words and     *)
(* leaves those that are there alone.                                      *)
(***************************************************************************)

Extends(b, c, n) ==
    /\ IsBuffer(c)
    /\ Len(c.w) = Len(b.w) + n
    /\ \A i \in 1..Len(b.w) : c.w[i] = b.w[i]

LEMMA ExtendsTransitive ==
    ASSUME NEW b, NEW c, NEW d, IsBuffer(b), NEW m \in Nat, NEW n \in Nat,
           Extends(b, c, m), Extends(c, d, n)
    PROVE  Extends(b, d, m + n)
BY DEF Extends, IsBuffer

LEMMA AppendWords ==
    ASSUME NEW b, IsBuffer(b), NEW words \in Seq(AnyWord),
           NEW c, c = [w |-> b.w \o words, size |-> Grown(b, Len(words))]
    PROVE  /\ Extends(b, c, Len(words))
           /\ \A i \in 1..Len(words) : c.w[Len(b.w) + i] = words[i]
<1> DEFINE s == b.w
<1>1. s \in Seq(AnyWord) /\ Len(s) \in Nat /\ Len(words) \in Nat
  BY DEF IsBuffer
<1>2. Grown(b, Len(words)) \in Nat \ {0} /\ Len(s) + Len(words) <= Grown(b, Len(words))
  BY <1>1, GrownFits
<1>3. c.w = s \o words /\ c.size = Grown(b, Len(words))
  OBVIOUS
<1> HIDE DEF s
<1>4. /\ s \o words \in Seq(AnyWord)
      /\ Len(s \o words) = Len(s) + Len(words)
      /\ \A i \in 1..Len(s) : (s \o words)[i] = s[i]
      /\ \A i \in 1..Len(words) : (s \o words)[Len(s) + i] = words[i]
  BY <1>1
<1>5. IsBuffer(c)
  BY <1>1, <1>2, <1>3, <1>4 DEF IsBuffer
<1> QED BY <1>3, <1>4, <1>5 DEF Extends, s

LEMMA PutExtends ==
    ASSUME NEW b, IsBuffer(b), NEW words \in Seq(AnyWord)
    PROVE  /\ Extends(b, Put(b, words), Len(words))
           /\ \A i \in 1..Len(words) : Put(b, words).w[Len(b.w) + i] = words[i]
BY AppendWords DEF Put

\* serialize_int32 and the like: one word.
LEMMA PutOne ==
    ASSUME NEW b, IsBuffer(b), NEW w \in AnyWord
    PROVE  Extends(b, Put(b, <<w>>), 1) /\ Put(b, <<w>>).w[Len(b.w) + 1] = w
<1> DEFINE one == <<w>>
<1>1. one \in Seq(AnyWord) /\ Len(one) = 1 /\ one[1] = w
  OBVIOUS
<1> HIDE DEF one
<1>2. /\ Extends(b, Put(b, one), Len(one))
      /\ \A i \in 1..Len(one) : Put(b, one).w[Len(b.w) + i] = one[i]
  BY <1>1, PutExtends
<1>3. Extends(b, Put(b, one), 1) /\ Put(b, one).w[Len(b.w) + 1] = w
  BY <1>1, <1>2
<1> QED BY <1>3 DEF one

LEMMA SkipExtends ==
    ASSUME NEW b, IsBuffer(b), NEW n \in Nat, NEW fill \in AnyWord
    PROVE  /\ Extends(b, Skip(b, n, fill), n)
           /\ n > 0 => Skip(b, n, fill).w[Len(b.w) + 1] = IF Len(b.w) + 1 <= InitWords THEN 0 ELSE fill
<1> DEFINE s == [i \in 1..n |-> IF Len(b.w) + i <= InitWords THEN 0 ELSE fill]
<1>1. s \in Seq(AnyWord) /\ Len(s) = n
  <2>1. s \in [1..n -> AnyWord]
    BY DEF AnyWord
  <2> HIDE DEF s
  <2> QED BY <2>1
<1>2. n > 0 => s[1] = IF Len(b.w) + 1 <= InitWords THEN 0 ELSE fill
  OBVIOUS
<1>3. Skip(b, n, fill) = [w |-> b.w \o s, size |-> Grown(b, Len(s))]
  BY <1>1 DEF Skip
<1> HIDE DEF s
<1>4. /\ Extends(b, Skip(b, n, fill), Len(s))
      /\ \A i \in 1..Len(s) : Skip(b, n, fill).w[Len(b.w) + i] = s[i]
  BY <1>1, <1>3, AppendWords
<1> QED BY <1>1, <1>2, <1>4

LEMMA NameSeq ==
    ASSUME NEW first \in AnyWord
    PROVE  Name(first) \in Seq(AnyWord) /\ Len(Name(first)) = NameWords /\ Name(first)[1] = first
<1>1. NameWords \in Nat \ {0} /\ Rest \in AnyWord
  BY SizesAssumption DEF AnyWord
<1>2. Name(first) \in [1..NameWords -> AnyWord] /\ Name(first)[1] = first
  BY <1>1 DEF Name
<1> QED BY <1>1, <1>2

\* What the first word of a slot says of a pointer.
Carried(t, w) == IF t = "DATA" \/ w = 0 \/ w \in Id THEN w ELSE Mark

\* A pointer takes as many words as a name; what is read from them is what was
\* meant, unless a NULL lands behind the initial buffer.
LEMMA PutPointerExtends ==
    ASSUME NEW b, IsBuffer(b), NEW p, NEW fill \in AnyWord
    PROVE  /\ Extends(b, PutPointer(b, p, fill), NameWords)
           /\ (p = 0 => Len(b.w) + 1 <= InitWords) =>
                 PutPointer(b, p, fill).w[Len(b.w) + 1] = Carried("PTR", p)
<1>0. NameWords \in Nat \ {0} /\ 0 \notin Id
  BY SizesAssumption, WordsAssumption
<1>1. CASE p = 0
  <2>1. PutPointer(b, p, fill) = Skip(b, NameWords, fill)
    BY <1>0, <1>1 DEF PutPointer
  <2> QED BY <1>0, <1>1, <2>1, SkipExtends DEF Carried
<1>2. CASE p \in Id
  <2>1. PutPointer(b, p, fill) = Put(b, Name(p))
    BY <1>0, <1>2 DEF PutPointer
  <2>2. p \in AnyWord
    BY <1>2 DEF AnyWord
  <2>3. Name(p) \in Seq(AnyWord) /\ Len(Name(p)) = NameWords /\ Name(p)[1] = p
    BY <2>2, NameSeq
  <2>4. Extends(b, Put(b, Name(p)), NameWords) /\ Put(b, Name(p)).w[Len(b.w) + 1] = p
    BY <1>0, <2>3, PutExtends
  <2> QED BY <1>2, <2>1, <2>4 DEF Carried
<1>3. CASE p # 0 /\ p \notin Id
  <2> DEFINE c == Put(b, <<Mark>>)
             d == Skip(c, NameWords - 1, fill)
  <2>1. PutPointer(b, p, fill) = d
    BY <1>3 DEF PutPointer
  <2>2. Mark \in AnyWord
    BY DEF AnyWord
  <2>3. Extends(b, c, 1) /\ c.w[Len(b.w) + 1] = Mark
    BY <2>2, PutOne
  <2> HIDE DEF c
  <2>4. IsBuffer(c) /\ Len(b.w) \in Nat /\ Len(c.w) = Len(b.w) + 1
    BY <2>3 DEF Extends, IsBuffer
  <2>5. NameWords - 1 \in Nat /\ 1 + (NameWords - 1) = NameWords
    BY <1>0
  <2>6. Extends(c, d, NameWords - 1)
    BY <2>4, <2>5, SkipExtends
  <2> HIDE DEF d
  <2>7. Extends(b, d, 1 + (NameWords - 1))
    BY <2>3, <2>5, <2>6, ExtendsTransitive
  <2>8. d.w[Len(b.w) + 1] = c.w[Len(b.w) + 1]
    BY <2>4, <2>6 DEF Extends
  <2> QED BY <1>3, <2>1, <2>3, <2>5, <2>7, <2>8 DEF Carried
<1> QED BY <1>1, <1>2, <1>3

\* What PutWords goes through: the buffer and the word to take, after each word.
Writes(d, b, types, words, fill, n) ==
    d = [i \in 0..n |-> IF i = 0 THEN [b |-> b, k |-> 1]
                        ELSE PutWord(d[i - 1], types[i], words, fill)]

LEMMA WritesExist ==
    ASSUME NEW b, NEW types, NEW words, NEW fill, NEW n \in Nat
    PROVE  \E d : Writes(d, b, types, words, fill, n)
<1> DEFINE S == {k \in 0..n : \E d : Writes(d, b, types, words, fill, k)}
           first == [b |-> b, k |-> 1]
<1>1. 0 \in S
  <2>1. Writes([i \in 0..0 |-> first], b, types, words, fill, 0)
    BY DEF Writes
  <2> QED BY <2>1
<1>2. ASSUME NEW k \in 0..(n - 1), k \in S PROVE k + 1 \in S
  <2>1. PICK d : Writes(d, b, types, words, fill, k)
    BY <1>2
  <2> DEFINE g == [i \in 0..(k + 1) |-> IF i = k + 1 THEN PutWord(d[k], types[k + 1], words, fill)
                                        ELSE d[i]]
  <2>2. \A i \in 0..k : g[i] = d[i]
    OBVIOUS
  <2>3. Writes(g, b, types, words, fill, k + 1)
    <3> SUFFICES ASSUME NEW i \in 0..(k + 1)
                 PROVE  g[i] = IF i = 0 THEN first ELSE PutWord(g[i - 1], types[i], words, fill)
      BY Zenon DEF Writes, g
    <3>1. CASE i = 0
      BY <2>1, <2>2, <3>1 DEF Writes
    <3>2. CASE i \in 1..k
      BY <2>1, <2>2, <3>2 DEF Writes
    <3>3. CASE i = k + 1
      BY <2>2, <3>3
    <3> QED BY <3>1, <3>2, <3>3
  <2> HIDE DEF g
  <2>4. k + 1 \in 0..n
    OBVIOUS
  <2> QED BY <2>3, <2>4
<1> HIDE DEF S
<1>3. 0..n \subseteq S
  BY <1>1, <1>2, Upto
<1>4. n \in S
  BY <1>3
<1> QED BY <1>4 DEF S

Through(d, b, types, words, fill, n) ==
    /\ PutWords(b, types, words, fill) = d[n].b
    /\ d[0] = [b |-> b, k |-> 1]
    /\ \A i \in 1..n : d[i] = PutWord(d[i - 1], types[i], words, fill)

LEMMA PutWordsDone ==
    ASSUME NEW b, NEW types, NEW words, NEW fill, Len(types) \in Nat
    PROVE  \E d : Through(d, b, types, words, fill, Len(types))
<1> DEFINE d == CHOOSE f : Writes(f, b, types, words, fill, Len(types))
<1>1. Writes(d, b, types, words, fill, Len(types))
  BY WritesExist
<1>2. PutWords(b, types, words, fill) = d[Len(types)].b
  BY DEF PutWords, Writes
<1> HIDE DEF d
<1>3. /\ d[0] = [b |-> b, k |-> 1]
      /\ \A i \in 1..Len(types) : d[i] = PutWord(d[i - 1], types[i], words, fill)
  BY <1>1 DEF Writes
<1>4. Through(d, b, types, words, fill, Len(types))
  BY Zenon, <1>2, <1>3 DEF Through
<1> QED BY Zenon, <1>4

\* One word of a field.
LEMMA PutWordExtends ==
    ASSUME NEW done, IsBuffer(done.b), NEW words \in Seq(AnyWord), done.k \in 1..Len(words),
           NEW t \in {"DATA", "PTR"}, NEW fill \in AnyWord,
           NEW new, new = PutWord(done, t, words, fill)
    PROVE  /\ Extends(done.b, new.b, Span(t))
           /\ new.k \in {done.k, done.k + 1}
           /\ (t = "PTR" => words[done.k] # 0) => new.k = done.k + 1
           /\ (t = "PTR" /\ words[done.k] = 0 => Len(done.b.w) + 1 <= InitWords) =>
                 new.b.w[Len(done.b.w) + 1] = Carried(t, words[done.k])
<1> DEFINE w == words[done.k]
           b == done.b
<1>0. w \in AnyWord /\ IsBuffer(b)
  OBVIOUS
<1>1. CASE t = "DATA"
  <2>1. new.b = Put(b, <<w>>) /\ new.k = done.k + 1
    BY <1>1 DEF PutWord
  <2>2. Extends(b, Put(b, <<w>>), 1) /\ Put(b, <<w>>).w[Len(b.w) + 1] = w
    BY <1>0, PutOne
  <2> QED BY <1>1, <2>1, <2>2 DEF Span, Carried
<1>2. CASE t = "PTR"
  <2>1. new.b = PutPointer(b, w, fill) /\ new.k = IF w = 0 THEN done.k ELSE done.k + 1
    BY <1>2 DEF PutWord
  <2>2. /\ Extends(b, PutPointer(b, w, fill), NameWords)
        /\ (w = 0 => Len(b.w) + 1 <= InitWords) =>
              PutPointer(b, w, fill).w[Len(b.w) + 1] = Carried("PTR", w)
    BY <1>0, PutPointerExtends
  <2> QED BY <1>2, <2>1, <2>2 DEF Span
<1> QED BY <1>1, <1>2

\* A field takes its span, whatever it holds.
LEMMA PutWordsExtends ==
    ASSUME NEW b, IsBuffer(b), NEW f \in Field, NEW words \in Seq(AnyWord),
           Len(words) = Len(Types(f)), NEW fill \in AnyWord
    PROVE  Extends(b, PutWords(b, Types(f), words, fill), FieldSpan(f))
<1> DEFINE T == Types(f)
           n == Len(T)
           o == Offsets(f)
<1>0. /\ n \in Nat \ {0} /\ o[0] = 0
      /\ \A i \in 1..n : T[i] \in {"DATA", "PTR"}
      /\ \A i \in 1..n : o[i] = o[i - 1] + Span(T[i])
      /\ \A i \in 0..n : o[i] \in Nat
      /\ FieldSpan(f) = o[n]
  BY TypesSeq, OffsetsAre DEF FieldSpan
<1>d. PICK d : Through(d, b, T, words, fill, n)
  <2>1. Len(T) \in Nat
    BY <1>0
  <2> QED BY Zenon, <2>1, PutWordsDone
<1>1. /\ PutWords(b, T, words, fill) = d[n].b
      /\ d[0] = [b |-> b, k |-> 1]
      /\ \A i \in 1..n : d[i] = PutWord(d[i - 1], T[i], words, fill)
  BY Zenon, <1>d DEF Through
<1> DEFINE S == {i \in 0..n : Extends(b, d[i].b, o[i]) /\ d[i].k \in 1..(i + 1)}
<1> HIDE DEF T, n, o
<1>2. 0 \in S
  BY <1>0, <1>1 DEF Extends, IsBuffer
<1>3. ASSUME NEW i \in 0..(n - 1), i \in S PROVE i + 1 \in S
  <2>1. i + 1 \in 1..n /\ (i + 1) - 1 = i /\ i \in 0..n
    BY <1>0
  <2>2. Extends(b, d[i].b, o[i]) /\ d[i].k \in 1..(i + 1)
    BY <1>3
  <2>3. d[i + 1] = PutWord(d[i], T[i + 1], words, fill) /\ T[i + 1] \in {"DATA", "PTR"}
    BY <1>0, <1>1, <2>1
  <2>4. IsBuffer(d[i].b) /\ d[i].k \in 1..Len(words)
    BY <1>0, <2>1, <2>2 DEF Extends, n, T
  <2>5. Extends(d[i].b, d[i + 1].b, Span(T[i + 1])) /\ d[i + 1].k \in {d[i].k, d[i].k + 1}
    BY <2>3, <2>4, PutWordExtends
  <2>6. o[i + 1] = o[i] + Span(T[i + 1]) /\ o[i] \in Nat /\ Span(T[i + 1]) \in Nat
    BY <1>0, <2>1, SpanNat
  <2>7. Extends(b, d[i + 1].b, o[i + 1])
    BY <2>2, <2>5, <2>6, ExtendsTransitive
  <2>8. d[i + 1].k \in 1..((i + 1) + 1) /\ i + 1 \in 0..n
    BY <2>1, <2>2, <2>5
  <2> QED BY <2>7, <2>8
<1>4. n \in S
  <2> HIDE DEF S
  <2>1. 0..n \subseteq S
    BY <1>0, <1>2, <1>3, Upto
  <2> QED BY <1>0, <2>1
<1> QED BY <1>0, <1>1, <1>4 DEF T

\* No NULL before the last value of a field, and none that lands behind the
\* initial buffer when the message is len words long after it.
Unshifted(f, words) == \A k \in 1..(Len(words) - 1) : Types(f)[k] = "PTR" => words[k] # 0
Inside(len) == len - NameWords < InitWords
Zeroed(f, words, len) ==
    Types(f)[Len(words)] = "PTR" /\ words[Len(words)] = 0 => Inside(len)

\* And every value is at its place in it, unless a NULL shifts what follows or
\* lands behind the initial buffer.
LEMMA PutWordsCarries ==
    ASSUME NEW b, IsBuffer(b), NEW f \in Field, NEW words \in Seq(AnyWord),
           Len(words) = Len(Types(f)), NEW fill \in AnyWord,
           Unshifted(f, words), Zeroed(f, words, Len(b.w) + FieldSpan(f))
    PROVE  \A k \in 1..Len(words) :
               PutWords(b, Types(f), words, fill).w[At(Len(b.w), f, k)] = Carried(Types(f)[k], words[k])
<1> DEFINE T == Types(f)
           n == Len(T)
           o == Offsets(f)
           m == Len(b.w)
<1>0. /\ n \in Nat \ {0} /\ o[0] = 0
      /\ \A i \in 1..n : T[i] \in {"DATA", "PTR"}
      /\ \A i \in 1..n : o[i] = o[i - 1] + Span(T[i])
      /\ \A i \in 0..n : o[i] \in Nat
      /\ FieldSpan(f) = o[n]
      /\ m \in Nat
  <2>1. n \in Nat \ {0} /\ \A i \in 1..n : T[i] \in {"DATA", "PTR"}
    BY TypesSeq
  <2>2. /\ o[0] = 0
        /\ \A i \in 1..n : o[i] = o[i - 1] + Span(T[i])
        /\ \A i \in 0..n : o[i] \in Nat
    BY OffsetsAre
  <2>3. FieldSpan(f) = o[n]
    BY DEF FieldSpan
  <2>4. m \in Nat
    BY DEF IsBuffer
  <2> QED BY <2>1, <2>2, <2>3, <2>4
<1>d. PICK d : Through(d, b, T, words, fill, n)
  <2>1. Len(T) \in Nat
    BY <1>0
  <2> QED BY Zenon, <2>1, PutWordsDone
<1>1. /\ PutWords(b, T, words, fill) = d[n].b
      /\ d[0] = [b |-> b, k |-> 1]
      /\ \A i \in 1..n : d[i] = PutWord(d[i - 1], T[i], words, fill)
  BY Zenon, <1>d DEF Through
<1>9. /\ Len(words) = n
      /\ \A k \in 1..(n - 1) : T[k] = "PTR" => words[k] # 0
      /\ T[n] = "PTR" /\ words[n] = 0 => Inside(m + o[n])
  <2>1. Len(words) = n
    OBVIOUS
  <2>2. \A k \in 1..(n - 1) : T[k] = "PTR" => words[k] # 0
    BY <2>1 DEF Unshifted
  <2>3. T[n] = "PTR" /\ words[n] = 0 => Inside(m + o[n])
    <3>1. Zeroed(f, words, m + o[n])
      BY <1>0
    <3>2. T[Len(words)] = "PTR" /\ words[Len(words)] = 0 => Inside(m + o[n])
      BY Zenon, <3>1 DEF Zeroed
    <3> QED BY <2>1, <3>2
  <2> QED BY <1>0, <2>1, <2>2, <2>3
<1> DEFINE Placed(i) == \A k \in 1..i : /\ o[k - 1] + 1 <= o[i]
                                        /\ d[i].b.w[m + o[k - 1] + 1] = Carried(T[k], words[k])
           S == {i \in 0..n : Extends(b, d[i].b, o[i]) /\ (i < n => d[i].k = i + 1) /\ Placed(i)}
<1> HIDE DEF T, n, o, m
<1>2. 0 \in S
  <2>1. Extends(b, d[0].b, 0)
    BY <1>1 DEF Extends, IsBuffer
  <2> QED BY <1>0, <1>1, <2>1
<1>3. ASSUME NEW i \in 0..(n - 1), i \in S PROVE i + 1 \in S
  <2>1. i + 1 \in 1..n /\ (i + 1) - 1 = i /\ i \in 0..n /\ i < n /\ i \in Nat
    BY <1>0
  <2>2. Extends(b, d[i].b, o[i]) /\ d[i].k = i + 1 /\ Placed(i)
    BY <1>3, <2>1
  <2>3. d[i + 1] = PutWord(d[i], T[i + 1], words, fill) /\ T[i + 1] \in {"DATA", "PTR"}
    BY <1>0, <1>1, <2>1
  <2>4. IsBuffer(d[i].b) /\ d[i].k \in 1..Len(words)
    BY <1>9, <2>1, <2>2 DEF Extends
  <2>5. Len(d[i].b.w) = m + o[i]
    BY <2>2 DEF Extends, m
  <2>6. o[i + 1] = o[i] + Span(T[i + 1]) /\ o[i] \in Nat /\ Span(T[i + 1]) \in Nat \ {0}
    BY <1>0, <2>1, SpanNat
  <2>7. T[i + 1] = "PTR" /\ words[i + 1] = 0 => m + o[i] + 1 <= InitWords
    <3> SUFFICES ASSUME T[i + 1] = "PTR", words[i + 1] = 0
                 PROVE  m + o[i] + 1 <= InitWords
      OBVIOUS
    <3>1. i + 1 = n
      BY <1>9, <2>1
    <3>2. Span(T[i + 1]) = NameWords
      BY DEF Span
    <3>3. Inside(m + o[n])
      BY <1>9, <3>1
    <3>4. NameWords \in Nat /\ InitWords \in Nat
      BY SizesAssumption
    <3>5. o[n] = o[i] + NameWords
      BY <2>6, <3>1, <3>2
    <3>6. m \in Nat /\ o[i] \in Nat
      BY <1>0, <2>6
    <3> QED BY <3>3, <3>4, <3>5, <3>6 DEF Inside
  <2>8. /\ Extends(d[i].b, d[i + 1].b, Span(T[i + 1]))
        /\ (T[i + 1] = "PTR" => words[i + 1] # 0) => d[i + 1].k = i + 1 + 1
        /\ d[i + 1].b.w[m + o[i] + 1] = Carried(T[i + 1], words[i + 1])
    <3>1. /\ Extends(d[i].b, d[i + 1].b, Span(T[i + 1]))
          /\ (T[i + 1] = "PTR" => words[d[i].k] # 0) => d[i + 1].k = d[i].k + 1
          /\ (T[i + 1] = "PTR" /\ words[d[i].k] = 0 => Len(d[i].b.w) + 1 <= InitWords) =>
                d[i + 1].b.w[Len(d[i].b.w) + 1] = Carried(T[i + 1], words[d[i].k])
      <4> DEFINE old == d[i]
                 new == d[i + 1]
                 t == T[i + 1]
      <4>1. new = PutWord(old, t, words, fill) /\ t \in {"DATA", "PTR"}
        BY <2>3
      <4>2. IsBuffer(old.b) /\ old.k \in 1..Len(words)
        BY <2>4
      <4> HIDE DEF old, new, t
      <4>3. /\ Extends(old.b, new.b, Span(t))
            /\ (t = "PTR" => words[old.k] # 0) => new.k = old.k + 1
            /\ (t = "PTR" /\ words[old.k] = 0 => Len(old.b.w) + 1 <= InitWords) =>
                  new.b.w[Len(old.b.w) + 1] = Carried(t, words[old.k])
        BY <4>1, <4>2, PutWordExtends
      <4> QED BY <4>3 DEF old, new, t
    <3>2. d[i].k = i + 1
      BY <2>2
    <3> QED BY <2>5, <2>7, <3>1, <3>2
  <2>9. Extends(b, d[i + 1].b, o[i + 1])
    BY <2>2, <2>6, <2>8, ExtendsTransitive
  <2>10. i + 1 < n => d[i + 1].k = i + 1 + 1
    <3>1. i + 1 < n => (T[i + 1] = "PTR" => words[i + 1] # 0)
      BY <1>9, <2>1
    <3> QED BY <2>8, <3>1
  <2>11. Placed(i + 1)
    <3> SUFFICES ASSUME NEW k \in 1..(i + 1)
                 PROVE  /\ o[k - 1] + 1 <= o[i + 1]
                        /\ d[i + 1].b.w[m + o[k - 1] + 1] = Carried(T[k], words[k])
      OBVIOUS
    <3>1. CASE k = i + 1
      BY <2>1, <2>6, <2>8, <3>1
    <3>2. CASE k \in 1..i
      <4>1. o[k - 1] + 1 <= o[i] /\ d[i].b.w[m + o[k - 1] + 1] = Carried(T[k], words[k])
        BY <2>2, <3>2
      <4>2. k - 1 \in 0..n
        BY <1>0, <2>1, <3>2
      <4>3. o[k - 1] \in Nat
        BY <1>0, <4>2
      <4>4. m + o[k - 1] + 1 \in 1..Len(d[i].b.w)
        <5>1. m \in Nat /\ o[i] \in Nat /\ o[k - 1] \in Nat /\ o[k - 1] + 1 <= o[i]
          BY <1>0, <2>6, <4>1, <4>3
        <5> QED BY <2>5, <5>1
      <4>5. d[i + 1].b.w[m + o[k - 1] + 1] = d[i].b.w[m + o[k - 1] + 1]
        BY <2>8, <4>4 DEF Extends
      <4> QED BY <2>6, <4>1, <4>3, <4>5
    <3> QED BY <2>1, <3>1, <3>2
  <2> HIDE DEF Placed
  <2>12. i + 1 \in 0..n
    BY <2>1
  <2> QED BY <2>9, <2>10, <2>11, <2>12
<1>4. n \in S
  <2> HIDE DEF S
  <2>1. 0..n \subseteq S
    BY <1>0, <1>2, <1>3, Upto
  <2> QED BY <1>0, <2>1
<1>5. \A k \in 1..n : d[n].b.w[m + o[k - 1] + 1] = Carried(T[k], words[k])
  BY <1>4
<1> QED BY <1>1, <1>5, <1>9 DEF At, T, n, o, m

\* A field is its index, and then its values.
LEMMA PutFieldExtends ==
    ASSUME NEW b, IsBuffer(b), NEW f \in Field, NEW words \in Seq(AnyWord),
           Len(words) = Len(Types(f)), NEW fill \in AnyWord
    PROVE  /\ Extends(b, PutField(b, f, words, fill), 1 + FieldSpan(f))
           /\ PutField(b, f, words, fill).w[Len(b.w) + 1] = f - 1
<1> DEFINE c == Put(b, <<f - 1>>)
           d == PutWords(c, Types(f), words, fill)
<1>1. f - 1 \in AnyWord
  BY DEF AnyWord, Field
<1>2. Extends(b, c, 1) /\ c.w[Len(b.w) + 1] = f - 1
  BY <1>1, PutOne
<1>3. PutField(b, f, words, fill) = d
  BY DEF PutField
<1> HIDE DEF c
<1>4. IsBuffer(c) /\ Len(b.w) \in Nat /\ Len(c.w) = Len(b.w) + 1
  BY <1>2 DEF Extends, IsBuffer
<1>5. Extends(c, d, FieldSpan(f))
  BY <1>4, PutWordsExtends
<1> HIDE DEF d
<1>6. Extends(b, d, 1 + FieldSpan(f))
  BY <1>2, <1>5, FieldSpanNat, ExtendsTransitive
<1>7. d.w[Len(b.w) + 1] = c.w[Len(b.w) + 1]
  BY <1>4, <1>5 DEF Extends
<1> QED BY <1>2, <1>3, <1>6, <1>7

LEMMA PutFieldCarries ==
    ASSUME NEW b, IsBuffer(b), NEW f \in Field, NEW words \in Seq(AnyWord),
           Len(words) = Len(Types(f)), NEW fill \in AnyWord,
           Unshifted(f, words), Zeroed(f, words, Len(PutField(b, f, words, fill).w))
    PROVE  \A k \in 1..Len(words) :
               PutField(b, f, words, fill).w[At(Len(b.w) + 1, f, k)] = Carried(Types(f)[k], words[k])
<1> DEFINE c == Put(b, <<f - 1>>)
           d == PutWords(c, Types(f), words, fill)
<1>1. f - 1 \in AnyWord
  BY DEF AnyWord, Field
<1>2. Extends(b, c, 1)
  BY <1>1, PutOne
<1>3. PutField(b, f, words, fill) = d
  BY DEF PutField
<1>4. IsBuffer(c) /\ Len(b.w) \in Nat /\ Len(c.w) = Len(b.w) + 1
  BY <1>2 DEF Extends, IsBuffer
<1> HIDE DEF c
<1>5. Len(d.w) = Len(c.w) + FieldSpan(f)
  <2>1. Extends(c, d, FieldSpan(f))
    BY <1>4, PutWordsExtends
  <2> QED BY <2>1 DEF Extends
<1> HIDE DEF d
<1>6. Zeroed(f, words, Len(c.w) + FieldSpan(f))
  BY Zenon, <1>3, <1>5
<1>7. \A k \in 1..Len(words) : d.w[At(Len(c.w), f, k)] = Carried(Types(f)[k], words[k])
  BY <1>4, <1>6, PutWordsCarries DEF d
<1> QED BY <1>3, <1>4, <1>7

(***************************************************************************)
(* Types.                                                                  *)
(***************************************************************************)

\* The loops stay within the units.
Typed == TypeOK /\ (pc \in {"field", "read_field"} => unit \in Unit)

\* Storing into one field of an object.
LEMMA StoredObject ==
    ASSUME NEW m, IsObject(m), NEW u \in Unit, NEW f \in Field,
           NEW s \in Seq(AnyWord), Len(s) = Len(Types(f))
    PROVE  IsObject([m EXCEPT ![u][f] = s])
<1> DEFINE new == [m EXCEPT ![u][f] = s]
<1>1. m \in [Unit -> [Field -> Seq(AnyWord)]] /\ \A v \in Unit, g \in Field : Len(m[v][g]) = Len(Types(g))
  BY DEF IsObject
<1>2. \A v \in Unit, g \in Field : new[v][g] = IF v = u /\ g = f THEN s ELSE m[v][g]
  BY <1>1
<1>3. new \in [Unit -> [Field -> Seq(AnyWord)]]
  BY <1>1
<1> HIDE DEF new
<1>4. \A v \in Unit, g \in Field : Len(new[v][g]) = Len(Types(g))
  BY <1>1, <1>2
<1> QED BY <1>3, <1>4 DEF IsObject, new

\* The contents of a field.
LEMMA FieldWords ==
    ASSUME NEW m, IsObject(m), NEW u \in Unit, NEW f \in Field
    PROVE  /\ m[u][f] \in Seq(AnyWord)
           /\ Len(m[u][f]) = Len(Types(f))
           /\ DOMAIN m[u][f] = 1..Len(Types(f))
           /\ DOMAIN m[u][f] = DOMAIN Types(f)
           /\ Len(Types(f)) \in Nat
<1>1. m[u][f] \in Seq(AnyWord) /\ Len(m[u][f]) = Len(Types(f))
  BY DEF IsObject
<1>2. DOMAIN Types(f) = 1..Len(Types(f)) /\ Len(Types(f)) \in Nat
  BY TypesSeq
<1> QED BY <1>1, <1>2

LEMMA ContentsAnyWord == \A t : Contents(t) \subseteq AnyWord /\ 0 \in Contents(t)
BY NumberAssumption DEF Contents, AnyWord

LEMMA ObjectTyped == IsObject(Object) /\ \A u \in Unit, f \in Field : \A k \in DOMAIN Types(f) : Object[u][f][k] = 0
<1>1. ASSUME NEW f \in Field
      PROVE  /\ [k \in DOMAIN Types(f) |-> 0] \in Seq(AnyWord)
             /\ Len([k \in DOMAIN Types(f) |-> 0]) = Len(Types(f))
  <2>1. DOMAIN Types(f) = 1..Len(Types(f)) /\ Len(Types(f)) \in Nat
    BY TypesSeq
  <2>2. [k \in 1..Len(Types(f)) |-> 0] \in [1..Len(Types(f)) -> AnyWord]
    BY DEF AnyWord
  <2> QED BY <2>1, <2>2
<1> QED BY <1>1 DEF IsObject, Object

LEMMA NewBufferTyped == IsBuffer(NewBuffer) /\ Len(NewBuffer.w) = 0
BY SizesAssumption DEF IsBuffer, NewBuffer

LEMMA MadeBuffer ==
    ASSUME NEW words \in Seq(AnyWord), NEW n \in Nat \ {0}, Len(words) <= n
    PROVE  IsBuffer([w |-> words, size |-> n])
BY DEF IsBuffer

\* The two ways in which a buffer changes without growing.
LEMMA PatchTyped ==
    ASSUME NEW b, IsBuffer(b), NEW i \in Nat, NEW n \in Nat
    PROVE  /\ IsBuffer(Patch(b, i, n))
           /\ Len(Patch(b, i, n).w) = Len(b.w)
           /\ \A j \in 1..Len(b.w) : j # i => Patch(b, i, n).w[j] = b.w[j]
           /\ Fits(b) /\ i \in 1..Len(b.w) => Patch(b, i, n).w[i] = n
<1> DEFINE s == b.w
           r == [s EXCEPT ![i] = n]
<1>1. s \in Seq(AnyWord) /\ b.size \in Nat \ {0} /\ Len(s) <= b.size /\ n \in AnyWord
  BY DEF IsBuffer, AnyWord
<1>2. /\ r \in Seq(AnyWord) /\ Len(r) = Len(s)
      /\ \A j \in 1..Len(s) : r[j] = IF j = i THEN n ELSE s[j]
  <2>1. Len(s) \in Nat /\ s \in [1..Len(s) -> AnyWord]
    BY <1>1
  <2>2. r \in [1..Len(s) -> AnyWord]
    BY <1>1, <2>1
  <2> QED BY <2>1, <2>2
<1>3. CASE Fits(b)
  <2>1. Patch(b, i, n) = [b EXCEPT !.w = r]
    BY <1>3 DEF Patch
  <2>2. Patch(b, i, n) = [w |-> r, size |-> b.size]
    BY <2>1 DEF IsBuffer
  <2> HIDE DEF r
  <2> QED BY <1>1, <1>2, <2>2 DEF IsBuffer
<1>4. CASE ~Fits(b)
  BY <1>4 DEF Patch
<1> QED BY <1>3, <1>4

LEMMA CutTyped ==
    ASSUME NEW b, IsBuffer(b), NEW n \in Nat, n <= Len(b.w),
           NEW c, c = [b EXCEPT !.w = SubSeq(@, 1, n)]
    PROVE  /\ IsBuffer(c)
           /\ n = Len(b.w) => c = b
<1> DEFINE s == b.w
           r == SubSeq(s, 1, n)
<1>1. s \in Seq(AnyWord) /\ b.size \in Nat \ {0} /\ Len(s) <= b.size /\ Len(s) \in Nat /\ n <= Len(s)
  BY DEF IsBuffer
<1>2. c = [w |-> r, size |-> b.size]
  BY DEF IsBuffer
<1>3. r \in Seq(AnyWord) /\ Len(r) = n /\ \A i \in 1..n : r[i] = s[i]
  BY <1>1
<1>4. n = Len(s) => r = s
  BY <1>1, <1>3, SeqEqual
<1>5. b = [w |-> s, size |-> b.size]
  BY DEF IsBuffer
<1> HIDE DEF r, s
<1>6. IsBuffer(c)
  <2>1. r \in Seq(AnyWord) /\ b.size \in Nat \ {0}
    BY <1>1, <1>3
  <2>2. Len(r) <= b.size
    BY <1>1, <1>3
  <2> QED BY <1>2, <2>1, <2>2, MadeBuffer
<1>7. n = Len(s) => c = b
  BY <1>2, <1>4, <1>5
<1> QED BY <1>6, <1>7 DEF s

\* The parts of Typed.
Objects ==
    /\ IsObject(mem) /\ IsObject(hash) /\ IsObject(copy) /\ IsObject(want)
    /\ \A u \in Unit, f \in Field : \A k \in DOMAIN Types(f) : mem[u][f][k] \in Contents(Types(f)[k])
    /\ units \in 1..MaxUnits
Counters ==
    /\ pc \in {"app", "unit", "field", "read_unit", "read_field", "dead"}
    /\ pc \in {"field", "read_field"} => unit \in Unit
    /\ op \in {"UPDATE", "BULK"}
    /\ unit \in 1..(units + 1)
    /\ field \in 1..(NFields + 1)
    /\ nfields \in Nat /\ count \in Nat /\ next \in Nat
    /\ work \in 0..MaxWork
    /\ harm \subseteq {"junk", "count", "shift", "cut"}

LEMMA TypedParts == Typed <=> Objects /\ IsBuffer(buf) /\ Counters
BY Zenon DEF Typed, TypeOK, Objects, Counters, IsBuffer

LEMMA TypedPartsPrimed == Typed' <=> Objects' /\ IsBuffer(buf') /\ Counters'
BY Zenon DEF Typed, TypeOK, Objects, Counters, IsBuffer

LEMMA TypedNumbers ==
    ASSUME Typed
    PROVE  /\ units \in Nat \ {0} /\ unit \in 1..(units + 1)
           /\ field \in 1..(NFields + 1) /\ nfields \in Nat /\ count \in Nat /\ next \in Nat
           /\ Len(buf.w) \in Nat
<1>1. units \in 1..MaxUnits
  BY TypedParts DEF Objects
<1>2. Len(buf.w) \in Nat
  BY TypedParts DEF IsBuffer
<1>3. MaxUnits \in Nat
  BY SizesAssumption
<1>4. /\ unit \in 1..(units + 1)
      /\ field \in 1..(NFields + 1) /\ nfields \in Nat /\ count \in Nat /\ next \in Nat
  BY TypedParts DEF Counters
<1>5. units \in Nat \ {0}
  BY <1>1, <1>3
<1> QED BY <1>2, <1>4, <1>5

LEMMA NFieldsNat == NFields \in Nat \ {0} /\ Field = 1..NFields
BY FieldsAssumption, EmptySeq DEF NFields, Field

LEMMA TypedInit == Init => Typed
<1> SUFFICES ASSUME Init PROVE Typed
  OBVIOUS
<1>1. Objects
  <2>1. mem = Object /\ hash = Object /\ copy = Object /\ want = Object /\ units \in 1..MaxUnits
    BY DEF Init
  <2> QED BY <2>1, ObjectTyped, ContentsAnyWord DEF Objects
<1>2. IsBuffer(buf)
  BY NewBufferTyped DEF Init
<1>3. Counters
  BY NFieldsNat, SizesAssumption DEF Init, Counters
<1> QED BY <1>1, <1>2, <1>3, TypedParts

LEMMA ObjectsKept == Objects /\ UNCHANGED sides => Objects'
BY ZenonT(40) DEF Objects, IsObject, sides, Unit

\* What the operations of the buffer need of the words of a field.
LEMMA WordsTyped ==
    ASSUME Typed, InField, pc = "field"
    PROVE  /\ unit \in Unit /\ field \in Field
           /\ Words \in Seq(AnyWord) /\ Len(Words) = Len(Types(field)) /\ Len(Words) \in Nat \ {0}
           /\ DOMAIN Words = 1..Len(Words)
           /\ \A k \in 1..Len(Words) : Words[k] \in Contents(Types(field)[k])
<1>1. unit \in Unit /\ field \in Field
  BY NFieldsNat, TypedParts DEF Counters, InField
<1>2. IsObject(mem)
  BY TypedParts DEF Objects
<1>3. /\ Words \in Seq(AnyWord) /\ Len(Words) = Len(Types(field))
      /\ DOMAIN Words = 1..Len(Types(field))
  BY <1>1, <1>2, FieldWords DEF Words
<1>4. DOMAIN Types(field) = 1..Len(Types(field)) /\ Len(Types(field)) \in Nat \ {0}
  BY <1>1, TypesSeq
<1>5. \A k \in 1..Len(Words) : Words[k] \in Contents(Types(field)[k])
  BY <1>1, <1>3, <1>4, TypedParts DEF Objects, Words
<1> QED BY <1>1, <1>3, <1>4, <1>5

\* What should arrive of a field.
LEMMA ExpectedTyped ==
    ASSUME Typed, InField, pc = "field"
    PROVE  /\ Expected \in Seq(AnyWord) /\ Len(Expected) = Len(Types(field))
           /\ \A k \in 1..Len(Words) :
                 Expected[k] = IF Words[k] = Foreign THEN want[unit][field][k] ELSE Words[k]
<1>1. /\ unit \in Unit /\ field \in Field
      /\ Words \in Seq(AnyWord) /\ Len(Words) = Len(Types(field)) /\ Len(Words) \in Nat
      /\ DOMAIN Words = 1..Len(Words)
  BY WordsTyped
<1>2. want[unit][field] \in Seq(AnyWord) /\ Len(want[unit][field]) = Len(Words)
  BY <1>1, TypedParts, FieldWords DEF Objects
<1>3. \A k \in 1..Len(Words) : Words[k] \in AnyWord /\ want[unit][field][k] \in AnyWord
  BY <1>1, <1>2
<1>4. Expected \in [1..Len(Words) -> AnyWord]
  BY <1>1, <1>3 DEF Expected
<1>5. \A k \in 1..Len(Words) :
          Expected[k] = IF Words[k] = Foreign THEN want[unit][field][k] ELSE Words[k]
  BY <1>1 DEF Expected
<1> QED BY <1>1, <1>4, <1>5

LEMMA StoreTyped ==
    ASSUME Typed, NEW u \in Unit, NEW f \in Field, NEW k \in DOMAIN Types(f),
           NEW w \in Contents(Types(f)[k]), Store(u, f, k, w)
    PROVE  Typed'
<1> DEFINE s == [mem[u][f] EXCEPT ![k] = w]
<1>1. /\ mem[u][f] \in Seq(AnyWord) /\ Len(mem[u][f]) = Len(Types(f)) /\ Len(Types(f)) \in Nat
      /\ DOMAIN Types(f) = 1..Len(Types(f)) /\ IsObject(mem)
  BY TypedParts, FieldWords, TypesSeq DEF Objects
<1>2. s \in Seq(AnyWord) /\ Len(s) = Len(Types(f)) /\ \A j \in DOMAIN Types(f) : s[j] = IF j = k THEN w ELSE mem[u][f][j]
  <2>1. mem[u][f] \in [1..Len(Types(f)) -> AnyWord] /\ w \in AnyWord
    BY <1>1, ContentsAnyWord
  <2>2. s \in [1..Len(Types(f)) -> AnyWord]
    BY <2>1
  <2> QED BY <1>1, <2>1, <2>2
<1>3. mem' = [mem EXCEPT ![u][f] = s]
  BY DEF Store
<1> HIDE DEF s
<1>4. IsObject(mem')
  BY <1>1, <1>2, <1>3, StoredObject
<1>5. \A v \in Unit, g \in Field : mem'[v][g] = IF v = u /\ g = f THEN s ELSE mem[v][g]
  BY <1>1, <1>3 DEF IsObject
<1>6. \A v \in Unit, g \in Field : \A j \in DOMAIN Types(g) : mem'[v][g][j] \in Contents(Types(g)[j])
  <2>1. \A v \in Unit, g \in Field : \A j \in DOMAIN Types(g) : mem[v][g][j] \in Contents(Types(g)[j])
    BY TypedParts DEF Objects
  <2> QED BY <1>2, <1>5, <2>1
<1>7. Unit' = Unit /\ UNCHANGED <<units, hash, copy, want, buf, pc, op, unit, field, nfields, count, next, harm>> /\ work' = work + 1 /\ work < MaxWork
  BY DEF Store, Unit
<1>8. Objects'
  BY <1>4, <1>6, <1>7, TypedParts DEF Objects, IsObject
<1>9. Counters'
  <2>1. Counters
    BY TypedParts
  <2>2. work' \in 0..MaxWork
    <3>1. work \in 0..MaxWork /\ MaxWork \in Nat
      BY <2>1, SizesAssumption DEF Counters
    <3>2. work' = work + 1 /\ work < MaxWork
      BY <1>7
    <3> QED BY <3>1, <3>2
  <2> QED BY Zenon, <1>7, <2>1, <2>2 DEF Counters
<1> QED BY <1>7, <1>8, <1>9, TypedParts, TypedPartsPrimed

LEMMA StartTyped ==
    ASSUME Typed, NEW o \in {"UPDATE", "BULK"}, Start(o)
    PROVE  Typed' /\ Len(buf'.w) = 2 * NameWords
<1> DEFINE id == Put(NewBuffer, Name(Garbage))
<1>1. Garbage \in AnyWord /\ NameWords \in Nat
  BY SizesAssumption DEF AnyWord
<1>2. Name(Garbage) \in Seq(AnyWord) /\ Len(Name(Garbage)) = NameWords
  BY <1>1, NameSeq
<1>3. Extends(NewBuffer, id, NameWords)
  BY <1>2, NewBufferTyped, PutExtends
<1>4. Extends(id, Put(id, Name(Garbage)), NameWords)
  BY <1>2, <1>3, PutExtends DEF Extends
<1>5. buf' = Put(id, Name(Garbage))
  BY DEF Start
<1>6. IsBuffer(buf') /\ Len(buf'.w) = 2 * NameWords
  <2>1. IsBuffer(buf') /\ Len(buf'.w) = Len(id.w) + NameWords
    BY <1>4, <1>5 DEF Extends
  <2>2. Len(id.w) = 0 + NameWords
    BY <1>3, NewBufferTyped DEF Extends
  <2> QED BY <1>1, <2>1, <2>2
<1>7. Objects'
  BY TypedParts DEF Start, Objects, IsObject, Unit
<1>8. Counters'
  BY TypedParts, SizesAssumption DEF Start, Counters, Objects
<1> QED BY <1>6, <1>7, <1>8, TypedPartsPrimed

LEMMA UnitStartTyped ==
    ASSUME Typed, UnitStart
    PROVE  Typed'
<1> DEFINE n == IF op = "BULK" THEN NFields ELSE 0
<1>1. n \in AnyWord
  BY NFieldsNat DEF AnyWord
<1>2. IsBuffer(buf) /\ Objects /\ Counters
  BY TypedParts
<1>3. buf' = Put(buf, <<n>>)
  BY DEF UnitStart
<1> HIDE DEF n
<1>4. IsBuffer(buf')
  BY <1>1, <1>2, <1>3, PutOne DEF Extends
<1>5. Objects'
  BY <1>2, ObjectsKept DEF UnitStart
<1>6. Len(buf.w) + 1 \in Nat
  BY <1>2 DEF IsBuffer
<1>7. Counters'
  BY <1>2, <1>6, NFieldsNat DEF UnitStart, Counters, sides, Unit
<1> QED BY <1>4, <1>5, <1>7, TypedPartsPrimed

LEMMA FieldSkipTyped ==
    ASSUME Typed, FieldSkip
    PROVE  Typed'
<1>1. IsBuffer(buf) /\ Objects /\ Counters
  BY TypedParts
<1>2. IsBuffer(buf') /\ Objects'
  BY <1>1, ObjectsKept DEF FieldSkip
<1>3. Counters'
  BY <1>1, NFieldsNat DEF FieldSkip, InField, Counters, sides, Unit
<1> QED BY <1>2, <1>3, TypedPartsPrimed

LEMMA JunkAnyWord == Junk \subseteq AnyWord
BY DEF Junk, AnyWord

LEMMA FieldPutTyped ==
    ASSUME Typed, NEW fill \in Junk, FieldPut(fill)
    PROVE  Typed'
<1>1. IsBuffer(buf) /\ Objects /\ Counters /\ InField /\ pc = "field"
  BY TypedParts DEF FieldPut, InField
<1>2. /\ unit \in Unit /\ field \in Field
      /\ Words \in Seq(AnyWord) /\ Len(Words) = Len(Types(field))
      /\ Expected \in Seq(AnyWord) /\ Len(Expected) = Len(Types(field))
  BY <1>1, WordsTyped, ExpectedTyped
<1>3. IsBuffer(buf')
  <2>1. buf' = PutField(buf, field, Words, fill) /\ fill \in AnyWord
    BY JunkAnyWord DEF FieldPut
  <2> QED BY <1>1, <1>2, <2>1, PutFieldExtends DEF Extends
<1>4. Objects'
  <2>1. Unit' = Unit /\ units' = units /\ mem' = mem /\ copy' = copy
    BY DEF FieldPut, Unit
  <2>2. IsObject(hash')
    <3>1. hash' = [hash EXCEPT ![unit][field] = Words] \/ hash' = hash
      BY DEF FieldPut
    <3> QED BY <1>1, <1>2, <3>1, StoredObject DEF Objects
  <2>3. IsObject(want')
    <3>1. want' = [want EXCEPT ![unit][field] = Expected]
      BY DEF FieldPut
    <3> QED BY <1>1, <1>2, <3>1, StoredObject DEF Objects
  <2> QED BY <1>1, <2>1, <2>2, <2>3 DEF Objects, IsObject
<1>5. Counters'
  <2>1. /\ nfields' = nfields + 1 /\ field' = field + 1 /\ harm' = harm \cup FieldHarm(buf')
        /\ UNCHANGED <<units, pc, op, unit, count, next, work>> /\ Unit' = Unit
    BY DEF FieldPut, Unit
  <2>2. nfields' \in Nat /\ field' \in 1..(NFields + 1)
    BY <1>1, <1>2, <2>1, NFieldsNat DEF Counters
  <2>3. harm' \subseteq {"junk", "count", "shift", "cut"}
    BY <1>1, <2>1 DEF Counters, FieldHarm
  <2> QED BY <1>1, <2>1, <2>2, <2>3 DEF Counters
<1> QED BY <1>3, <1>4, <1>5, TypedPartsPrimed

LEMMA UnitEndTyped ==
    ASSUME Typed, UnitEnd
    PROVE  Typed'
<1>1. IsBuffer(buf) /\ Objects /\ Counters /\ pc = "field"
  BY TypedParts DEF UnitEnd
<1>2. IsBuffer(buf')
  <2>1. buf' = Patch(buf, count, nfields) \/ buf' = buf
    BY DEF UnitEnd
  <2>2. count \in Nat /\ nfields \in Nat
    BY <1>1 DEF Counters
  <2> QED BY <1>1, <2>1, <2>2, PatchTyped
<1>3. Objects'
  BY <1>1, ObjectsKept DEF UnitEnd
<1>4. Counters'
  <2>1. /\ UNCHANGED <<units, op, field, nfields, count, next, work>> /\ Unit' = Unit
        /\ pc' = "unit" /\ unit' = unit + 1 /\ harm' \in {harm, harm \cup {"count"}}
    BY DEF UnitEnd, sides, Unit
  <2>2. unit' \in 1..(units + 1)
    BY <1>1, <2>1, TypedNumbers DEF Counters, Unit
  <2> QED BY <1>1, <2>1, <2>2 DEF Counters
<1> QED BY <1>2, <1>3, <1>4, TypedPartsPrimed

LEMMA SendTyped ==
    ASSUME Typed, Send
    PROVE  Typed' /\ (Len(buf.w) <= RecvWords => buf' = buf)
<1>1. IsBuffer(buf) /\ Objects /\ Counters
  BY TypedParts
<1> DEFINE n == IF Len(buf.w) <= RecvWords THEN Len(buf.w) ELSE RecvWords
<1>2. buf' = [buf EXCEPT !.w = SubSeq(@, 1, n)]
  BY DEF Send
<1>3. n \in Nat /\ n <= Len(buf.w) /\ (Len(buf.w) <= RecvWords => n = Len(buf.w))
  BY <1>1, SizesAssumption DEF IsBuffer
<1> HIDE DEF n
<1>4. IsBuffer(buf') /\ (Len(buf.w) <= RecvWords => buf' = buf)
  BY <1>1, <1>2, <1>3, CutTyped
<1>5. Objects'
  BY <1>1, ObjectsKept DEF Send
<1>6. Counters'
  <2>1. /\ UNCHANGED <<units, op, field, nfields, count, work>> /\ Unit' = Unit
        /\ pc' = "read_unit" /\ unit' = 1 /\ next' = 2 * NameWords /\ harm' \in {harm, harm \cup {"cut"}}
    BY DEF Send, sides, Unit
  <2>2. unit' \in 1..(units + 1) /\ next' \in Nat
    <3>1. units' \in Nat /\ NameWords \in Nat
      BY <2>1, TypedNumbers, SizesAssumption
    <3>2. unit' = 1 /\ next' = 2 * NameWords /\ units' = units
      BY <2>1
    <3> QED BY <3>1, <3>2
  <2> QED BY <1>1, <2>1, <2>2 DEF Counters
<1> QED BY <1>4, <1>5, <1>6, TypedPartsPrimed

LEMMA ReadUnitTyped ==
    ASSUME Typed, ReadUnit
    PROVE  Typed'
<1>1. IsBuffer(buf) /\ Objects /\ Counters
  BY TypedParts
<1>2. IsBuffer(buf') /\ Objects'
  BY <1>1, ObjectsKept DEF ReadUnit
<1>3. Counters'
  <2>1. /\ UNCHANGED <<units, op, unit, field, count, harm, work>> /\ Unit' = Unit
        /\ pc' = "read_field" /\ next' = next + 1 /\ nfields' = Word /\ Word \in Nat /\ unit <= units
    BY DEF ReadUnit, sides, Unit
  <2>2. unit \in Unit /\ next' \in Nat
    <3>1. units \in Nat /\ unit \in 1..(units + 1) /\ next \in Nat
      BY TypedNumbers
    <3>2. unit <= units /\ next' = next + 1
      BY <2>1
    <3> QED BY <3>1, <3>2 DEF Unit
  <2> QED BY <1>1, <2>1, <2>2 DEF Counters
<1> QED BY <1>2, <1>3, TypedPartsPrimed

LEMMA ReadUnitEndTyped ==
    ASSUME Typed, ReadUnitEnd
    PROVE  Typed'
<1>1. IsBuffer(buf) /\ Objects /\ Counters
  BY TypedParts
<1>2. IsBuffer(buf') /\ Objects'
  BY <1>1, ObjectsKept DEF ReadUnitEnd
<1>3. Counters'
  <2>1. /\ UNCHANGED <<units, op, field, nfields, count, next, harm, work>> /\ Unit' = Unit
        /\ pc = "read_field" /\ pc' = "read_unit" /\ unit' = unit + 1
    BY DEF ReadUnitEnd, sides, Unit
  <2>2. unit' \in 1..(units + 1)
    <3>1. units \in Nat /\ unit \in Unit
      BY <1>1, <2>1, TypedNumbers DEF Counters
    <3>2. unit' = unit + 1
      BY <2>1
    <3> QED BY <3>1, <3>2 DEF Unit
  <2> QED BY <1>1, <2>1, <2>2 DEF Counters
<1> QED BY <1>2, <1>3, TypedPartsPrimed

\* A word that is read into a field.
LEMMA AppliedTyped ==
    ASSUME NEW t, NEW w \in AnyWord, NEW old \in AnyWord
    PROVE  Applied(t, w, old) \in AnyWord
BY DEF Applied, AnyWord

\* The words of a field that can be read are words of the message.
LEMMA ReadableWithin ==
    ASSUME Typed, Readable, NEW k \in 1..Len(Types(Index))
    PROVE  At(next + 1, Index, k) \in 1..Len(buf.w)
<1> DEFINE f == Index
<1>1. f \in Field /\ next + (1 + FieldSpan(f)) <= Len(buf.w)
  BY DEF Readable, Has
<1>2. next \in Nat /\ Len(buf.w) \in Nat
  BY TypedNumbers
<1> HIDE DEF f
<1>3. Len(Types(f)) \in Nat /\ k \in 1..Len(Types(f)) /\ k - 1 \in 0..Len(Types(f))
  BY <1>1, TypesSeq DEF f
<1>4. Offsets(f)[k] = Offsets(f)[k - 1] + Span(Types(f)[k]) /\ Offsets(f)[k - 1] \in Nat /\ Offsets(f)[k] \in Nat
  BY <1>1, <1>3, OffsetsAre
<1>5. Span(Types(f)[k]) \in Nat \ {0} /\ Offsets(f)[k] <= FieldSpan(f) /\ FieldSpan(f) \in Nat
  BY <1>1, <1>3, SpanNat, OffsetsWithin, FieldSpanNat
<1>6. next + 1 + Offsets(f)[k - 1] + 1 \in 1..Len(buf.w)
  BY SMTT(30), <1>1, <1>2, <1>4, <1>5
<1> QED BY <1>6 DEF At, f

\* What a field holds after it was read.
LEMMA ReadWords ==
    ASSUME Typed, Readable, unit \in Unit, ReadField
    PROVE  \E new : /\ new \in Seq(AnyWord) /\ Len(new) = Len(Types(Index))
                    /\ copy' = [copy EXCEPT ![unit][Index] = new]
                    /\ \A k \in 1..Len(Types(Index)) :
                          new[k] = Applied(Types(Index)[k], buf.w[At(next + 1, Index, k)], copy[unit][Index][k])
<1> DEFINE f == Index
           old == copy[unit][f]
           new == [k \in DOMAIN old |-> Applied(Types(f)[k], buf.w[At(next + 1, f, k)], old[k])]
<1>1. copy' = [copy EXCEPT ![unit][f] = new]
  BY DEF ReadField
<1>2. f \in Field
  BY DEF Readable
<1>3. \A k \in 1..Len(Types(f)) : buf.w[At(next + 1, f, k)] \in AnyWord
  <2>1. buf.w \in Seq(AnyWord)
    BY TypedParts DEF IsBuffer
  <2>2. \A k \in 1..Len(Types(f)) : At(next + 1, f, k) \in 1..Len(buf.w)
    BY ReadableWithin
  <2> HIDE DEF f
  <2> QED BY <2>1, <2>2
<1> HIDE DEF f
<1>4. old \in Seq(AnyWord) /\ DOMAIN old = 1..Len(Types(f)) /\ Len(old) = Len(Types(f)) /\ Len(Types(f)) \in Nat
  BY <1>2, TypedParts, FieldWords DEF Objects
<1> HIDE DEF old
<1>5. \A k \in 1..Len(Types(f)) : old[k] \in AnyWord
  BY <1>4
<1>6. new \in [1..Len(Types(f)) -> AnyWord]
  BY <1>3, <1>4, <1>5, AppliedTyped
<1>7. new \in Seq(AnyWord) /\ Len(new) = Len(Types(f))
  BY <1>4, <1>6
<1>8. \A k \in 1..Len(Types(f)) : new[k] = Applied(Types(f)[k], buf.w[At(next + 1, f, k)], old[k])
  BY <1>4
<1> QED BY <1>1, <1>7, <1>8 DEF f, old

LEMMA ReadFieldTyped ==
    ASSUME Typed, ReadField
    PROVE  Typed'
<1>1. IsBuffer(buf) /\ Objects /\ Counters /\ Readable /\ Index \in Field /\ unit \in Unit
  BY TypedParts DEF ReadField, Readable, Counters
<1>2. PICK new : new \in Seq(AnyWord) /\ Len(new) = Len(Types(Index)) /\ copy' = [copy EXCEPT ![unit][Index] = new]
  BY <1>1, ReadWords
<1>3. IsBuffer(buf')
  BY <1>1 DEF ReadField
<1>4. Objects'
  <2>1. IsObject(copy')
    BY <1>1, <1>2, StoredObject DEF Objects
  <2>2. Unit' = Unit /\ UNCHANGED <<units, mem, hash, want>>
    BY DEF ReadField, Unit
  <2> QED BY <1>1, <2>1, <2>2 DEF Objects, IsObject
<1>5. Counters'
  <2>1. /\ UNCHANGED <<units, pc, op, unit, field, count, harm, work>> /\ Unit' = Unit
        /\ nfields > 0 /\ nfields' = nfields - 1 /\ next' = next + 1 + FieldSpan(Index)
    BY DEF ReadField, Unit
  <2>2. nfields' \in Nat /\ next' \in Nat
    BY <1>1, <2>1, TypedNumbers, FieldSpanNat
  <2> QED BY <1>1, <2>1, <2>2 DEF Counters
<1> QED BY <1>3, <1>4, <1>5, TypedPartsPrimed

LEMMA DieTyped ==
    ASSUME Typed, Die
    PROVE  Typed'
<1>1. IsBuffer(buf) /\ Objects /\ Counters
  BY TypedParts
<1>2. IsBuffer(buf') /\ Objects'
  BY <1>1, ObjectsKept DEF Die
<1>3. Counters'
  BY <1>1 DEF Die, counters, Counters, sides, Unit
<1> QED BY <1>2, <1>3, TypedPartsPrimed

LEMMA DoneTyped ==
    ASSUME Typed, Done
    PROVE  Typed'
<1>1. IsBuffer(buf) /\ Objects /\ Counters
  BY TypedParts
<1>2. IsBuffer(buf') /\ Objects'
  BY <1>1, ObjectsKept, NewBufferTyped DEF Done
<1>3. Counters'
  <2>1. units' = units /\ 1 \in 1..(units + 1) /\ 1 \in 1..(NFields + 1)
    <3>1. units' = units /\ units \in Nat
      BY TypedNumbers DEF Done, sides
    <3> QED BY <3>1, NFieldsNat
  <2> QED BY <1>1, <2>1 DEF Done, Counters
<1> QED BY <1>2, <1>3, TypedPartsPrimed

LEMMA StutterTyped ==
    ASSUME Typed, UNCHANGED vars
    PROVE  Typed'
<1>1. IsBuffer(buf) /\ Objects /\ Counters
  BY TypedParts
<1>2. IsBuffer(buf') /\ Objects'
  BY <1>1, ObjectsKept DEF vars
<1>3. Counters'
  BY <1>1 DEF vars, counters, Counters, sides, Unit
<1> QED BY <1>2, <1>3, TypedPartsPrimed

LEMMA TypedStep == Typed /\ [Next]_vars => Typed'
<1> SUFFICES ASSUME Typed, [Next]_vars PROVE Typed'
  OBVIOUS
<1>1. ASSUME NEW u \in Unit, NEW f \in Field, NEW k \in DOMAIN Types(f),
             NEW w \in Contents(Types(f)[k]), Store(u, f, k, w)
      PROVE  Typed'
  BY <1>1, StoreTyped
<1>2. ASSUME NEW o \in {"UPDATE", "BULK"}, Start(o) PROVE Typed'
  BY <1>2, StartTyped
<1>3. ASSUME NEW fill \in Junk, FieldPut(fill) PROVE Typed'
  BY <1>3, FieldPutTyped
<1>4. CASE UnitStart
  BY <1>4, UnitStartTyped
<1>5. CASE FieldSkip
  BY <1>5, FieldSkipTyped
<1>6. CASE UnitEnd
  BY <1>6, UnitEndTyped
<1>7. CASE Send
  BY <1>7, SendTyped
<1>8. CASE ReadUnit
  BY <1>8, ReadUnitTyped
<1>9. CASE ReadUnitFails \/ ReadFieldFails
  BY <1>9, DieTyped DEF ReadUnitFails, ReadFieldFails
<1>10. CASE ReadUnitEnd
  BY <1>10, ReadUnitEndTyped
<1>11. CASE ReadField
  BY <1>11, ReadFieldTyped
<1>12. CASE Done
  BY <1>12, DoneTyped
<1>13. CASE UNCHANGED vars
  BY <1>13, StutterTyped
<1> QED BY <1>1, <1>2, <1>3, <1>4, <1>5, <1>6, <1>7, <1>8, <1>9, <1>10, <1>11, <1>12, <1>13 DEF Next

LEMMA TypedAlways == Spec => []Typed
BY TypedInit, TypedStep, PTL DEF Spec

\* Every variable of the two ends stays in its set, and what is written always
\* fits into the buffer, for any structure and any sizes.
THEOREM TypeCorrect == Spec => []TypeOK
BY TypedAlways, PTL DEF Typed

(***************************************************************************)
(* The message.                                                            *)
(*                                                                         *)
(* While a message is written and read, a set E of entries describes what  *)
(* is in the buffer: for every unit one entry with f = 0, the number of    *)
(* its fields, and one for each field f that was put.  An entry begins     *)
(* behind position at and is the n-th field of unit u; total[u] is the     *)
(* number of fields of unit u.                                             *)
(***************************************************************************)

Entry == [u : Nat, f : Nat, at : Nat, n : Nat]
EntrySpan(f) == IF f = 0 THEN 1 ELSE 1 + FieldSpan(f)
End(e) == e.at + EntrySpan(e.f)
HasEntry(E, u, f) == \E e \in E : e.u = u /\ e.f = f

\* The entries lie in the message, and apart from each other.
Laid(E, len) ==
    /\ E \subseteq Entry
    /\ 2 * NameWords <= len
    /\ \A e \in E : /\ e.u \in Unit /\ e.f \in Field \cup {0}
                    /\ e.f = 0 <=> e.n = 0
                    /\ 2 * NameWords <= e.at /\ End(e) <= len
    /\ \A d, e \in E : d = e \/ End(d) <= e.at \/ End(e) <= d.at

\* Each entry is followed by the next one, up to the end of unit last.
Chained(E, total, last, len) ==
    /\ total \in [Unit -> Nat]
    /\ last = 0 => E = {} /\ len = 2 * NameWords
    /\ last # 0 => \E e \in E : e.at = 2 * NameWords /\ e.u = 1 /\ e.n = 0
    /\ \A e \in E :
          /\ e.u <= last /\ e.n <= total[e.u]
          /\ e.n < total[e.u] => \E d \in E : d.at = End(e) /\ d.u = e.u /\ d.n = e.n + 1
          /\ e.n = total[e.u] /\ e.u = last => End(e) = len
          /\ e.n = total[e.u] /\ e.u # last => \E d \in E : d.at = End(e) /\ d.u = e.u + 1 /\ d.n = 0

\* Each entry begins with the number that it should, but for the number of
\* fields of unit open, which is at i and has yet to be filled in.
Indexed(E, total, open, i, w) ==
    \A e \in E :
        /\ e.f # 0 => w[e.at + 1] = e.f - 1
        /\ e.f = 0 /\ e.u # open => w[e.at + 1] = total[e.u]
        /\ e.f = 0 /\ e.u = open => e.at + 1 = i

\* Applying an entry to the object old of the standby gives new.
Carries(E, w, old, new) ==
    \A e \in E : e.f # 0 =>
        \A k \in 1..Len(Types(e.f)) :
            Applied(Types(e.f)[k], w[At(e.at + 1, e.f, k)], old[e.u][e.f][k]) = new[e.u][e.f][k]

\* The fields without an entry are not to change, those with one are to be as
\* in the memory of the active.
Kept(E, old, new) == \A u \in Unit, f \in Field : HasEntry(E, u, f) \/ new[u][f] = old[u][f]
Meant(E, new, m) ==
    \A e \in E : e.f # 0 =>
        \A k \in 1..Len(Types(e.f)) : m[e.u][e.f][k] \in {Foreign, new[e.u][e.f][k]}

\* While a unit is written its number of fields is open.
Last == IF pc = "field" THEN unit ELSE unit - 1
Open == IF pc = "field" THEN unit ELSE 0
Past(u, f) == u < unit \/ (pc = "field" /\ u = unit /\ f < field)
CountOpen(E, total) ==
    pc = "field" => /\ total[unit] = nfields
                    /\ HasEntry(E, unit, 0)
                    /\ buf.w[count] = IF op = "BULK" THEN NFields ELSE 0
                    /\ op = "BULK" => nfields = field - 1
AllPut(E) == op = "BULK" => \A u \in Unit, f \in Field : Past(u, f) => HasEntry(E, u, f)

Writing(E, total) ==
    /\ Laid(E, Len(buf.w))
    /\ Chained(E, total, Last, Len(buf.w))
    /\ Indexed(E, total, Open, count, buf.w)
    /\ Carries(E, buf.w, copy, want)
    /\ Kept(E, copy, want)
    /\ Meant(E, want, mem)
    /\ \A e \in E : Past(e.u, e.f)
    /\ AllPut(E)
    /\ CountOpen(E, total)

\* The standby is about to read unit u, or at the end.
AtUnit(E, u) ==
    /\ u <= units => \E e \in E : e.at = next /\ e.u = u /\ e.n = 0
    /\ u > units => next = Len(buf.w)

Reading(E, total) ==
    /\ Laid(E, Len(buf.w))
    /\ Chained(E, total, units, Len(buf.w))
    /\ Indexed(E, total, 0, 0, buf.w)
    /\ Carries(E, buf.w, copy, want)
    /\ Kept(E, copy, want)
    /\ Meant(E, want, mem)
    /\ op = "BULK" => \A u \in Unit, f \in Field : HasEntry(E, u, f)
    /\ \A e \in E : e.f # 0 /\ e.at < next => copy[e.u][e.f] = want[e.u][e.f]
    /\ pc = "read_unit" => AtUnit(E, unit)
    /\ pc = "read_field" /\ nfields = 0 => AtUnit(E, unit + 1)
    /\ pc = "read_field" /\ nfields # 0 =>
          /\ nfields <= total[unit]
          /\ \E e \in E : e.at = next /\ e.u = unit /\ e.n = total[unit] - nfields + 1

\* What holds of every message that is not damaged.
Sound ==
    harm = {} =>
        /\ pc # "dead"
        /\ pc = "app" => copy = want
        /\ pc \in {"unit", "field"} => \E E, total : Writing(E, total)
        /\ pc \in {"read_unit", "read_field"} => \E E, total : Reading(E, total)

(***************************************************************************)
(* Lemmas about entries.                                                   *)
(***************************************************************************)

LEMMA EntrySpanNat == \A f \in Field \cup {0} : EntrySpan(f) \in Nat \ {0}
BY FieldSpanNat DEF EntrySpan

\* The words of an entry.
LEMMA WordWithin ==
    ASSUME NEW e \in Entry, e.f \in Field, NEW k \in 1..Len(Types(e.f))
    PROVE  e.at + 1 < At(e.at + 1, e.f, k) /\ At(e.at + 1, e.f, k) <= End(e) /\ At(e.at + 1, e.f, k) \in Nat
<1> DEFINE f == e.f
<1>1. f \in Field /\ e.at \in Nat /\ f # 0
  BY NFieldsNat DEF Entry
<1> HIDE DEF f
<1>2. Len(Types(f)) \in Nat /\ k \in 1..Len(Types(f)) /\ k - 1 \in 0..Len(Types(f)) /\ k \in 0..Len(Types(f))
  BY <1>1, TypesSeq DEF f
<1>3. Offsets(f)[k] = Offsets(f)[k - 1] + Span(Types(f)[k]) /\ Offsets(f)[k - 1] \in Nat /\ Offsets(f)[k] \in Nat
  BY <1>1, <1>2, OffsetsAre
<1>4. Span(Types(f)[k]) \in Nat \ {0} /\ Offsets(f)[k] <= FieldSpan(f) /\ FieldSpan(f) \in Nat
  BY <1>1, <1>2, SpanNat, OffsetsWithin, FieldSpanNat
<1>5. End(e) = e.at + (1 + FieldSpan(f))
  BY <1>1 DEF End, EntrySpan, f
<1>6. At(e.at + 1, f, k) = e.at + 1 + Offsets(f)[k - 1] + 1
  BY DEF At
<1>7. e.at + 1 < At(e.at + 1, f, k) /\ At(e.at + 1, f, k) <= End(e) /\ At(e.at + 1, f, k) \in Nat
  BY SMTT(30), <1>1, <1>3, <1>4, <1>5, <1>6
<1> QED BY <1>7 DEF f

\* Applying a word again changes nothing.
LEMMA AppliedAgain ==
    ASSUME NEW t, NEW w, NEW old, NEW new, Applied(t, w, old) = new
    PROVE  Applied(t, w, new) = new
BY DEF Applied

\* What the standby makes of what was written for a word.
LEMMA AppliedCarried ==
    ASSUME NEW t \in {"DATA", "PTR"}, NEW w \in Contents(t), NEW old
    PROVE  Applied(t, Carried(t, w), old) = IF w = Foreign THEN old ELSE w
<1>1. CASE t = "DATA"
  BY <1>1, NumberAssumption, WordsAssumption DEF Applied, Carried, Contents
<1>2. CASE t = "PTR"
  <2>1. w = 0 \/ w = Foreign \/ w \in Id
    BY <1>2 DEF Contents
  <2>2. 0 \notin Id /\ Foreign # 0 /\ Foreign \notin Id /\ Mark # 0 /\ Mark \notin Id
    BY WordsAssumption
  <2> QED BY <1>2, <2>1, <2>2 DEF Applied, Carried
<1> QED BY <1>1, <1>2

\* An entry at the end of the message.
LEMMA LaidAdd ==
    ASSUME NEW E, NEW len \in Nat, Laid(E, len), NEW e \in Entry, e.u \in Unit,
           e.f \in Field \cup {0}, e.f = 0 <=> e.n = 0, e.at = len
    PROVE  Laid(E \cup {e}, End(e)) /\ End(e) \in Nat /\ len < End(e)
<1> DEFINE F == E \cup {e}
<1>1. End(e) \in Nat /\ len < End(e)
  BY EntrySpanNat DEF End
<1>2. \A d \in E : End(d) \in Nat
  BY EntrySpanNat DEF End, Laid, Entry
<1>3. \A d \in E : End(d) <= End(e)
  BY <1>1, <1>2 DEF Laid
<1>4. 2 * NameWords <= len /\ 2 * NameWords <= End(e) /\ E \subseteq Entry
  BY <1>1, SizesAssumption DEF Laid
<1>5. \A d \in E : /\ d.u \in Unit /\ d.f \in Field \cup {0} /\ (d.f = 0 <=> d.n = 0)
                   /\ 2 * NameWords <= d.at /\ End(d) <= e.at
  BY DEF Laid
<1>6. \A c, d \in E : c = d \/ End(c) <= d.at \/ End(d) <= c.at
  BY DEF Laid
<1>7. \A d \in F : d \in E \/ d = e
  OBVIOUS
<1>8. F \subseteq Entry
  BY <1>4
<1> HIDE DEF F
<1>9. Laid(F, End(e))
  <2>1. \A d \in F : /\ d.u \in Unit /\ d.f \in Field \cup {0} /\ (d.f = 0 <=> d.n = 0)
                     /\ 2 * NameWords <= d.at /\ End(d) <= End(e)
    BY <1>1, <1>3, <1>4, <1>5, <1>7
  <2>2. \A c, d \in F : c = d \/ End(c) <= d.at \/ End(d) <= c.at
    BY <1>5, <1>6, <1>7
  <2> QED BY <1>4, <1>8, <2>1, <2>2 DEF Laid
<1> QED BY <1>1, <1>9 DEF F

LEMMA ChainedAddUnit ==
    ASSUME NEW E, NEW total, NEW last \in Nat, NEW len \in Nat, Laid(E, len),
           Chained(E, total, last, len), last + 1 \in Unit,
           NEW e \in Entry, e.at = len, e.u = last + 1, e.n = 0
    PROVE  Chained(E \cup {e}, [total EXCEPT ![last + 1] = 0], last + 1, End(e))
<1> DEFINE new == [total EXCEPT ![last + 1] = 0]
           F == E \cup {e}
<1>1. new \in [Unit -> Nat] /\ new[last + 1] = 0 /\ \A u \in Unit : u # last + 1 => new[u] = total[u]
  BY DEF Chained
<1>2. \A d \in E : d.u \in Unit /\ d.u <= last /\ d.u \in Nat /\ d.n \in Nat
  BY DEF Laid, Chained, Entry
<1>3. \A d \in E : new[d.u] = total[d.u]
  BY <1>1, <1>2
<1> HIDE DEF new
<1>4. last + 1 # 0
  OBVIOUS
<1>5. \E d \in F : d.at = 2 * NameWords /\ d.u = 1 /\ d.n = 0
  BY DEF Chained
<1>6. ASSUME NEW d \in E
      PROVE  /\ d.u <= last + 1 /\ d.n <= new[d.u]
             /\ d.n < new[d.u] => \E c \in F : c.at = End(d) /\ c.u = d.u /\ c.n = d.n + 1
             /\ d.n = new[d.u] => \E c \in F : c.at = End(d) /\ c.u = d.u + 1 /\ c.n = 0
             /\ d.u # last + 1
  <2>1. d.u <= last + 1 /\ d.u # last + 1 /\ d.n <= new[d.u]
    BY <1>2, <1>3 DEF Chained
  <2>2. d.n < new[d.u] => \E c \in F : c.at = End(d) /\ c.u = d.u /\ c.n = d.n + 1
    BY <1>3 DEF Chained
  <2>3. CASE d.u = last /\ d.n = new[d.u]
    <3>1. End(d) = len
      BY <1>3, <2>3 DEF Chained
    <3> QED BY <2>1, <2>2, <2>3, <3>1
  <2>4. CASE ~(d.u = last /\ d.n = new[d.u])
    BY <1>3, <2>1, <2>2, <2>4 DEF Chained
  <2> QED BY <2>3, <2>4
<1> HIDE DEF F
<1>7. \A d \in F : d \in E \/ d = e
  BY DEF F
<1>8. e.u <= last + 1 /\ e.n <= new[e.u] /\ ~(e.n < new[e.u]) /\ e.u = last + 1
  BY <1>1
<1>9. Chained(F, new, last + 1, End(e))
  BY <1>1, <1>4, <1>5, <1>6, <1>7, <1>8 DEF Chained
<1> QED BY <1>9 DEF F, new

LEMMA ChainedAddField ==
    ASSUME NEW E, NEW total, NEW last \in Unit, NEW len \in Nat, Laid(E, len),
           Chained(E, total, last, len),
           NEW e \in Entry, e.at = len, e.u = last, e.n = total[last] + 1
    PROVE  Chained(E \cup {e}, [total EXCEPT ![last] = total[last] + 1], last, End(e))
<1> DEFINE new == [total EXCEPT ![last] = total[last] + 1]
           F == E \cup {e}
<1>0. last \in Nat /\ last # 0 /\ total[last] \in Nat
  BY DEF Unit, Chained
<1>1. new \in [Unit -> Nat] /\ new[last] = total[last] + 1 /\ \A u \in Unit : u # last => new[u] = total[u]
  BY DEF Chained
<1>2. \A d \in E : d.u \in Unit /\ d.u <= last /\ d.u \in Nat /\ d.n \in Nat
  BY DEF Laid, Chained, Entry
<1> HIDE DEF new
<1>5. \E d \in F : d.at = 2 * NameWords /\ d.u = 1 /\ d.n = 0
  BY <1>0 DEF Chained
<1>6. ASSUME NEW d \in E
      PROVE  /\ d.u <= last /\ d.n <= new[d.u]
             /\ d.n < new[d.u] => \E c \in F : c.at = End(d) /\ c.u = d.u /\ c.n = d.n + 1
             /\ d.n = new[d.u] => d.u # last /\ \E c \in F : c.at = End(d) /\ c.u = d.u + 1 /\ c.n = 0
  <2>1. CASE d.u # last
    <3>1. new[d.u] = total[d.u]
      BY <1>1, <1>2, <2>1
    <3> QED BY <2>1, <3>1 DEF Chained
  <2>2. CASE d.u = last /\ d.n < total[last]
    BY <1>0, <1>1, <1>2, <2>2 DEF Chained
  <2>3. CASE d.u = last /\ d.n = total[last]
    <3>1. End(d) = len
      BY <2>3 DEF Chained
    <3> QED BY <1>0, <1>1, <2>3, <3>1
  <2>4. d.n <= total[d.u]
    BY DEF Chained
  <2> QED BY <1>0, <1>2, <2>1, <2>2, <2>3, <2>4
<1> HIDE DEF F
<1>7. \A d \in F : d \in E \/ d = e
  BY DEF F
<1>8. e.u <= last /\ e.n <= new[e.u] /\ ~(e.n < new[e.u]) /\ e.u = last
  BY <1>0, <1>1
<1>9. Chained(F, new, last, End(e))
  BY <1>0, <1>1, <1>5, <1>6, <1>7, <1>8 DEF Chained
<1> QED BY <1>9 DEF F, new

\* What a longer buffer says of the entries that were there.
LEMMA LongerBuffer ==
    ASSUME NEW E, NEW b, NEW c, NEW n \in Nat, IsBuffer(b), Extends(b, c, n), Laid(E, Len(b.w)),
           NEW total, NEW open, NEW i, Indexed(E, total, open, i, b.w),
           NEW old, NEW new, Carries(E, b.w, old, new)
    PROVE  Indexed(E, total, open, i, c.w) /\ Carries(E, c.w, old, new)
<1>1. Len(b.w) \in Nat /\ \A j \in 1..Len(b.w) : c.w[j] = b.w[j]
  BY DEF Extends, IsBuffer
<1>2. ASSUME NEW e \in E PROVE e.at + 1 \in 1..Len(b.w)
  <2>1. e.at \in Nat /\ e.f \in Field \cup {0} /\ End(e) <= Len(b.w)
    BY DEF Laid, Entry
  <2>2. EntrySpan(e.f) \in Nat \ {0}
    BY <2>1, EntrySpanNat
  <2> QED BY <1>1, <2>1, <2>2 DEF End
<1>3. ASSUME NEW e \in E, e.f # 0, NEW k \in 1..Len(Types(e.f))
      PROVE  At(e.at + 1, e.f, k) \in 1..Len(b.w)
  <2>1. e \in Entry /\ e.f \in Field /\ e.at \in Nat /\ End(e) <= Len(b.w)
    BY <1>3 DEF Laid, Entry
  <2>2. EntrySpan(e.f) \in Nat
    BY <2>1, EntrySpanNat
  <2>3. e.at + 1 < At(e.at + 1, e.f, k) /\ At(e.at + 1, e.f, k) <= End(e) /\ At(e.at + 1, e.f, k) \in Nat
    BY <1>3, <2>1, WordWithin
  <2>4. End(e) \in Nat
    BY <2>1, <2>2 DEF End
  <2> QED BY <1>1, <2>1, <2>3, <2>4
<1>4. Indexed(E, total, open, i, c.w)
  <2>1. \A e \in E : c.w[e.at + 1] = b.w[e.at + 1]
    BY <1>1, <1>2
  <2> QED BY Zenon, <2>1 DEF Indexed
<1>5. Carries(E, c.w, old, new)
  <2>1. \A e \in E : e.f # 0 => \A k \in 1..Len(Types(e.f)) :
            c.w[At(e.at + 1, e.f, k)] = b.w[At(e.at + 1, e.f, k)]
    BY <1>1, <1>3
  <2> QED BY Zenon, <2>1 DEF Carries
<1> QED BY <1>4, <1>5

\* The parts of Writing after a step.
LEMMA WritingPrimed ==
    ASSUME units' = units, NEW E, NEW total,
           Laid(E, Len(buf'.w)), Chained(E, total, Last', Len(buf'.w)),
           Indexed(E, total, Open', count', buf'.w), Carries(E, buf'.w, copy', want'),
           Kept(E, copy', want'), Meant(E, want', mem'),
           \A e \in E : Past(e.u, e.f)', AllPut(E)', CountOpen(E, total)'
    PROVE  Writing(E, total)'
<1>1. Unit' = Unit
  BY DEF Unit
<1>2. Laid(E, Len(buf.w))'
  BY <1>1 DEF Laid
<1>3. Chained(E, total, Last, Len(buf.w))'
  BY Zenon, <1>1 DEF Chained
<1>4. Indexed(E, total, Open, count, buf.w)' /\ Carries(E, buf.w, copy, want)' /\ Meant(E, want, mem)'
  BY Zenon DEF Indexed, Carries, Meant
<1>5. Kept(E, copy, want)'
  BY Zenon, <1>1 DEF Kept
<1> QED BY Zenon, <1>2, <1>3, <1>4, <1>5 DEF Writing

LEMMA ReadingPrimed ==
    ASSUME units' = units, NEW E, NEW total,
           Laid(E, Len(buf'.w)), Chained(E, total, units, Len(buf'.w)),
           Indexed(E, total, 0, 0, buf'.w), Carries(E, buf'.w, copy', want'),
           Kept(E, copy', want'), Meant(E, want', mem'),
           op' = "BULK" => \A u \in Unit, f \in Field : HasEntry(E, u, f),
           \A e \in E : e.f # 0 /\ e.at < next' => copy'[e.u][e.f] = want'[e.u][e.f],
           pc' = "read_unit" => AtUnit(E, unit)',
           pc' = "read_field" /\ nfields' = 0 => AtUnit(E, unit + 1)',
           pc' = "read_field" /\ nfields' # 0 =>
              /\ nfields' <= total[unit']
              /\ \E e \in E : e.at = next' /\ e.u = unit' /\ e.n = total[unit'] - nfields' + 1
    PROVE  Reading(E, total)'
<1>1. Unit' = Unit
  BY DEF Unit
<1>2. Laid(E, Len(buf.w))'
  BY <1>1 DEF Laid
<1>3. Chained(E, total, units, Len(buf.w))'
  BY Zenon, <1>1 DEF Chained
<1>4. Indexed(E, total, 0, 0, buf.w)' /\ Carries(E, buf.w, copy, want)' /\ Meant(E, want, mem)'
  BY Zenon DEF Indexed, Carries, Meant
<1>5. Kept(E, copy, want)'
  BY Zenon, <1>1 DEF Kept
<1>6. (op = "BULK" => \A u \in Unit, f \in Field : HasEntry(E, u, f))'
  BY <1>1
<1> QED BY Zenon, <1>2, <1>3, <1>4, <1>5, <1>6 DEF Reading

(***************************************************************************)
(* The active: every step keeps the message sound.                         *)
(***************************************************************************)

\* The standby's object before the first entry is what it should become.
LEMMA StartSound ==
    ASSUME Typed, NEW o \in {"UPDATE", "BULK"}, Start(o)
    PROVE  Sound'
<1>1. /\ pc' = "unit" /\ unit' = 1 /\ want' = copy /\ copy' = copy /\ units' = units
      /\ Len(buf'.w) = 2 * NameWords
  BY StartTyped DEF Start
<1>2. PICK none, total : none = {} /\ total = [u \in Unit |-> 0]
  OBVIOUS
<1>3. Laid(none, Len(buf'.w))
  BY <1>1, <1>2, SizesAssumption DEF Laid
<1>4. Chained(none, total, 0, Len(buf'.w))
  BY <1>1, <1>2 DEF Chained
<1>5. Last' = 0
  BY <1>1 DEF Last
<1>6. Indexed(none, total, Open', count', buf'.w) /\ Carries(none, buf'.w, copy', want') /\ Meant(none, want', mem')
  BY <1>2 DEF Indexed, Carries, Meant
<1>7. Kept(none, copy', want')
  BY <1>1 DEF Kept
<1>8. (\A e \in none : Past(e.u, e.f)') /\ CountOpen(none, total)'
  BY <1>1, <1>2 DEF CountOpen
<1>9. AllPut(none)'
  <2>1. \A u \in Unit' : ~(u < 1)
    BY <1>1, TypedNumbers DEF Unit
  <2> QED BY <1>1, <2>1 DEF AllPut, Past
<1>10. Chained(none, total, Last', Len(buf'.w))
  BY <1>4, <1>5
<1>11. Writing(none, total)'
  BY Zenon, <1>1, <1>3, <1>10, <1>6, <1>7, <1>8, <1>9, WritingPrimed
<1> QED BY Zenon, <1>1, <1>11 DEF Sound

\* What a new entry adds.
LEMMA EntryAdded ==
    ASSUME NEW E, NEW e, NEW F, F = E \cup {e}
    PROVE  /\ \A d \in F : d \in E \/ d = e
           /\ \A u, f : HasEntry(F, u, f) <=> HasEntry(E, u, f) \/ (u = e.u /\ f = e.f)
           /\ \A w, old, new : Carries(E, w, old, new) /\ e.f = 0 => Carries(F, w, old, new)
           /\ \A new, m : Meant(E, new, m) /\ e.f = 0 => Meant(F, new, m)
<1>1. \A d : d \in F <=> d \in E \/ d = e
  OBVIOUS
<1>2. \A u, f : HasEntry(F, u, f) <=> HasEntry(E, u, f) \/ (u = e.u /\ f = e.f)
  BY Zenon, <1>1 DEF HasEntry
<1>3. \A w, old, new : Carries(E, w, old, new) /\ e.f = 0 => Carries(F, w, old, new)
  BY Zenon, <1>1 DEF Carries
<1>4. \A new, m : Meant(E, new, m) /\ e.f = 0 => Meant(F, new, m)
  BY Zenon, <1>1 DEF Meant
<1> QED BY Zenon, <1>1, <1>2, <1>3, <1>4

\* A unit begins with the entry that counts its fields.
LEMMA UnitStartSound ==
    ASSUME Typed, Sound, UnitStart
    PROVE  Sound'
<1> SUFFICES ASSUME harm' = {} PROVE Sound'
  BY Zenon DEF Sound
<1> DEFINE n == IF op = "BULK" THEN NFields ELSE 0
<1>1. /\ pc = "unit" /\ unit <= units /\ buf' = Put(buf, <<n>>) /\ count' = Len(buf.w) + 1
      /\ pc' = "field" /\ field' = 1 /\ nfields' = 0 /\ op' = op /\ unit' = unit /\ harm' = harm
      /\ units' = units /\ mem' = mem /\ copy' = copy /\ want' = want
  BY DEF UnitStart, sides
<1>2. PICK E, total : Writing(E, total)
  BY Zenon, <1>1 DEF Sound
<1>3. units \in Nat /\ unit \in Nat \ {0} /\ unit \in Unit /\ Len(buf.w) \in Nat /\ unit - 1 \in Nat /\ (unit - 1) + 1 = unit
  BY <1>1, TypedNumbers DEF Unit
<1>4. IsBuffer(buf) /\ n \in AnyWord
  BY TypedParts, NFieldsNat DEF AnyWord
<1> HIDE DEF n
<1>5. Extends(buf, buf', 1) /\ buf'.w[count'] = n /\ Len(buf'.w) = Len(buf.w) + 1
  BY <1>1, <1>4, PutOne DEF Extends
<1>6. PICK e, F, new : /\ e = [u |-> unit, f |-> 0, at |-> Len(buf.w), n |-> 0]
                       /\ F = E \cup {e} /\ new = [total EXCEPT ![unit] = 0]
  OBVIOUS
<1>. F = E \cup {e}
  BY <1>6
<1>7. e \in Entry /\ e.u = unit /\ e.f = 0 /\ e.at = Len(buf.w) /\ e.n = 0 /\ End(e) = Len(buf'.w)
  BY <1>3, <1>5, <1>6 DEF Entry, End, EntrySpan
<1>8. /\ Last = unit - 1 /\ Open = 0 /\ Last' = unit /\ Open' = unit
  BY <1>1 DEF Last, Open
<1>9. /\ Laid(E, Len(buf.w)) /\ Chained(E, total, unit - 1, Len(buf.w)) /\ Indexed(E, total, 0, count, buf.w)
      /\ Carries(E, buf.w, copy, want) /\ Kept(E, copy, want) /\ Meant(E, want, mem)
  BY Zenon, <1>2, <1>8 DEF Writing
<1>10. /\ \A d \in E : d.u < unit
       /\ op = "BULK" => \A u \in Unit, f \in Field : u < unit => HasEntry(E, u, f)
  <2>0. pc # "field"
    BY <1>1
  <2>1. \A u, f : Past(u, f) <=> u < unit
    BY Zenon, <2>0 DEF Past
  <2> QED BY Zenon, <1>2, <2>1 DEF Writing, AllPut
<1>11. /\ \A d \in F : d \in E \/ d = e
       /\ \A u, f : HasEntry(F, u, f) <=> HasEntry(E, u, f) \/ (u = e.u /\ f = e.f)
  BY Zenon, EntryAdded
<1>12. Laid(F, Len(buf'.w))
  BY <1>3, <1>6, <1>7, <1>9, LaidAdd
<1>13. Chained(F, new, Last', Len(buf'.w))
  <2>1. \A k : k = unit - 1 => [total EXCEPT ![k + 1] = 0] = new
    BY <1>3, <1>6
  <2>2. PICK k \in Nat : k = unit - 1 /\ k + 1 = unit
    BY <1>3
  <2>3. Chained(E \cup {e}, [total EXCEPT ![k + 1] = 0], k + 1, End(e))
    BY <1>3, <1>7, <1>9, <2>2, ChainedAddUnit
  <2> QED BY <1>6, <1>7, <1>8, <2>1, <2>2, <2>3
<1>14. Indexed(E, total, 0, count, buf'.w) /\ Carries(E, buf'.w, copy, want)
  BY <1>4, <1>5, <1>9, LongerBuffer
<1>15. Indexed(F, new, Open', count', buf'.w)
  <2>1. \A d \in E : d.u \in Unit /\ d.u # 0 /\ d.u # unit
    BY <1>3, <1>9, <1>10 DEF Laid, Unit
  <2>2. \A d \in E : new[d.u] = total[d.u]
    BY <1>6, <1>9, <2>1 DEF Chained
  <2> QED BY <1>1, <1>7, <1>8, <1>11, <1>14, <2>1, <2>2 DEF Indexed
<1>16. Carries(F, buf'.w, copy', want') /\ Kept(F, copy', want') /\ Meant(F, want', mem')
  <2>0. /\ \A w, old, now : Carries(E, w, old, now) => Carries(F, w, old, now)
        /\ \A now, m : Meant(E, now, m) => Meant(F, now, m)
    <3>1. e.f = 0
      BY <1>7
    <3> QED BY ZenonT(40), <3>1, EntryAdded
  <2>1. Carries(F, buf'.w, copy, want) /\ Meant(F, want, mem)
    BY Zenon, <1>9, <1>14, <2>0
  <2>2. Kept(F, copy, want)
    BY Zenon, <1>9, <1>11 DEF Kept
  <2> QED BY Zenon, <1>1, <2>1, <2>2
<1>17. \A d \in F : Past(d.u, d.f)'
  <2>1. Past(e.u, e.f)'
    BY <1>1, <1>7 DEF Past
  <2>2. \A d \in E : Past(d.u, d.f)'
    BY Zenon, <1>1, <1>10 DEF Past
  <2> QED BY Zenon, <1>11, <2>1, <2>2
<1>18. AllPut(F)'
  <2>1. Unit' = Unit /\ \A f \in Field : ~(f < 1)
    BY <1>1, NFieldsNat DEF Unit
  <2>2. \A u \in Unit, f \in Field : Past(u, f)' => u < unit
    BY <1>1, <2>1 DEF Past
  <2> QED BY Zenon, <1>1, <1>10, <1>11, <2>1, <2>2 DEF AllPut
<1>19. CountOpen(F, new)'
  <2>1. new[unit] = 0
    BY <1>3, <1>6, <1>9 DEF Chained
  <2>2. HasEntry(F, unit, 0)
    BY <1>7, <1>11
  <2> QED BY <1>1, <1>5, <2>1, <2>2 DEF CountOpen, n
<1>20. Writing(F, new)'
  BY Zenon, <1>1, <1>12, <1>13, <1>15, <1>16, <1>17, <1>18, <1>19, WritingPrimed
<1>21. pc' = "field" /\ pc' # "dead" /\ pc' # "app" /\ pc' \notin {"read_unit", "read_field"}
  BY <1>1
<1> QED BY Zenon, <1>20, <1>21 DEF Sound

\* A field that is left out has no entry: the standby is to keep what it has.
LEMMA FieldSkipSound ==
    ASSUME Typed, Sound, FieldSkip
    PROVE  Sound'
<1> SUFFICES ASSUME harm' = {} PROVE Sound'
  BY Zenon DEF Sound
<1>1. /\ pc = "field" /\ op = "UPDATE" /\ pc' = pc /\ field' = field + 1 /\ UNCHANGED <<sides, buf, op, unit, nfields, count, harm>>
      /\ units' = units /\ mem' = mem /\ copy' = copy /\ want' = want
  BY DEF FieldSkip, InField, sides
<1>2. PICK E, total : Writing(E, total)
  BY Zenon, <1>1 DEF Sound
<1>3. Last' = Last /\ Open' = Open
  BY <1>1 DEF Last, Open
<1>4. /\ Laid(E, Len(buf.w)) /\ Chained(E, total, Last, Len(buf.w)) /\ Indexed(E, total, Open, count, buf.w)
      /\ Carries(E, buf.w, copy, want) /\ Kept(E, copy, want) /\ Meant(E, want, mem)
      /\ CountOpen(E, total) /\ \A e \in E : Past(e.u, e.f)
  BY Zenon, <1>2 DEF Writing
<1>5. \A e \in E : Past(e.u, e.f)'
  <2>1. field \in Nat /\ \A e \in E : e.f \in Nat
    BY <1>4, TypedNumbers, NFieldsNat DEF Laid, Entry
  <2>2. \A e \in E : e.f < field => e.f < field'
    BY <1>1, <2>1
  <2> QED BY Zenon, <1>1, <1>4, <2>2 DEF Past
<1>6. AllPut(E)' /\ CountOpen(E, total)'
  BY <1>1, <1>4 DEF AllPut, CountOpen
<1>7. Laid(E, Len(buf'.w)) /\ Chained(E, total, Last', Len(buf'.w)) /\ Indexed(E, total, Open', count', buf'.w)
      /\ Carries(E, buf'.w, copy', want') /\ Kept(E, copy', want') /\ Meant(E, want', mem')
  BY Zenon, <1>1, <1>3, <1>4
<1>8. Writing(E, total)'
  BY Zenon, <1>1, <1>5, <1>6, <1>7, WritingPrimed
<1>9. pc' = "field" /\ pc' # "dead" /\ pc' # "app" /\ pc' \notin {"read_unit", "read_field"}
  BY <1>1
<1> QED BY Zenon, <1>8, <1>9 DEF Sound

\* What an undamaged field does to the message: its words follow those that are
\* there, and applied to what the standby has they give what is expected.
LEMMA FieldPutWords ==
    ASSUME Typed, NEW fill \in Junk, FieldPut(fill), FieldHarm(buf') = {},
           want[unit][field] = copy[unit][field]
    PROVE  /\ Extends(buf, buf', 1 + FieldSpan(field))
           /\ buf'.w[Len(buf.w) + 1] = field - 1
           /\ \A k \in 1..Len(Types(field)) :
                 /\ Applied(Types(field)[k], buf'.w[At(Len(buf.w) + 1, field, k)], copy[unit][field][k])
                       = Expected[k]
                 /\ Words[k] \in {Foreign, Expected[k]}
<1>1. InField /\ pc = "field" /\ buf' = PutField(buf, field, Words, fill) /\ fill \in AnyWord /\ IsBuffer(buf)
  BY JunkAnyWord, TypedParts DEF FieldPut, InField
<1>2. /\ unit \in Unit /\ field \in Field
      /\ Words \in Seq(AnyWord) /\ Len(Words) = Len(Types(field)) /\ Len(Words) \in Nat \ {0}
      /\ DOMAIN Words = 1..Len(Words)
      /\ \A k \in 1..Len(Words) : Words[k] \in Contents(Types(field)[k])
      /\ \A k \in 1..Len(Words) : Expected[k] = IF Words[k] = Foreign THEN want[unit][field][k] ELSE Words[k]
  BY <1>1, WordsTyped, ExpectedTyped
<1>3. Extends(buf, buf', 1 + FieldSpan(field)) /\ buf'.w[Len(buf.w) + 1] = field - 1
  BY <1>1, <1>2, PutFieldExtends
<1>4. Unshifted(field, Words)
  <2>1. "shift" \notin FieldHarm(buf')
    OBVIOUS
  <2> QED BY <2>1 DEF FieldHarm, Unshifted
<1>5. Zeroed(field, Words, Len(buf'.w))
  <2>1. "junk" \notin FieldHarm(buf')
    OBVIOUS
  <2>2. ~(HasNull /\ Len(buf'.w) - NameWords >= InitWords)
    BY <2>1 DEF FieldHarm
  <2>3. Types(field)[Len(Words)] = "PTR" /\ Words[Len(Words)] = 0 => HasNull
    BY <1>2 DEF HasNull
  <2>4. Len(buf'.w) \in Nat /\ NameWords \in Nat /\ InitWords \in Nat
    BY <1>3, SizesAssumption DEF Extends, IsBuffer
  <2> QED BY <2>2, <2>3, <2>4 DEF Zeroed, Inside
<1>6. \A k \in 1..Len(Words) : buf'.w[At(Len(buf.w) + 1, field, k)] = Carried(Types(field)[k], Words[k])
  <2>1. Zeroed(field, Words, Len(PutField(buf, field, Words, fill).w))
    BY Zenon, <1>1, <1>5
  <2>2. \A k \in 1..Len(Words) :
            PutField(buf, field, Words, fill).w[At(Len(buf.w) + 1, field, k)] = Carried(Types(field)[k], Words[k])
    BY <1>1, <1>2, <1>4, <2>1, PutFieldCarries
  <2> QED BY Zenon, <1>1, <2>2
<1>7. ASSUME NEW k \in 1..Len(Types(field))
      PROVE  /\ Applied(Types(field)[k], buf'.w[At(Len(buf.w) + 1, field, k)], copy[unit][field][k]) = Expected[k]
             /\ Words[k] \in {Foreign, Expected[k]}
  <2>1. Types(field)[k] \in {"DATA", "PTR"}
    BY <1>2, TypesSeq
  <2>2. /\ buf'.w[At(Len(buf.w) + 1, field, k)] = Carried(Types(field)[k], Words[k])
        /\ Expected[k] = IF Words[k] = Foreign THEN copy[unit][field][k] ELSE Words[k]
        /\ Words[k] \in Contents(Types(field)[k])
    BY <1>2, <1>6
  <2>3. Applied(Types(field)[k], Carried(Types(field)[k], Words[k]), copy[unit][field][k])
            = IF Words[k] = Foreign THEN copy[unit][field][k] ELSE Words[k]
    BY <2>1, <2>2, AppliedCarried
  <2> QED BY <2>2, <2>3
<1> QED BY Zenon, <1>3, <1>7

\* The position of the open number of fields is a word of the message.
LEMMA CountWithin ==
    ASSUME Typed, pc = "field", NEW E, NEW total, Writing(E, total)
    PROVE  /\ count \in 1..Len(buf.w)
           /\ \E c \in E : c.u = unit /\ c.f = 0 /\ c.at + 1 = count /\ c.at \in Nat /\ End(c) = count
<1>1. PICK c \in E : c.u = unit /\ c.f = 0
  BY DEF Writing, CountOpen, HasEntry
<1>2. c.at + 1 = count
  <2>1. Open = unit
    BY DEF Open
  <2> QED BY <1>1, <2>1 DEF Writing, Indexed
<1>3. c.at \in Nat /\ End(c) <= Len(buf.w) /\ End(c) = c.at + 1
  BY <1>1 DEF Writing, Laid, Entry, End, EntrySpan
<1>4. Len(buf.w) \in Nat
  BY TypedNumbers
<1>5. count \in 1..Len(buf.w)
  BY <1>2, <1>3, <1>4
<1> QED BY <1>1, <1>2, <1>3, <1>5

\* A field that is put has an entry at the end, and the standby is to have its
\* words, with those that it cannot know as they were.
LEMMA FieldPutSound ==
    ASSUME Typed, Sound, NEW fill \in Junk, FieldPut(fill)
    PROVE  Sound'
<1> SUFFICES ASSUME harm' = {} PROVE Sound'
  BY Zenon DEF Sound
<1>1. /\ pc = "field" /\ pc' = pc /\ field' = field + 1 /\ nfields' = nfields + 1
      /\ units' = units /\ mem' = mem /\ copy' = copy /\ op' = op /\ unit' = unit /\ count' = count
      /\ want' = [want EXCEPT ![unit][field] = Expected] /\ InField
  BY DEF FieldPut, InField
<1>2. harm = {} /\ FieldHarm(buf') = {}
  <2>1. harm' = harm \cup FieldHarm(buf')
    BY DEF FieldPut
  <2> QED BY <2>1
<1>3. PICK E, total : Writing(E, total)
  BY Zenon, <1>1, <1>2 DEF Sound
<1>4. /\ unit \in Unit /\ field \in Field /\ field \in Nat /\ field # 0 /\ nfields \in Nat /\ unit \in Nat
      /\ Len(buf.w) \in Nat /\ IsBuffer(buf)
  BY <1>1, WordsTyped, TypedNumbers, TypedParts, NFieldsNat DEF Unit
<1>5. Last = unit /\ Open = unit /\ Last' = unit /\ Open' = unit
  BY <1>1 DEF Last, Open
<1>6. /\ Laid(E, Len(buf.w)) /\ Chained(E, total, unit, Len(buf.w)) /\ Indexed(E, total, unit, count, buf.w)
      /\ Carries(E, buf.w, copy, want) /\ Kept(E, copy, want) /\ Meant(E, want, mem)
      /\ CountOpen(E, total) /\ (\A d \in E : Past(d.u, d.f)) /\ AllPut(E)
  BY Zenon, <1>3, <1>5 DEF Writing
<1>7. /\ total[unit] = nfields /\ HasEntry(E, unit, 0)
      /\ buf.w[count] = (IF op = "BULK" THEN NFields ELSE 0) /\ (op = "BULK" => nfields = field - 1)
  BY Zenon, <1>1, <1>6 DEF CountOpen
\* The entries that are there are of other fields.
<1>8. \A d \in E : d.f \in Nat /\ d.u \in Unit /\ d.f \in Field \cup {0} /\ ~(d.u = unit /\ d.f = field)
  <2>1. \A d \in E : d.f \in Nat /\ d.u \in Unit /\ d.f \in Field \cup {0} /\ d.u \in Nat
    BY <1>6 DEF Laid, Entry
  <2>2. ~(unit < unit) /\ ~(field < field)
    BY <1>4
  <2>3. \A d \in E : ~(d.u = unit /\ d.f = field)
    BY Zenon, <1>6, <2>2 DEF Past
  <2> QED BY <2>1, <2>3
<1>9. want[unit][field] = copy[unit][field]
  BY Zenon, <1>4, <1>6, <1>8 DEF Kept, HasEntry
<1>10. /\ Extends(buf, buf', 1 + FieldSpan(field)) /\ 1 + FieldSpan(field) \in Nat
       /\ buf'.w[Len(buf.w) + 1] = field - 1
       /\ \A k \in 1..Len(Types(field)) :
             /\ Applied(Types(field)[k], buf'.w[At(Len(buf.w) + 1, field, k)], copy[unit][field][k]) = Expected[k]
             /\ Words[k] \in {Foreign, Expected[k]}
  BY <1>2, <1>4, <1>9, FieldPutWords, FieldSpanNat
<1>11. PICK e, F, new : /\ e = [u |-> unit, f |-> field, at |-> Len(buf.w), n |-> nfields + 1]
                        /\ F = E \cup {e} /\ new = [total EXCEPT ![unit] = total[unit] + 1]
  OBVIOUS
<1>. F = E \cup {e}
  BY <1>11
<1>12. /\ e \in Entry /\ e.u = unit /\ e.f = field /\ e.at = Len(buf.w) /\ e.n = nfields + 1
       /\ End(e) = Len(buf'.w)
  BY <1>4, <1>10, <1>11 DEF Entry, End, EntrySpan, Extends
<1>13. /\ \A d \in F : d \in E \/ d = e
       /\ \A u, f : HasEntry(F, u, f) <=> HasEntry(E, u, f) \/ (u = e.u /\ f = e.f)
  <2>1. \A d : d \in F <=> d \in E \/ d = e
    OBVIOUS
  <2>2. \A u, f : HasEntry(F, u, f) <=> HasEntry(E, u, f) \/ (u = e.u /\ f = e.f)
    BY Zenon, <2>1 DEF HasEntry
  <2> QED BY Zenon, <2>1, <2>2
<1>14. new[unit] = nfields + 1 /\ \A u \in Unit : u # unit => new[u] = total[u]
  BY <1>4, <1>6, <1>7, <1>11 DEF Chained
<1>15. Laid(F, Len(buf'.w))
  BY <1>4, <1>6, <1>12, LaidAdd
<1>16. Chained(F, new, Last', Len(buf'.w))
  <2>1. e.n = total[unit] + 1
    BY Zenon, <1>7, <1>12
  <2>2. PICK k : k = unit
    OBVIOUS
  <2>3. Chained(E \cup {e}, [total EXCEPT ![k] = total[k] + 1], k, End(e))
    BY <1>4, <1>6, <1>12, <2>1, <2>2, ChainedAddField
  <2>4. [total EXCEPT ![k] = total[k] + 1] = new
    BY <1>11, <2>2
  <2> QED BY Zenon, <1>5, <1>12, <2>2, <2>3, <2>4
<1>17. Indexed(E, total, unit, count, buf'.w) /\ Carries(E, buf'.w, copy, want)
  BY <1>4, <1>6, <1>10, LongerBuffer
<1>18. Indexed(F, new, Open', count', buf'.w)
  BY <1>1, <1>4, <1>5, <1>8, <1>10, <1>12, <1>13, <1>14, <1>17 DEF Indexed
<1>19. /\ want'[unit][field] = Expected
       /\ \A u \in Unit, f \in Field : ~(u = unit /\ f = field) => want'[u][f] = want[u][f]
  <2>1. IsObject(want)
    BY TypedParts DEF Objects
  <2> QED BY <1>1, <1>4, <2>1 DEF IsObject
<1>20. Carries(F, buf'.w, copy', want')
  <2>1. \A d \in E : d.f # 0 => want'[d.u][d.f] = want[d.u][d.f]
    BY <1>8, <1>19
  <2>2. Carries(E, buf'.w, copy, want')
    BY Zenon, <1>17, <2>1 DEF Carries
  <2>3. Carries({e}, buf'.w, copy, want')
    BY <1>10, <1>12, <1>19 DEF Carries
  <2> QED BY Zenon, <1>1, <1>13, <2>2, <2>3 DEF Carries
<1>21. Kept(F, copy', want')
  <2>1. ASSUME NEW u \in Unit, NEW f \in Field PROVE HasEntry(F, u, f) \/ want'[u][f] = copy[u][f]
    <3>1. CASE u = unit /\ f = field
      BY Zenon, <1>12, <1>13, <3>1
    <3>2. CASE ~(u = unit /\ f = field)
      <4>1. HasEntry(E, u, f) \/ want[u][f] = copy[u][f]
        BY Zenon, <1>6 DEF Kept
      <4> QED BY Zenon, <1>13, <1>19, <3>2, <4>1
    <3> QED BY Zenon, <3>1, <3>2
  <2> QED BY Zenon, <1>1, <2>1 DEF Kept
<1>22. Meant(F, want', mem')
  <2>1. \A d \in E : d.f # 0 => want'[d.u][d.f] = want[d.u][d.f]
    BY <1>8, <1>19
  <2>2. Meant(E, want', mem)
    BY Zenon, <1>6, <2>1 DEF Meant
  <2>3. Meant({e}, want', mem)
    BY <1>10, <1>12, <1>19 DEF Meant, Words
  <2> QED BY Zenon, <1>1, <1>13, <2>2, <2>3 DEF Meant
<1>23. field < field' /\ \A f \in Nat : (f < field => f < field') /\ (f < field' => f < field \/ f = field)
  BY <1>1, <1>4
<1>24. \A d \in F : Past(d.u, d.f)'
  <2>1. Past(e.u, e.f)'
    BY Zenon, <1>1, <1>12, <1>23 DEF Past
  <2>2. \A d \in E : Past(d.u, d.f)'
    BY Zenon, <1>1, <1>6, <1>8, <1>23 DEF Past
  <2> QED BY Zenon, <1>13, <2>1, <2>2
<1>25. AllPut(F)'
  <2>1. Unit' = Unit /\ \A f \in Field : f \in Nat
    BY <1>1, NFieldsNat DEF Unit
  <2>2. \A u \in Unit, f \in Field : Past(u, f)' => Past(u, f) \/ (u = unit /\ f = field)
    BY Zenon, <1>1, <1>23, <2>1 DEF Past
  <2> QED BY Zenon, <1>1, <1>6, <1>12, <1>13, <2>1, <2>2 DEF AllPut
<1>26. CountOpen(F, new)'
  <2>1. HasEntry(F, unit, 0)
    BY <1>7, <1>13
  <2>2. buf'.w[count] = buf.w[count]
    BY <1>1, <1>3, <1>10, CountWithin DEF Extends
  <2>3. op = "BULK" => nfields' = field' - 1
    BY <1>1, <1>4, <1>7
  <2> QED BY Zenon, <1>1, <1>7, <1>14, <2>1, <2>2, <2>3 DEF CountOpen
<1>27. Writing(F, new)'
  BY Zenon, <1>1, <1>15, <1>16, <1>18, <1>20, <1>21, <1>22, <1>24, <1>25, <1>26, WritingPrimed
<1>28. pc' = "field" /\ pc' # "dead" /\ pc' # "app" /\ pc' \notin {"read_unit", "read_field"}
  BY <1>1
<1> QED BY Zenon, <1>27, <1>28 DEF Sound

\* The number of fields, filled in, is the one word that changes, and it is in
\* no other entry.
LEMMA UnitEndWords ==
    ASSUME Typed, NEW E, NEW total, Writing(E, total), UnitEnd,
           op = "UPDATE" /\ nfields > 0 => Fits(buf)
    PROVE  Indexed(E, total, 0, 0, buf'.w) /\ Carries(E, buf'.w, copy, want) /\ Len(buf'.w) = Len(buf.w)
<1>1. /\ pc = "field" /\ field > NFields /\ buf' = (IF op = "UPDATE" THEN Patch(buf, count, nfields) ELSE buf)
  BY DEF UnitEnd
<1>2. count \in 1..Len(buf.w)
  BY <1>1, CountWithin
<1>3. PICK c \in E : c.u = unit /\ c.f = 0 /\ c.at + 1 = count /\ c.at \in Nat /\ End(c) = count
  BY <1>1, CountWithin
<1>4. field \in 1..(NFields + 1) /\ nfields \in Nat /\ count \in Nat /\ Len(buf.w) \in Nat /\ NFields \in Nat
  BY TypedNumbers, NFieldsNat
<1>5. Open = unit
  BY <1>1 DEF Open
<1>6. /\ Laid(E, Len(buf.w)) /\ Indexed(E, total, unit, count, buf.w) /\ Carries(E, buf.w, copy, want)
      /\ CountOpen(E, total)
  BY Zenon, <1>5 DEF Writing
<1>7. /\ Len(buf'.w) = Len(buf.w) /\ \A j \in 1..Len(buf.w) : j # count => buf'.w[j] = buf.w[j]
      /\ op = "UPDATE" /\ Fits(buf) => buf'.w[count] = nfields
  <2>1. IsBuffer(buf)
    BY TypedParts
  <2> QED BY <1>1, <1>2, <1>4, <2>1, PatchTyped
<1>8. buf'.w[count] = total[unit]
  <2>1. /\ total[unit] = nfields /\ buf.w[count] = (IF op = "BULK" THEN NFields ELSE 0)
        /\ op = "BULK" => nfields = field - 1
    BY Zenon, <1>1, <1>6 DEF CountOpen
  <2>2. CASE op = "UPDATE" /\ Fits(buf)
    BY <1>7, <2>1, <2>2
  <2>3. CASE op = "UPDATE" /\ ~Fits(buf)
    <3>1. buf' = buf
      BY <1>1, <2>3 DEF Patch
    <3>2. nfields = 0
      BY <1>4, <2>3
    <3> QED BY <2>1, <2>3, <3>1, <3>2
  <2>4. CASE op = "BULK"
    <3>1. field - 1 = NFields
      BY <1>1, <1>4
    <3> QED BY <1>1, <2>1, <2>4, <3>1
  <2>5. op \in {"UPDATE", "BULK"}
    BY TypedParts DEF Counters
  <2> QED BY <2>2, <2>3, <2>4, <2>5
<1>9. ASSUME NEW d \in E, d # c, NEW j \in Nat, d.at < j, j <= End(d)
      PROVE  buf'.w[j] = buf.w[j]
  <2>1. d.at \in Nat /\ End(d) <= Len(buf.w) /\ d.f \in Field \cup {0} /\ (End(d) <= c.at \/ End(c) <= d.at)
    BY <1>6, <1>9 DEF Laid, Entry
  <2>2. End(d) \in Nat
    BY <2>1, EntrySpanNat DEF End
  <2>3. j \in 1..Len(buf.w) /\ j # count
    BY <1>3, <1>4, <1>9, <2>1, <2>2
  <2> QED BY <1>7, <2>3
<1>10. ASSUME NEW d \in E, d # c PROVE buf'.w[d.at + 1] = buf.w[d.at + 1]
  <2>1. d.at \in Nat /\ EntrySpan(d.f) \in Nat \ {0}
    BY <1>6, EntrySpanNat DEF Laid, Entry
  <2>2. d.at + 1 \in Nat /\ d.at < d.at + 1 /\ d.at + 1 <= End(d)
    BY <2>1 DEF End
  <2> QED BY <1>9, <1>10, <2>2
<1>11. ASSUME NEW d \in E, d.f # 0, NEW k \in 1..Len(Types(d.f))
       PROVE  buf'.w[At(d.at + 1, d.f, k)] = buf.w[At(d.at + 1, d.f, k)]
  <2>1. d \in Entry /\ d.f \in Field /\ d.at \in Nat /\ d # c
    BY <1>3, <1>6, <1>11 DEF Laid, Entry
  <2>2. d.at + 1 < At(d.at + 1, d.f, k) /\ At(d.at + 1, d.f, k) <= End(d) /\ At(d.at + 1, d.f, k) \in Nat
    BY <2>1, WordWithin
  <2>3. d.at < At(d.at + 1, d.f, k)
    BY <2>1, <2>2
  <2> QED BY <1>9, <2>1, <2>2, <2>3
<1>12. Carries(E, buf'.w, copy, want)
  BY Zenon, <1>6, <1>11 DEF Carries
<1>13. Indexed(E, total, 0, 0, buf'.w)
  <2>1. ASSUME NEW d \in E, d.f # 0 PROVE buf'.w[d.at + 1] = d.f - 1
    BY Zenon, <1>3, <1>6, <1>10, <2>1 DEF Indexed
  <2>2. ASSUME NEW d \in E, d.f = 0 PROVE buf'.w[d.at + 1] = total[d.u]
    <3>1. CASE d.u = unit
      BY <1>6, <1>8, <2>2, <3>1 DEF Indexed
    <3>2. CASE d.u # unit
      BY Zenon, <1>3, <1>6, <1>10, <2>2, <3>2 DEF Indexed
    <3> QED BY <3>1, <3>2
  <2>3. \A d \in E : d.u # 0
    BY <1>6 DEF Laid, Unit
  <2> QED BY <2>1, <2>2, <2>3 DEF Indexed
<1> QED BY <1>7, <1>12, <1>13

\* With its number of fields a unit is complete.
LEMMA UnitEndSound ==
    ASSUME Typed, Sound, UnitEnd
    PROVE  Sound'
<1> SUFFICES ASSUME harm' = {} PROVE Sound'
  BY Zenon DEF Sound
<1>1. /\ pc = "field" /\ field > NFields /\ pc' = "unit" /\ unit' = unit + 1
      /\ units' = units /\ mem' = mem /\ copy' = copy /\ want' = want /\ op' = op /\ count' = count
  BY DEF UnitEnd, sides
<1>2. harm = {} /\ (op = "UPDATE" /\ nfields > 0 => Fits(buf))
  <2>1. harm' = IF op = "UPDATE" /\ nfields > 0 /\ ~Fits(buf) THEN harm \cup {"count"} ELSE harm
    BY DEF UnitEnd
  <2> QED BY <2>1
<1>3. PICK E, total : Writing(E, total)
  BY Zenon, <1>1, <1>2 DEF Sound
<1>4. unit \in Nat /\ unit \in Unit /\ field \in Nat /\ (unit + 1) - 1 = unit
  BY <1>1, TypedNumbers, NFieldsNat, TypedParts DEF Counters, Unit
<1>5. Last = unit /\ Last' = unit /\ Open' = 0
  BY <1>1, <1>4 DEF Last, Open
<1>6. /\ Laid(E, Len(buf.w)) /\ Chained(E, total, unit, Len(buf.w))
      /\ Kept(E, copy, want) /\ Meant(E, want, mem) /\ (\A d \in E : Past(d.u, d.f)) /\ AllPut(E)
  BY Zenon, <1>3, <1>5 DEF Writing
<1>7. Indexed(E, total, 0, 0, buf'.w) /\ Carries(E, buf'.w, copy, want) /\ Len(buf'.w) = Len(buf.w)
  BY <1>2, <1>3, UnitEndWords
<1>8. Indexed(E, total, Open', count', buf'.w)
  <2>1. \A d \in E : d.u # 0
    BY <1>6 DEF Laid, Unit
  <2> QED BY Zenon, <1>5, <1>7, <2>1 DEF Indexed
<1>9. Laid(E, Len(buf'.w)) /\ Chained(E, total, Last', Len(buf'.w))
  BY Zenon, <1>5, <1>6, <1>7
<1>10. Carries(E, buf'.w, copy', want') /\ Kept(E, copy', want') /\ Meant(E, want', mem')
  BY Zenon, <1>1, <1>6, <1>7
<1>11. pc' # "field" /\ \A u \in Unit : u < unit' <=> u < unit \/ u = unit
  BY <1>1, <1>4, TypedNumbers DEF Unit
<1>12. \A d \in E : Past(d.u, d.f)'
  <2>1. \A d \in E : d.u \in Unit
    BY <1>6 DEF Laid
  <2> QED BY Zenon, <1>6, <1>11, <2>1 DEF Past
<1>13. AllPut(E)'
  <2>1. Unit' = Unit /\ \A f \in Field : f < field
    BY <1>1, <1>4, NFieldsNat DEF Unit
  <2>2. \A u \in Unit, f \in Field : Past(u, f)' => Past(u, f)
    BY Zenon, <1>1, <1>11, <2>1 DEF Past
  <2> QED BY Zenon, <1>1, <1>6, <2>1, <2>2 DEF AllPut
<1>14. CountOpen(E, total)'
  BY Zenon, <1>11 DEF CountOpen
<1>15. Writing(E, total)'
  BY Zenon, <1>1, <1>8, <1>9, <1>10, <1>12, <1>13, <1>14, WritingPrimed
<1>16. pc' = "unit" /\ pc' # "dead" /\ pc' # "app" /\ pc' \notin {"read_unit", "read_field"}
  BY <1>1
<1> QED BY Zenon, <1>15, <1>16 DEF Sound

\* What is sent whole begins with the first unit, or is empty.
LEMMA SendSound ==
    ASSUME Typed, Sound, Send
    PROVE  Sound'
<1> SUFFICES ASSUME harm' = {} PROVE Sound'
  BY Zenon DEF Sound
<1>1. /\ pc = "unit" /\ unit > units /\ pc' = "read_unit" /\ unit' = 1 /\ next' = 2 * NameWords
      /\ units' = units /\ mem' = mem /\ copy' = copy /\ want' = want /\ op' = op
      /\ harm' = IF Len(buf.w) > RecvWords THEN harm \cup {"cut"} ELSE harm
  BY DEF Send, sides
<1>2. units \in Nat \ {0} /\ unit \in 1..(units + 1) /\ Len(buf.w) \in Nat /\ RecvWords \in Nat /\ NameWords \in Nat
  BY TypedNumbers, SizesAssumption
<1>3. harm = {} /\ ~(Len(buf.w) > RecvWords)
  BY <1>1
<1>4. buf' = buf
  BY <1>2, <1>3, SendTyped
<1>5. PICK E, total : Writing(E, total)
  BY Zenon, <1>1, <1>3 DEF Sound
<1>6. unit - 1 = units /\ units # 0 /\ 1 <= units' /\ ~(1 > units')
  <2>1. unit > units /\ units' = units
    BY <1>1
  <2>2. unit = units + 1
    BY <1>2, <2>1
  <2> QED BY <1>2, <2>1, <2>2
<1>7. Last = units /\ Open = 0 /\ pc # "field"
  BY <1>1, <1>6 DEF Last, Open
<1>8. /\ Laid(E, Len(buf.w)) /\ Chained(E, total, units, Len(buf.w)) /\ Indexed(E, total, 0, count, buf.w)
      /\ Carries(E, buf.w, copy, want) /\ Kept(E, copy, want) /\ Meant(E, want, mem) /\ AllPut(E)
  BY Zenon, <1>5, <1>7 DEF Writing
<1>9. Indexed(E, total, 0, 0, buf'.w)
  <2>1. \A d \in E : d.u # 0
    BY <1>8 DEF Laid, Unit
  <2> QED BY Zenon, <1>4, <1>8, <2>1 DEF Indexed
<1>10. /\ Laid(E, Len(buf'.w)) /\ Chained(E, total, units, Len(buf'.w)) /\ Carries(E, buf'.w, copy', want')
       /\ Kept(E, copy', want') /\ Meant(E, want', mem')
  BY Zenon, <1>1, <1>4, <1>8
<1>11. op' = "BULK" => \A u \in Unit, f \in Field : HasEntry(E, u, f)
  <2>1. \A u \in Unit : u < unit
    <3>1. unit > units
      BY <1>1
    <3> QED BY <1>2, <3>1 DEF Unit
  <2> QED BY Zenon, <1>1, <1>8, <2>1 DEF AllPut, Past
<1>12. \A e \in E : ~(e.at < next')
  <2>1. next' = 2 * NameWords
    BY <1>1
  <2>2. \A e \in E : e.at \in Nat /\ 2 * NameWords <= e.at
    BY <1>8 DEF Laid, Entry
  <2> QED BY <1>2, <2>1, <2>2
<1>13. AtUnit(E, unit)'
  <2>1. \E e \in E : e.at = next' /\ e.u = unit' /\ e.n = 0
    BY Zenon, <1>1, <1>6, <1>8 DEF Chained
  <2> QED BY Zenon, <1>1, <1>6, <2>1 DEF AtUnit
<1>14. pc' = "read_unit" /\ pc' # "read_field" /\ pc' # "dead" /\ pc' # "app" /\ pc' \notin {"unit", "field"}
  BY <1>1
<1>15. Reading(E, total)'
  BY Zenon, <1>1, <1>9, <1>10, <1>11, <1>12, <1>13, <1>14, ReadingPrimed
<1> QED BY Zenon, <1>14, <1>15 DEF Sound

(***************************************************************************)
(* The standby: it finds every entry where the one before it ends.         *)
(***************************************************************************)

\* The end of entry e is where the next one begins.
LEMMA EntryEnds ==
    ASSUME Typed, NEW E, NEW total, Reading(E, total), NEW e \in E, e.at = next
    PROVE  /\ e \in Entry /\ e.u \in Unit /\ e.f \in Field \cup {0} /\ (e.f = 0 <=> e.n = 0)
           /\ End(e) \in Nat /\ next < End(e) /\ End(e) <= Len(buf.w)
           /\ \A d \in E : d.at < End(e) => d.at < next \/ d = e
           /\ e.n < total[e.u] => \E d \in E : d.at = End(e) /\ d.u = e.u /\ d.n = e.n + 1
           /\ e.n = total[e.u] /\ e.u + 1 > units => End(e) = Len(buf.w)
           /\ e.n = total[e.u] /\ e.u + 1 <= units => \E d \in E : d.at = End(e) /\ d.u = e.u + 1 /\ d.n = 0
<1>1. Laid(E, Len(buf.w)) /\ Chained(E, total, units, Len(buf.w))
  BY Zenon DEF Reading
<1>2. /\ e \in Entry /\ e.u \in Unit /\ e.f \in Field \cup {0} /\ (e.f = 0 <=> e.n = 0) /\ End(e) <= Len(buf.w)
  BY <1>1 DEF Laid
<1>3. e.at \in Nat /\ EntrySpan(e.f) \in Nat \ {0}
  BY <1>2, EntrySpanNat DEF Entry
<1>4. End(e) \in Nat /\ next < End(e)
  BY <1>3 DEF End
<1>5. ASSUME NEW d \in E, d.at < End(e) PROVE d.at < next \/ d = e
  <2>1. d.at \in Nat /\ d.f \in Field \cup {0} /\ (d = e \/ End(d) <= e.at \/ End(e) <= d.at)
    BY <1>1 DEF Laid, Entry
  <2>2. EntrySpan(d.f) \in Nat \ {0}
    BY <2>1, EntrySpanNat
  <2>3. End(d) \in Nat /\ d.at < End(d)
    BY <2>1, <2>2 DEF End
  <2> QED BY <1>3, <1>4, <1>5, <2>1, <2>3
<1>6. e.u \in Nat /\ units \in Nat /\ (e.u + 1 > units => e.u = units) /\ (e.u + 1 <= units => e.u # units)
  BY <1>2, TypedNumbers DEF Unit
<1>7. /\ e.n < total[e.u] => \E d \in E : d.at = End(e) /\ d.u = e.u /\ d.n = e.n + 1
      /\ e.n = total[e.u] /\ e.u = units => End(e) = Len(buf.w)
      /\ e.n = total[e.u] /\ e.u # units => \E d \in E : d.at = End(e) /\ d.u = e.u + 1 /\ d.n = 0
  BY Zenon, <1>1 DEF Chained
<1> QED BY Zenon, <1>2, <1>4, <1>5, <1>6, <1>7

\* The number of fields of a unit is there, and is a number.
LEMMA UnitReadable ==
    ASSUME Typed, NEW E, NEW total, Reading(E, total), pc = "read_unit", unit <= units
    PROVE  /\ Has(1) /\ Word = total[unit] /\ Word \in Nat
           /\ \E e \in E : e.at = next /\ e.u = unit /\ e.n = 0 /\ e.f = 0 /\ End(e) = next + 1
<1>1. PICK e \in E : e.at = next /\ e.u = unit /\ e.n = 0
  BY Zenon DEF Reading, AtUnit
<1>2. e.u \in Unit /\ e.f = 0 /\ End(e) <= Len(buf.w)
  BY <1>1, EntryEnds
<1>3. End(e) = next + 1
  BY <1>1, <1>2 DEF End, EntrySpan
<1>4. Word = total[unit]
  <2>1. e.u # 0
    <3>1. units \in Nat
      BY TypedNumbers
    <3>2. e.u \in Unit
      BY <1>2
    <3> QED BY <3>1, <3>2 DEF Unit
  <2> QED BY Zenon, <1>1, <1>2, <2>1 DEF Reading, Indexed, Word
<1>5. total[unit] \in Nat
  BY <1>1, <1>2 DEF Reading, Chained
<1> QED BY <1>1, <1>2, <1>3, <1>4, <1>5 DEF Has

\* And so is each of its fields.
LEMMA FieldReadable ==
    ASSUME Typed, NEW E, NEW total, Reading(E, total), pc = "read_field", nfields > 0
    PROVE  /\ Readable /\ nfields <= total[unit] /\ total[unit] \in Nat /\ unit \in Unit
           /\ \E e \in E : /\ e.at = next /\ e.u = unit /\ e.f = Index /\ e.f # 0
                           /\ e.n = total[unit] - nfields + 1 /\ End(e) = next + 1 + FieldSpan(Index)
<1>1. nfields \in Nat \ {0} /\ nfields # 0 /\ next \in Nat
  <2>1. nfields \in Nat /\ next \in Nat
    BY Zenon, TypedNumbers
  <2> QED BY <2>1
<1>2. nfields <= total[unit]
  BY Zenon, <1>1 DEF Reading
<1>3. PICK e \in E : e.at = next /\ e.u = unit /\ e.n = total[unit] - nfields + 1
  BY Zenon, <1>1 DEF Reading
<1>4. e.u \in Unit /\ e.f \in Field \cup {0} /\ (e.f = 0 <=> e.n = 0) /\ End(e) <= Len(buf.w)
  BY <1>3, EntryEnds
<1>5. total[unit] \in Nat
  BY <1>3, <1>4 DEF Reading, Chained
<1>6. e.f \in Field /\ e.f # 0 /\ e.f \in Nat
  <2>1. total[unit] - nfields + 1 # 0
    BY <1>1, <1>2, <1>5
  <2> QED BY <1>3, <1>4, <2>1, NFieldsNat
<1>7. Word = e.f - 1
  BY Zenon, <1>3, <1>6 DEF Reading, Indexed, Word
<1>8. Word \in Nat /\ Index = e.f
  <2>1. e.f - 1 \in Nat /\ (e.f - 1) + 1 = e.f
    BY <1>6
  <2> QED BY Zenon, <1>7, <2>1 DEF Index
<1>9. FieldSpan(e.f) \in Nat
  BY <1>6, FieldSpanNat
<1>10. End(e) = next + 1 + FieldSpan(Index) /\ End(e) = next + (1 + FieldSpan(Index))
  <2>1. End(e) = next + (1 + FieldSpan(e.f))
    BY Zenon, <1>3, <1>6 DEF End, EntrySpan
  <2>2. next + (1 + FieldSpan(e.f)) = next + 1 + FieldSpan(e.f)
    BY <1>1, <1>9
  <2> QED BY Zenon, <1>8, <2>1, <2>2
<1>11. Has(1) /\ Has(1 + FieldSpan(Index))
  <2>1. FieldSpan(Index) \in Nat
    BY Zenon, <1>8, <1>9
  <2>2. next + (1 + FieldSpan(Index)) <= Len(buf.w)
    BY Zenon, <1>4, <1>10
  <2>3. Len(buf.w) \in Nat
    BY Zenon, TypedNumbers
  <2>4. next + 1 <= Len(buf.w)
    BY <1>1, <2>1, <2>2, <2>3
  <2> QED BY Zenon, <2>2, <2>4 DEF Has
<1> QED BY Zenon, <1>2, <1>3, <1>4, <1>5, <1>6, <1>8, <1>10, <1>11 DEF Readable

\* The standby reads the number of fields, which is what the active counted.
LEMMA ReadUnitSound ==
    ASSUME Typed, Sound, ReadUnit
    PROVE  Sound'
<1> SUFFICES ASSUME harm' = {} PROVE Sound'
  BY Zenon DEF Sound
<1>1. /\ pc = "read_unit" /\ unit <= units /\ nfields' = Word /\ next' = next + 1 /\ pc' = "read_field"
      /\ units' = units /\ mem' = mem /\ copy' = copy /\ want' = want /\ buf' = buf
      /\ op' = op /\ unit' = unit /\ harm' = harm
  BY DEF ReadUnit, sides
<1>2. PICK E, total : Reading(E, total)
  BY Zenon, <1>1 DEF Sound
<1>3. PICK e \in E : e.at = next /\ e.u = unit /\ e.n = 0 /\ e.f = 0 /\ End(e) = next'
  BY Zenon, <1>1, <1>2, UnitReadable
<1>4. nfields' = total[unit] /\ nfields' \in Nat
  BY Zenon, <1>1, <1>2, UnitReadable
<1>5. /\ Laid(E, Len(buf.w)) /\ Chained(E, total, units, Len(buf.w)) /\ Indexed(E, total, 0, 0, buf.w)
      /\ Carries(E, buf.w, copy, want) /\ Kept(E, copy, want) /\ Meant(E, want, mem)
      /\ op = "BULK" => \A u \in Unit, f \in Field : HasEntry(E, u, f)
      /\ \A d \in E : d.f # 0 /\ d.at < next => copy[d.u][d.f] = want[d.u][d.f]
  BY Zenon, <1>2 DEF Reading
<1>6. /\ \A d \in E : d.at < next' => d.at < next \/ d = e
      /\ 0 < total[unit] => \E d \in E : d.at = next' /\ d.u = unit /\ d.n = 0 + 1
      /\ 0 = total[unit] /\ unit + 1 > units => next' = Len(buf.w)
      /\ 0 = total[unit] /\ unit + 1 <= units => \E d \in E : d.at = next' /\ d.u = unit + 1 /\ d.n = 0
  <2>1. e.at = next
    BY <1>3
  <2>2. /\ \A d \in E : d.at < End(e) => d.at < next \/ d = e
        /\ e.n < total[e.u] => \E d \in E : d.at = End(e) /\ d.u = e.u /\ d.n = e.n + 1
        /\ e.n = total[e.u] /\ e.u + 1 > units => End(e) = Len(buf.w)
        /\ e.n = total[e.u] /\ e.u + 1 <= units => \E d \in E : d.at = End(e) /\ d.u = e.u + 1 /\ d.n = 0
    BY <1>2, <2>1, EntryEnds
  <2> QED BY Zenon, <1>3, <2>2
<1>7. \A d \in E : d.f # 0 /\ d.at < next' => copy'[d.u][d.f] = want'[d.u][d.f]
  BY Zenon, <1>1, <1>3, <1>5, <1>6
<1>8. nfields' = 0 => AtUnit(E, unit + 1)'
  BY Zenon, <1>1, <1>4, <1>6 DEF AtUnit
<1>9. nfields' # 0 => /\ nfields' <= total[unit']
                      /\ \E d \in E : d.at = next' /\ d.u = unit' /\ d.n = total[unit'] - nfields' + 1
  <2>1. nfields' # 0 => 0 < total[unit]
    BY <1>4
  <2>2. nfields' <= total[unit] /\ total[unit] - nfields' + 1 = 0 + 1
    BY <1>4
  <2> QED BY Zenon, <1>1, <1>6, <2>1, <2>2
<1>10. pc' = "read_field" /\ pc' # "read_unit" /\ pc' # "dead" /\ pc' # "app" /\ pc' \notin {"unit", "field"}
  BY <1>1
<1>11. /\ Laid(E, Len(buf'.w)) /\ Chained(E, total, units, Len(buf'.w)) /\ Indexed(E, total, 0, 0, buf'.w)
       /\ Carries(E, buf'.w, copy', want') /\ Kept(E, copy', want') /\ Meant(E, want', mem')
       /\ op' = "BULK" => \A u \in Unit, f \in Field : HasEntry(E, u, f)
  BY Zenon, <1>1, <1>5
<1>12. Reading(E, total)'
  BY Zenon, <1>1, <1>7, <1>8, <1>9, <1>10, <1>11, ReadingPrimed
<1> QED BY Zenon, <1>10, <1>12 DEF Sound

LEMMA ReadUnitEndSound ==
    ASSUME Typed, Sound, ReadUnitEnd
    PROVE  Sound'
<1> SUFFICES ASSUME harm' = {} PROVE Sound'
  BY Zenon DEF Sound
<1>1. /\ pc = "read_field" /\ nfields = 0 /\ pc' = "read_unit" /\ unit' = unit + 1 /\ next' = next
      /\ units' = units /\ mem' = mem /\ copy' = copy /\ want' = want /\ buf' = buf
      /\ op' = op /\ harm' = harm
  BY DEF ReadUnitEnd, sides
<1>2. PICK E, total : Reading(E, total)
  BY Zenon, <1>1 DEF Sound
<1>3. /\ Laid(E, Len(buf'.w)) /\ Chained(E, total, units, Len(buf'.w)) /\ Indexed(E, total, 0, 0, buf'.w)
      /\ Carries(E, buf'.w, copy', want') /\ Kept(E, copy', want') /\ Meant(E, want', mem')
      /\ op' = "BULK" => \A u \in Unit, f \in Field : HasEntry(E, u, f)
      /\ \A d \in E : d.f # 0 /\ d.at < next' => copy'[d.u][d.f] = want'[d.u][d.f]
      /\ AtUnit(E, unit + 1)
  BY Zenon, <1>1, <1>2 DEF Reading
<1>4. AtUnit(E, unit)'
  BY Zenon, <1>1, <1>3 DEF AtUnit
<1>5. pc' = "read_unit" /\ pc' # "read_field" /\ pc' # "dead" /\ pc' # "app" /\ pc' \notin {"unit", "field"}
  BY <1>1
<1>6. Reading(E, total)'
  BY Zenon, <1>1, <1>3, <1>4, <1>5, ReadingPrimed
<1> QED BY Zenon, <1>5, <1>6 DEF Sound

\* A field that is read is what was expected of it.
LEMMA ReadFieldSound ==
    ASSUME Typed, Sound, ReadField
    PROVE  Sound'
<1> SUFFICES ASSUME harm' = {} PROVE Sound'
  BY Zenon DEF Sound
<1>1. /\ pc = "read_field" /\ nfields > 0 /\ Readable /\ nfields' = nfields - 1
      /\ next' = next + 1 + FieldSpan(Index) /\ pc' = pc
      /\ units' = units /\ mem' = mem /\ want' = want /\ buf' = buf
      /\ op' = op /\ unit' = unit /\ harm' = harm
  BY DEF ReadField
<1>2. PICK E, total : Reading(E, total)
  BY Zenon, <1>1 DEF Sound
<1>3. PICK e \in E : /\ e.at = next /\ e.u = unit /\ e.f = Index /\ e.f # 0
                     /\ e.n = total[unit] - nfields + 1 /\ End(e) = next'
  BY Zenon, <1>1, <1>2, FieldReadable
<1>4. nfields \in Nat /\ nfields <= total[unit] /\ total[unit] \in Nat /\ unit \in Unit /\ Index \in Field
  BY <1>1, <1>2, FieldReadable, TypedNumbers DEF Readable
<1>5. /\ Laid(E, Len(buf.w)) /\ Chained(E, total, units, Len(buf.w)) /\ Indexed(E, total, 0, 0, buf.w)
      /\ Carries(E, buf.w, copy, want) /\ Kept(E, copy, want) /\ Meant(E, want, mem)
      /\ op = "BULK" => \A u \in Unit, f \in Field : HasEntry(E, u, f)
      /\ \A d \in E : d.f # 0 /\ d.at < next => copy[d.u][d.f] = want[d.u][d.f]
  BY Zenon, <1>2 DEF Reading
<1>6. /\ \A d \in E : d.at < next' => d.at < next \/ d = e
      /\ e.n < total[unit] => \E d \in E : d.at = next' /\ d.u = unit /\ d.n = e.n + 1
      /\ e.n = total[unit] /\ unit + 1 > units => next' = Len(buf.w)
      /\ e.n = total[unit] /\ unit + 1 <= units => \E d \in E : d.at = next' /\ d.u = unit + 1 /\ d.n = 0
  <2>1. e.at = next
    BY <1>3
  <2>2. /\ \A d \in E : d.at < End(e) => d.at < next \/ d = e
        /\ e.n < total[e.u] => \E d \in E : d.at = End(e) /\ d.u = e.u /\ d.n = e.n + 1
        /\ e.n = total[e.u] /\ e.u + 1 > units => End(e) = Len(buf.w)
        /\ e.n = total[e.u] /\ e.u + 1 <= units => \E d \in E : d.at = End(e) /\ d.u = e.u + 1 /\ d.n = 0
    BY <1>2, <2>1, EntryEnds
  <2> QED BY Zenon, <1>3, <2>2
\* What the field holds now.
<1>7. PICK words : /\ words \in Seq(AnyWord) /\ Len(words) = Len(Types(Index))
                   /\ copy' = [copy EXCEPT ![unit][Index] = words]
                   /\ \A k \in 1..Len(Types(Index)) :
                         words[k] = Applied(Types(Index)[k], buf.w[At(next + 1, Index, k)], copy[unit][Index][k])
  BY <1>1, <1>4, ReadWords
<1>8. words = want[unit][Index]
  <2>1. \A k \in 1..Len(Types(Index)) :
            Applied(Types(Index)[k], buf.w[At(next + 1, Index, k)], copy[unit][Index][k]) = want[unit][Index][k]
    BY Zenon, <1>3, <1>5 DEF Carries
  <2>2. want[unit][Index] \in Seq(AnyWord) /\ Len(want[unit][Index]) = Len(Types(Index))
    BY <1>4, TypedParts, FieldWords DEF Objects
  <2>3. \A k \in 1..Len(words) : words[k] = want[unit][Index][k]
    BY Zenon, <1>7, <2>1
  <2> QED BY <1>7, <2>2, <2>3, SeqEqual
<1>9. /\ copy'[unit][Index] = want[unit][Index]
      /\ \A u \in Unit, f \in Field : ~(u = unit /\ f = Index) => copy'[u][f] = copy[u][f]
  <2>1. IsObject(copy)
    BY TypedParts DEF Objects
  <2> HIDE DEF Index
  <2> QED BY <1>4, <1>7, <1>8, <2>1 DEF IsObject
<1>10. \A d \in E : d.u \in Unit /\ (d.f # 0 => d.f \in Field)
  BY <1>5 DEF Laid
<1>11. Carries(E, buf.w, copy', want)
  <2>1. ASSUME NEW d \in E, d.f # 0, NEW k \in 1..Len(Types(d.f))
        PROVE  Applied(Types(d.f)[k], buf.w[At(d.at + 1, d.f, k)], copy'[d.u][d.f][k]) = want[d.u][d.f][k]
    <3>1. Applied(Types(d.f)[k], buf.w[At(d.at + 1, d.f, k)], copy[d.u][d.f][k]) = want[d.u][d.f][k]
      BY Zenon, <1>5, <2>1 DEF Carries
    <3>2. CASE d.u = unit /\ d.f = Index
      <4>1. copy'[d.u][d.f][k] = want[d.u][d.f][k]
        BY Zenon, <1>9, <3>2
      <4>2. Applied(Types(d.f)[k], buf.w[At(d.at + 1, d.f, k)], want[d.u][d.f][k]) = want[d.u][d.f][k]
        BY <3>1, AppliedAgain
      <4> QED BY Zenon, <4>1, <4>2
    <3>3. CASE ~(d.u = unit /\ d.f = Index)
      BY Zenon, <1>9, <1>10, <2>1, <3>1, <3>3
    <3> QED BY Zenon, <3>2, <3>3
  <2> QED BY Zenon, <2>1 DEF Carries
<1>12. Kept(E, copy', want)
  <2>1. HasEntry(E, unit, Index)
    BY Zenon, <1>3 DEF HasEntry
  <2> QED BY Zenon, <1>5, <1>9, <2>1 DEF Kept
<1>13. \A d \in E : d.f # 0 /\ d.at < next' => copy'[d.u][d.f] = want'[d.u][d.f]
  <2>1. ASSUME NEW d \in E, d.f # 0, d.at < next' PROVE copy'[d.u][d.f] = want[d.u][d.f]
    <3>1. CASE d.u = unit /\ d.f = Index
      BY Zenon, <1>9, <3>1
    <3>2. CASE ~(d.u = unit /\ d.f = Index)
      BY Zenon, <1>3, <1>5, <1>6, <1>9, <1>10, <2>1, <3>2
    <3> QED BY Zenon, <3>1, <3>2
  <2> QED BY Zenon, <1>1, <2>1
<1>14. nfields' = 0 => AtUnit(E, unit + 1)'
  <2>1. nfields' = 0 => e.n = total[unit]
    BY <1>1, <1>3, <1>4
  <2> QED BY Zenon, <1>1, <1>6, <2>1 DEF AtUnit
<1>15. nfields' # 0 => /\ nfields' <= total[unit']
                       /\ \E d \in E : d.at = next' /\ d.u = unit' /\ d.n = total[unit'] - nfields' + 1
  <2>1. nfields' # 0 => e.n < total[unit]
    BY <1>1, <1>3, <1>4
  <2>2. nfields' <= total[unit] /\ total[unit] - nfields' + 1 = e.n + 1
    BY <1>1, <1>3, <1>4
  <2> QED BY Zenon, <1>1, <1>6, <2>1, <2>2
<1>16. pc' = "read_field" /\ pc' # "read_unit" /\ pc' # "dead" /\ pc' # "app" /\ pc' \notin {"unit", "field"}
  BY <1>1
<1>17. /\ Laid(E, Len(buf'.w)) /\ Chained(E, total, units, Len(buf'.w)) /\ Indexed(E, total, 0, 0, buf'.w)
       /\ Carries(E, buf'.w, copy', want') /\ Kept(E, copy', want') /\ Meant(E, want', mem')
       /\ op' = "BULK" => \A u \in Unit, f \in Field : HasEntry(E, u, f)
  BY Zenon, <1>1, <1>5, <1>11, <1>12
<1>18. Reading(E, total)'
  BY Zenon, <1>1, <1>13, <1>14, <1>15, <1>16, <1>17, ReadingPrimed
<1> QED BY Zenon, <1>16, <1>18 DEF Sound

\* The assertions of the standby hold, and it reads nothing behind the message.
LEMMA FailsDamaged ==
    ASSUME Typed, Sound, ReadUnitFails \/ ReadFieldFails
    PROVE  Sound'
<1>1. harm' = harm
  BY DEF ReadUnitFails, ReadFieldFails, Die
<1>2. CASE ReadUnitFails
  <2>1. pc = "read_unit" /\ unit <= units /\ ~(Has(1) /\ Word \in Nat)
    BY <1>2 DEF ReadUnitFails
  <2>2. \A E, total : ~Reading(E, total)
    BY Zenon, <2>1, UnitReadable
  <2>3. harm # {}
    BY Zenon, <2>1, <2>2 DEF Sound
  <2> QED BY Zenon, <1>1, <2>3 DEF Sound
<1>3. CASE ReadFieldFails
  <2>1. pc = "read_field" /\ nfields > 0 /\ ~Readable
    BY <1>3 DEF ReadFieldFails
  <2>2. \A E, total : ~Reading(E, total)
    BY Zenon, <2>1, FieldReadable
  <2>3. harm # {}
    BY Zenon, <2>1, <2>2 DEF Sound
  <2> QED BY Zenon, <1>1, <2>3 DEF Sound
<1> QED BY <1>2, <1>3

\* At the end of the message the standby has what it should have.
LEMMA AllRead ==
    ASSUME Typed, Sound, harm = {}, pc = "read_unit", unit > units
    PROVE  copy = want
<1>1. PICK E, total : Reading(E, total)
  BY Zenon DEF Sound
<1>2. units \in Nat /\ unit \in 1..(units + 1) /\ Len(buf.w) \in Nat
  BY TypedNumbers
<1>3. next = Len(buf.w)
  BY Zenon, <1>1 DEF Reading, AtUnit
<1>4. ASSUME NEW d \in E, d.f # 0 PROVE copy[d.u][d.f] = want[d.u][d.f]
  <2>1. d.at \in Nat /\ d.f \in Field \cup {0} /\ End(d) <= Len(buf.w)
    BY <1>1 DEF Reading, Laid, Entry
  <2>2. EntrySpan(d.f) \in Nat \ {0}
    BY <2>1, EntrySpanNat
  <2>3. d.at < next
    BY <1>2, <1>3, <2>1, <2>2 DEF End
  <2> QED BY Zenon, <1>1, <1>4, <2>3 DEF Reading
<1>5. ASSUME NEW u \in Unit, NEW f \in Field PROVE copy[u][f] = want[u][f]
  <2>1. f # 0
    BY NFieldsNat
  <2>2. CASE HasEntry(E, u, f)
    BY Zenon, <1>4, <2>1, <2>2 DEF HasEntry
  <2>3. CASE ~HasEntry(E, u, f)
    BY Zenon, <1>1, <2>3 DEF Reading, Kept
  <2> QED BY <2>2, <2>3
<1>6. copy \in [Unit -> [Field -> Seq(AnyWord)]] /\ want \in [Unit -> [Field -> Seq(AnyWord)]]
  BY TypedParts DEF Objects, IsObject
<1> QED BY <1>5, <1>6

LEMMA DoneSound ==
    ASSUME Typed, Sound, Done
    PROVE  Sound'
<1> SUFFICES ASSUME harm' = {} PROVE Sound'
  BY Zenon DEF Sound
<1>1. pc = "read_unit" /\ unit > units /\ copy' = copy /\ want' = want /\ harm' = harm
  BY DEF Done, sides
<1>2. copy = want
  BY <1>1, AllRead
<1>3. pc' = "app" /\ pc' # "dead" /\ pc' \notin {"unit", "field", "read_unit", "read_field"}
  BY DEF Done
<1> QED BY Zenon, <1>1, <1>2, <1>3 DEF Sound

LEMMA StoreSound ==
    ASSUME Sound, NEW u \in Unit, NEW f \in Field, NEW k, NEW w, Store(u, f, k, w)
    PROVE  Sound'
<1>1. pc = "app" /\ pc' = pc /\ copy' = copy /\ want' = want /\ harm' = harm
  BY DEF Store
<1>2. pc' # "dead" /\ pc' \notin {"unit", "field", "read_unit", "read_field"}
  BY <1>1
<1> QED BY Zenon, <1>1, <1>2 DEF Sound

LEMMA StutterSound ==
    ASSUME Sound, UNCHANGED vars
    PROVE  Sound'
<1>1. /\ units' = units /\ mem' = mem /\ copy' = copy /\ want' = want /\ buf' = buf /\ pc' = pc /\ op' = op
      /\ unit' = unit /\ field' = field /\ nfields' = nfields /\ count' = count /\ next' = next /\ harm' = harm
      /\ Unit' = Unit
  BY DEF vars, sides, counters, Unit
<1>2. ASSUME NEW E, NEW total, Writing(E, total) PROVE Writing(E, total)'
  <2>1. Last' = Last /\ Open' = Open /\ \A u, f : Past(u, f)' <=> Past(u, f)
    BY Zenon, <1>1 DEF Last, Open, Past
  <2>2. AllPut(E)' /\ CountOpen(E, total)'
    BY Zenon, <1>1, <1>2, <2>1 DEF Writing, AllPut, CountOpen
  <2>3. \A e \in E : Past(e.u, e.f)'
    BY Zenon, <1>2, <2>1 DEF Writing
  <2>4. /\ Laid(E, Len(buf'.w)) /\ Chained(E, total, Last', Len(buf'.w)) /\ Indexed(E, total, Open', count', buf'.w)
        /\ Carries(E, buf'.w, copy', want') /\ Kept(E, copy', want') /\ Meant(E, want', mem')
    BY Zenon, <1>1, <1>2, <2>1 DEF Writing
  <2> QED BY Zenon, <1>1, <2>2, <2>3, <2>4, WritingPrimed
<1>3. ASSUME NEW E, NEW total, Reading(E, total) PROVE Reading(E, total)'
  <2>1. (pc' = "read_unit" => AtUnit(E, unit)') /\ (pc' = "read_field" /\ nfields' = 0 => AtUnit(E, unit + 1)')
    <3>1. AtUnit(E, unit)' <=> AtUnit(E, unit)
      BY Zenon, <1>1 DEF AtUnit
    <3>2. AtUnit(E, unit + 1)' <=> AtUnit(E, unit + 1)
      BY Zenon, <1>1 DEF AtUnit
    <3> QED BY Zenon, <1>1, <1>3, <3>1, <3>2 DEF Reading
  <2>2. /\ Laid(E, Len(buf'.w)) /\ Chained(E, total, units, Len(buf'.w)) /\ Indexed(E, total, 0, 0, buf'.w)
        /\ Carries(E, buf'.w, copy', want') /\ Kept(E, copy', want') /\ Meant(E, want', mem')
        /\ op' = "BULK" => \A u \in Unit, f \in Field : HasEntry(E, u, f)
        /\ \A e \in E : e.f # 0 /\ e.at < next' => copy'[e.u][e.f] = want'[e.u][e.f]
        /\ pc' = "read_field" /\ nfields' # 0 =>
              /\ nfields' <= total[unit']
              /\ \E e \in E : e.at = next' /\ e.u = unit' /\ e.n = total[unit'] - nfields' + 1
    BY Zenon, <1>1, <1>3 DEF Reading
  <2> QED BY Zenon, <1>1, <2>1, <2>2, ReadingPrimed
<1> QED BY Zenon, <1>1, <1>2, <1>3 DEF Sound

LEMMA SoundInit == Init => Sound
BY DEF Init, Sound

LEMMA SoundStep == Typed /\ Sound /\ [Next]_vars => Sound'
<1> SUFFICES ASSUME Typed, Sound, [Next]_vars PROVE Sound'
  OBVIOUS
<1>1. ASSUME NEW u \in Unit, NEW f \in Field, NEW k \in DOMAIN Types(f),
             NEW w \in Contents(Types(f)[k]), Store(u, f, k, w)
      PROVE  Sound'
  BY <1>1, StoreSound
<1>2. ASSUME NEW o \in {"UPDATE", "BULK"}, Start(o) PROVE Sound'
  BY <1>2, StartSound
<1>3. ASSUME NEW fill \in Junk, FieldPut(fill) PROVE Sound'
  BY <1>3, FieldPutSound
<1>4. CASE UnitStart
  BY <1>4, UnitStartSound
<1>5. CASE FieldSkip
  BY <1>5, FieldSkipSound
<1>6. CASE UnitEnd
  BY <1>6, UnitEndSound
<1>7. CASE Send
  BY <1>7, SendSound
<1>8. CASE ReadUnit
  BY <1>8, ReadUnitSound
<1>9. CASE ReadUnitFails \/ ReadFieldFails
  BY <1>9, FailsDamaged
<1>10. CASE ReadUnitEnd
  BY <1>10, ReadUnitEndSound
<1>11. CASE ReadField
  BY <1>11, ReadFieldSound
<1>12. CASE Done
  BY <1>12, DoneSound
<1>13. CASE UNCHANGED vars
  BY <1>13, StutterSound
<1> QED BY <1>1, <1>2, <1>3, <1>4, <1>5, <1>6, <1>7, <1>8, <1>9, <1>10, <1>11, <1>12, <1>13 DEF Next

LEMMA SoundAlways == Spec => [](Typed /\ Sound)
<1>1. Init => Typed /\ Sound
  BY TypedInit, SoundInit
<1>2. Typed /\ Sound /\ [Next]_vars => (Typed /\ Sound)'
  BY TypedStep, SoundStep
<1> QED BY <1>1, <1>2, PTL DEF Spec

\* An undamaged message is read to its end, and leaves the standby with exactly
\* the fields that the active put into it, for any structure, any number of
\* units and any size of the buffer.
THEOREM FaithfulHolds == Spec => []Faithful
<1>1. Typed /\ Sound => Faithful
  BY Zenon DEF Sound, Faithful
<1> QED BY <1>1, SoundAlways, PTL

\* What an undamaged bulk sync leaves behind is the memory of the active, up to
\* pointers to memory without a record.
THEOREM BulkRefreshesHolds == Spec => []BulkRefreshes
<1>1. ASSUME Typed, Sound PROVE BulkRefreshes
  <2> SUFFICES ASSUME op = "BULK", pc = "read_unit", unit > units, harm = {},
                      NEW u \in Unit, NEW f \in Field, NEW k \in DOMAIN mem[u][f]
               PROVE  mem[u][f][k] \in {Foreign, copy[u][f][k]}
    BY Zenon DEF BulkRefreshes
  <2>1. PICK E, total : Reading(E, total)
    BY Zenon, <1>1 DEF Sound
  <2>2. PICK e \in E : e.u = u /\ e.f = f
    BY Zenon, <2>1 DEF Reading, HasEntry
  <2>3. f # 0
    BY NFieldsNat
  <2>4. k \in 1..Len(Types(f))
    BY <1>1, TypedParts, FieldWords DEF Objects
  <2>5. mem[u][f][k] \in {Foreign, want[u][f][k]}
    BY Zenon, <2>1, <2>2, <2>3, <2>4 DEF Reading, Meant
  <2>6. copy = want
    BY Zenon, <1>1, AllRead
  <2> QED BY Zenon, <2>5, <2>6
<1> QED BY <1>1, SoundAlways, PTL
=============================================================================
