---------------------------- MODULE Flatten_proofs ----------------------------
(***************************************************************************)
(* Lemmas about concatenating the parts of a sequence, for the definitions *)
(* that read an answer off a sequence of events piece by piece.            *)
(*                                                                         *)
(* FlattenSeq is a recursive function.  Its recursion equation, and what   *)
(* it computes on an extended or a concatenated argument, are proved by    *)
(* induction, written as membership in a set of naturals (Induct).         *)
(*                                                                         *)
(* FoldLeft is another one.  The last section takes the three folds of a   *)
(* turn (Receive, Flush, Pump) apart into chains of single steps, from     *)
(* which follows that they may stop and go on anywhere (FoldConcat).       *)
(***************************************************************************)
EXTENDS Integers, SequencesExt, SequenceTheorems, WellFoundedInduction, Pipeline, TLAPS

-----------------------------------------------------------------------------
(* Induction over the naturals                                             *)

Less == OpToRel(<, Nat)

\* A nonempty set of naturals has a least element.
LEMMA Least ==
  ASSUME NEW T, T \subseteq Nat, T # {}
  PROVE  \E x \in T : \A y \in T : x =< y
<1>1. \A x, y \in Nat : <<x, y>> \in Less <=> x < y
  BY DEF Less, OpToRel
<1>2. IsWellFoundedOn(Less, Nat)
  BY NatLessThanWellFounded DEF Less
<1>3. PICK x \in T : \A y \in T : <<y, x>> \notin Less
  BY <1>2, WFMin
<1>4. ASSUME NEW y \in T PROVE x =< y
  <2>1. ~(y < x) /\ x \in Nat /\ y \in Nat
    BY <1>1, <1>3
  <2> QED BY <2>1
<1> QED BY <1>4

\* A set with 0 and with the successor of each of its naturals has them all.
LEMMA Induct ==
  ASSUME NEW T, 0 \in T, \A n \in Nat : n \in T => n + 1 \in T
  PROVE  Nat \subseteq T
<1> SUFFICES ASSUME Nat \ T # {} PROVE FALSE
  OBVIOUS
<1>1. PICK x \in Nat \ T : \A y \in Nat \ T : x =< y
  BY Least
<1>2. x # 0 /\ x - 1 \in Nat
  BY <1>1
<1>3. x - 1 \in T
  BY <1>1, <1>2
<1>4. (x - 1) + 1 \in T
  BY <1>2, <1>3
<1> QED BY <1>1, <1>2, <1>4

\* A set with the empty sequence and with the extensions of each of its sequences
\* has them all.
LEMMA SeqInduct ==
  ASSUME NEW S, NEW T, <<>> \in T,
         \A s \in Seq(S), e \in S : s \in T => Append(s, e) \in T
  PROVE  Seq(S) \subseteq T
<1> DEFINE N == { n \in Nat : \A s \in Seq(S) : Len(s) = n => s \in T }
<1>1. 0 \in N
  BY EmptySeq
<1>2. ASSUME NEW n \in Nat, n \in N PROVE n + 1 \in N
  <2> SUFFICES ASSUME NEW s \in Seq(S), Len(s) = n + 1 PROVE s \in T
    OBVIOUS
  <2>1. s # <<>>
    BY EmptySeq
  <2>2. PICK t \in Seq(S), e \in S : s = Append(t, e)
    BY <2>1, SequenceEmptyOrAppend
  <2>3. Len(s) = Len(t) + 1 /\ Len(t) \in Nat
    BY <2>2, AppendProperties, LenProperties
  <2>4. Len(t) = n
    BY <2>3
  <2> QED BY <1>2, <2>2, <2>4
<1> HIDE DEF N
<1>3. Nat \subseteq N
  BY <1>1, <1>2, Induct
<1> QED BY <1>3, LenProperties DEF N

-----------------------------------------------------------------------------
(* Concatenation                                                           *)

\* By name, so that the provers rearrange it without looking into sequences.
Cat(a, b) == a \o b

\* Two sequences over S, one after the other, are a sequence over S.
LEMMA CatType ==
  ASSUME NEW S, NEW a \in Seq(S), NEW b \in Seq(S)
  PROVE  Cat(a, b) \in Seq(S)
  BY ConcatProperties DEF Cat

\* Of three it does not matter which two are put together first.
LEMMA CatAssociative ==
  ASSUME NEW S, NEW a \in Seq(S), NEW b \in Seq(S), NEW c \in Seq(S)
  PROVE  Cat(Cat(a, b), c) = Cat(a, Cat(b, c))
  BY ConcatAssociative, SMTT(60) DEF Cat

\* Nor of four.
LEMMA CatRegroup ==
  ASSUME NEW S, NEW a \in Seq(S), NEW b \in Seq(S), NEW c \in Seq(S), NEW d \in Seq(S)
  PROVE  /\ Cat(a, Cat(Cat(b, c), d)) = Cat(Cat(a, b), Cat(c, d))
         /\ Cat(Cat(a, Cat(b, c)), d) = Cat(a, Cat(b, Cat(c, d)))
<1>1. Cat(b, c) \in Seq(S) /\ Cat(c, d) \in Seq(S)
  BY CatType
<1>2. Cat(Cat(b, c), d) = Cat(b, Cat(c, d))
  BY CatAssociative
<1>3. Cat(Cat(a, b), Cat(c, d)) = Cat(a, Cat(b, Cat(c, d)))
  BY <1>1, CatAssociative
<1>4. Cat(Cat(a, Cat(b, c)), d) = Cat(a, Cat(Cat(b, c), d))
  BY <1>1, CatAssociative
<1> QED BY <1>2, <1>3, <1>4

-----------------------------------------------------------------------------
(* FlattenSeq                                                              *)

\* f[i] is the concatenation of the first i parts.
Flattens(ss, f) ==
  f = [i \in 1..Len(ss) |-> IF i = 1 THEN ss[i] ELSE f[i - 1] \o ss[i]]

\* The next value of that function, for one more part.
Extended(ss, f, s) ==
  [i \in 1..(Len(ss) + 1) |->
     IF i =< Len(ss) THEN f[i] ELSE IF Len(ss) = 0 THEN s ELSE f[Len(ss)] \o s]

\* The parts of a sequence of sequences.
LEMMA PartsOf ==
  ASSUME NEW S, NEW ss \in Seq(Seq(S))
  PROVE  Len(ss) \in Nat /\ \A i \in 1..Len(ss) : ss[i] \in Seq(S)
  BY LenProperties, ElementOfSeq

\* What flattens an extended sequence, from what flattens the sequence.
LEMMA FlattensExtend ==
  ASSUME NEW S, NEW ss \in Seq(Seq(S)), NEW s \in Seq(S), NEW f, Flattens(ss, f)
  PROVE  Flattens(Append(ss, s), Extended(ss, f, s))
<1> DEFINE n == Len(ss) + 1
           tt == Append(ss, s)
           g == Extended(ss, f, s)
<1>1. /\ Len(ss) \in Nat /\ Len(tt) = n
      /\ \A i \in 1..Len(ss) : tt[i] = ss[i]
      /\ tt[n] = s
  BY AppendProperties, PartsOf
<1>2. ASSUME NEW i \in 1..n
      PROVE  g[i] = IF i = 1 THEN tt[i] ELSE g[i - 1] \o tt[i]
  <2> HIDE DEF tt
  <2>1. CASE i =< Len(ss)
    <3>1. i \in 1..Len(ss) /\ g[i] = f[i]
      BY <1>1, <2>1 DEF Extended
    <3>2. f[i] = IF i = 1 THEN ss[i] ELSE f[i - 1] \o ss[i]
      BY <3>1 DEF Flattens
    <3>3. i # 1 => g[i - 1] = f[i - 1]
      BY <1>1, <2>1 DEF Extended
    <3> QED BY <1>1, <3>1, <3>2, <3>3
  <2>2. CASE i = n
    <3>1. i # 1 => Len(ss) # 0 /\ i - 1 = Len(ss) /\ g[i - 1] = f[i - 1]
      BY <1>1, <2>2 DEF Extended
    <3>2. g[i] = IF Len(ss) = 0 THEN s ELSE f[Len(ss)] \o s
      BY <1>1, <2>2 DEF Extended
    <3> QED BY <1>1, <2>2, <3>1, <3>2
  <2> QED BY <1>1, <2>1, <2>2
<1>3. g = [i \in 1..n |-> g[i]]
  BY DEF Extended
<1> HIDE DEF g, tt
<1>4. g = [i \in 1..n |-> IF i = 1 THEN tt[i] ELSE g[i - 1] \o tt[i]]
  BY <1>2, <1>3
<1>5. Flattens(tt, g)
  BY <1>1, <1>4 DEF Flattens
<1> QED BY <1>5 DEF g, tt

\* There is such a function, whose values are sequences...
LEMMA FlattensExists ==
  ASSUME NEW S, NEW ss \in Seq(Seq(S))
  PROVE  \E f : Flattens(ss, f) /\ \A i \in 1..Len(ss) : f[i] \in Seq(S)
<1> DEFINE R == Seq(S)
           Good(tt) == \E f : Flattens(tt, f) /\ \A i \in 1..Len(tt) : f[i] \in R
           T == { tt \in Seq(R) : Good(tt) }
<1>1. <<>> \in T
  <2>1. Flattens(<<>>, <<>>)
    BY DEF Flattens
  <2> QED BY <2>1, EmptySeq
<1>2. ASSUME NEW tt \in Seq(R), NEW s \in R, tt \in T
      PROVE  Append(tt, s) \in T
  <2>1. PICK f : Flattens(tt, f) /\ \A i \in 1..Len(tt) : f[i] \in R
    BY <1>2
  <2> DEFINE g == Extended(tt, f, s)
  <2>2. Flattens(Append(tt, s), g)
    BY <1>2, <2>1, FlattensExtend
  <2>3. Len(tt) \in Nat /\ Len(Append(tt, s)) = Len(tt) + 1 /\ Append(tt, s) \in Seq(R)
    BY <1>2, AppendProperties, PartsOf
  <2>4. Len(tt) # 0 => f[Len(tt)] \in R /\ f[Len(tt)] \o s \in R
    BY <1>2, <2>1, <2>3, ConcatProperties
  <2>5. \A i \in 1..(Len(tt) + 1) : g[i] \in R
    BY <1>2, <2>1, <2>3, <2>4 DEF Extended
  <2> HIDE DEF g, R
  <2> QED BY <2>2, <2>3, <2>5
<1>3. ss \in T
  <2> HIDE DEF R, T
  <2>1. Seq(R) \subseteq T
    BY <1>1, <1>2, SeqInduct
  <2> QED BY <2>1 DEF R
<1> QED BY <1>3

\* ...and only one.
LEMMA FlattensUnique ==
  ASSUME NEW ss, Len(ss) \in Nat, NEW f, NEW g, Flattens(ss, f), Flattens(ss, g)
  PROVE  f = g
<1> DEFINE T == { n \in Nat : n \in 1..Len(ss) => f[n] = g[n] }
<1>1. 0 \in T
  OBVIOUS
<1>2. ASSUME NEW n \in Nat, n \in T PROVE n + 1 \in T
  <2> SUFFICES ASSUME n + 1 \in 1..Len(ss) PROVE f[n + 1] = g[n + 1]
    OBVIOUS
  <2>1. n + 1 # 1 => (n + 1) - 1 \in 1..Len(ss) /\ f[(n + 1) - 1] = g[(n + 1) - 1]
    BY <1>2
  <2>2. f[n + 1] = IF n + 1 = 1 THEN ss[n + 1] ELSE f[(n + 1) - 1] \o ss[n + 1]
    BY DEF Flattens
  <2>3. g[n + 1] = IF n + 1 = 1 THEN ss[n + 1] ELSE g[(n + 1) - 1] \o ss[n + 1]
    BY DEF Flattens
  <2> QED BY <2>1, <2>2, <2>3
<1> HIDE DEF T
<1>3. Nat \subseteq T
  BY <1>1, <1>2, Induct
<1>4. \A i \in 1..Len(ss) : f[i] = g[i]
  BY <1>3 DEF T
<1>5. /\ f = [i \in 1..Len(ss) |-> f[i]]
      /\ g = [i \in 1..Len(ss) |-> g[i]]
  BY DEF Flattens
<1> QED BY <1>4, <1>5

\* FlattenSeq(ss) is the last value of the function that flattens ss.
LEMMA FlattenValue ==
  ASSUME NEW ss, Len(ss) \in Nat, NEW f, Flattens(ss, f)
  PROVE  Len(ss) # 0 => FlattenSeq(ss) = f[Len(ss)]
<1> DEFINE c == CHOOSE g : Flattens(ss, g)
<1>1. Flattens(ss, c)
  OBVIOUS
<1>2. Len(ss) # 0 => FlattenSeq(ss) = c[Len(ss)]
  BY DEF FlattenSeq, Flattens
<1> HIDE DEF c
<1>3. c = f
  BY <1>1, FlattensUnique
<1> QED BY <1>2, <1>3

\* Nothing, flattened.
LEMMA FlattenEmpty == FlattenSeq(<<>>) = <<>>
  BY DEF FlattenSeq

\* Sequences over S, flattened, are a sequence over S.
LEMMA FlattenType ==
  ASSUME NEW S, NEW ss \in Seq(Seq(S))
  PROVE  FlattenSeq(ss) \in Seq(S)
<1>1. PICK f : Flattens(ss, f) /\ \A i \in 1..Len(ss) : f[i] \in Seq(S)
  BY FlattensExists
<1>2. CASE Len(ss) = 0
  <2>1. ss = <<>>
    BY <1>2, EmptySeq
  <2> QED BY <2>1, FlattenEmpty, EmptySeq
<1>3. CASE Len(ss) # 0
  BY <1>1, <1>3, PartsOf, FlattenValue
<1> QED BY <1>2, <1>3

\* One more part is concatenated at the end.
LEMMA FlattenAppend ==
  ASSUME NEW S, NEW ss \in Seq(Seq(S)), NEW s \in Seq(S)
  PROVE  FlattenSeq(Append(ss, s)) = FlattenSeq(ss) \o s
<1>1. PICK f : Flattens(ss, f) /\ \A i \in 1..Len(ss) : f[i] \in Seq(S)
  BY FlattensExists
<1> DEFINE n == Len(ss) + 1
           g == Extended(ss, f, s)
<1>2. Flattens(Append(ss, s), g)
  BY <1>1, FlattensExtend
<1>3. Len(Append(ss, s)) = n /\ Len(ss) \in Nat /\ n \in Nat
  BY AppendProperties, PartsOf
<1>4. g[n] = IF Len(ss) = 0 THEN s ELSE f[Len(ss)] \o s
  BY <1>3 DEF Extended
<1>5. FlattenSeq(Append(ss, s)) = g[n]
  <2> DEFINE tt == Append(ss, s)
  <2>1. Flattens(tt, g) /\ Len(tt) = n /\ n \in Nat /\ n # 0
    BY <1>2, <1>3
  <2> HIDE DEF g, n, tt
  <2>2. FlattenSeq(tt) = g[n]
    BY <2>1, FlattenValue
  <2> QED BY <2>2 DEF tt
<1> HIDE DEF g
<1>6. CASE Len(ss) = 0
  <2>1. FlattenSeq(ss) = <<>>
    BY <1>6, EmptySeq, FlattenEmpty
  <2> QED BY <1>4, <1>5, <1>6, <2>1, ConcatEmptySeq
<1>7. CASE Len(ss) # 0
  <2>1. FlattenSeq(ss) = f[Len(ss)]
    BY <1>1, <1>3, <1>7, FlattenValue
  <2> QED BY <1>4, <1>5, <1>7, <2>1
<1> QED BY <1>6, <1>7

\* The last part is extended.
LEMMA FlattenLast ==
  ASSUME NEW S, NEW ss \in Seq(Seq(S)), NEW tt \in Seq(Seq(S)), NEW c \in Seq(S),
         ss # <<>>, Len(tt) = Len(ss),
         \A i \in 1..Len(ss) : tt[i] = IF i = Len(ss) THEN ss[i] \o c ELSE ss[i]
  PROVE  FlattenSeq(tt) = FlattenSeq(ss) \o c
<1> DEFINE R == Seq(S)
           n == Len(ss)
<1>1. PICK front \in Seq(R), x \in R : ss = Append(front, x)
  <2>1. ss \in Seq(R)
    OBVIOUS
  <2> HIDE DEF R
  <2> QED BY <2>1, SequenceEmptyOrAppend
<1>2. /\ Len(front) \in Nat /\ n = Len(front) + 1 /\ ss[n] = x
      /\ \A i \in 1..Len(front) : ss[i] = front[i]
  BY <1>1, AppendProperties, LenProperties
<1>3. x \o c \in R
  BY <1>1, ConcatProperties
<1> DEFINE y == x \o c
           uu == Append(front, y)
<1>4. /\ uu \in Seq(R) /\ Len(uu) = n /\ uu[n] = y
      /\ \A i \in 1..Len(front) : uu[i] = front[i]
  <2> HIDE DEF R, y
  <2> QED BY <1>1, <1>2, <1>3, AppendProperties DEF y
<1>5. tt = uu
  <2>1. \A i \in 1..n : i = n \/ i \in 1..Len(front)
    BY <1>2
  <2>2. \A i \in 1..n : tt[i] = uu[i]
    BY <1>2, <1>4, <2>1
  <2> HIDE DEF R, uu
  <2> QED BY <1>4, <2>2, SeqEqual DEF R
<1>6. FlattenSeq(uu) = FlattenSeq(front) \o y
  BY <1>1, <1>3, FlattenAppend
<1>7. FlattenSeq(ss) = FlattenSeq(front) \o x
  BY <1>1, FlattenAppend
<1>8. (FlattenSeq(front) \o x) \o c = FlattenSeq(front) \o (x \o c)
  <2> DEFINE f == FlattenSeq(front)
  <2>1. f \in Seq(S) /\ x \in Seq(S) /\ c \in Seq(S)
    BY <1>1, FlattenType
  <2> HIDE DEF f, R, y, uu, n
  <2>2. Cat(Cat(f, x), c) = Cat(f, Cat(x, c))
    BY <2>1, CatAssociative
  <2>3. (f \o x) \o c = f \o (x \o c)
    BY <2>2 DEF Cat
  <2> QED BY <2>3 DEF f
<1> QED BY <1>5, <1>6, <1>7, <1>8

-----------------------------------------------------------------------------
(* What a sequence says, element by element                                *)

\* What an element of S says: a sequence of elements of T.
Reading(S, T) == [S -> Seq(T)]

\* The concatenation of f[e] for the elements e of s, in order.
Gather(f, s) == FlattenSeq([i \in 1..Len(s) |-> f[s[i]]])

\* What is gathered before it is flattened.
LEMMA GatherParts ==
  ASSUME NEW S, NEW T, NEW f \in Reading(S, T), NEW s \in Seq(S)
  PROVE  [i \in 1..Len(s) |-> f[s[i]]] \in Seq(Seq(T))
<1>1. Len(s) \in Nat /\ \A i \in 1..Len(s) : f[s[i]] \in Seq(T)
  BY LenProperties, ElementOfSeq DEF Reading
<1> DEFINE g == [i \in 1..Len(s) |-> f[s[i]]]
           n == Len(s)
           R == Seq(T)
<1>2. g \in [1..n -> R] /\ n \in Nat
  BY <1>1
<1> HIDE DEF g, n, R
<1>3. g \in Seq(R)
  BY <1>2, SeqDef
<1> QED BY <1>3 DEF g, R

\* A reading of a sequence has the type of the readings of its elements.
LEMMA GatherType ==
  ASSUME NEW S, NEW T, NEW f \in Reading(S, T), NEW s \in Seq(S)
  PROVE  Gather(f, s) \in Seq(T)
<1> DEFINE parts == [i \in 1..Len(s) |-> f[s[i]]]
<1>1. parts \in Seq(Seq(T))
  BY GatherParts
<1> HIDE DEF parts
<1>2. FlattenSeq(parts) \in Seq(T)
  BY <1>1, FlattenType
<1> QED BY <1>2 DEF parts, Gather

\* Nothing is read off nothing.
LEMMA GatherEmpty ==
  ASSUME NEW f
  PROVE  Gather(f, <<>>) = <<>>
<1>1. [i \in 1..Len(<<>>) |-> f[<<>>[i]]] = <<>>
  OBVIOUS
<1> QED BY <1>1, FlattenEmpty DEF Gather

\* A sequence is read from left to right.
LEMMA GatherAppend ==
  ASSUME NEW S, NEW T, NEW f \in Reading(S, T), NEW s \in Seq(S), NEW e \in S
  PROVE  Gather(f, Append(s, e)) = Gather(f, s) \o f[e]
<1> DEFINE parts == [i \in 1..Len(s) |-> f[s[i]]]
           ext == Append(s, e)
           longer == [i \in 1..Len(ext) |-> f[ext[i]]]
<1>1. parts \in Seq(Seq(T)) /\ f[e] \in Seq(T)
  BY GatherParts DEF Reading
<1>2. longer \in Seq(Seq(T))
  <2>1. ext \in Seq(S)
    BY AppendProperties
  <2> HIDE DEF ext
  <2> QED BY <2>1, GatherParts
<1>3. /\ Len(s) \in Nat /\ Len(Append(s, e)) = Len(s) + 1
      /\ \A i \in 1..Len(s) : Append(s, e)[i] = s[i]
      /\ Append(s, e)[Len(s) + 1] = e
  BY AppendProperties, LenProperties
<1>4. Len(parts) = Len(s) /\ Len(longer) = Len(s) + 1
  BY <1>3
<1>5. /\ \A i \in 1..Len(s) : longer[i] = parts[i]
      /\ longer[Len(s) + 1] = f[e]
  BY <1>3
<1> DEFINE R == Seq(T)
           x == f[e]
<1>6. parts \in Seq(R) /\ longer \in Seq(R) /\ x \in R
  BY <1>1, <1>2
<1> HIDE DEF parts, longer, R
<1>7. /\ Append(parts, x) \in Seq(R) /\ Len(Append(parts, x)) = Len(s) + 1
      /\ \A i \in 1..Len(s) : Append(parts, x)[i] = parts[i]
      /\ Append(parts, x)[Len(s) + 1] = x
  BY <1>4, <1>6, AppendProperties
<1>8. longer = Append(parts, x)
  <2>1. \A i \in 1..(Len(s) + 1) : longer[i] = Append(parts, x)[i]
    BY <1>3, <1>5, <1>7
  <2> QED BY <1>4, <1>6, <1>7, <2>1, SeqEqual
<1>9. FlattenSeq(longer) = FlattenSeq(parts) \o x
  BY <1>6, <1>8, FlattenAppend DEF R
<1> QED BY <1>9 DEF parts, longer, Gather

\* The reading of a single element.
LEMMA GatherOne ==
  ASSUME NEW S, NEW T, NEW f \in Reading(S, T), NEW e \in S
  PROVE  Gather(f, <<e>>) = f[e]
<1> DEFINE z == <<>>
<1>1. z \in Seq(S) /\ Append(z, e) = <<e>>
  OBVIOUS
<1>2. Gather(f, z) = <<>>
  BY GatherEmpty
<1>3. <<>> \o f[e] = f[e]
  BY ConcatEmptySeq DEF Reading
<1> HIDE DEF z
<1>4. Gather(f, Append(z, e)) = Gather(f, z) \o f[e]
  BY <1>1, GatherAppend
<1> QED BY <1>1, <1>2, <1>3, <1>4

\* The reading of two sequences, one after the other.
LEMMA GatherConcat ==
  ASSUME NEW S, NEW T, NEW f \in Reading(S, T), NEW s \in Seq(S), NEW t \in Seq(S)
  PROVE  Gather(f, s \o t) = Gather(f, s) \o Gather(f, t)
<1> DEFINE P == { u \in Seq(S) : Gather(f, s \o u) = Gather(f, s) \o Gather(f, u) }
<1>1. Gather(f, s) \in Seq(T)
  BY GatherType
<1>2. <<>> \in P
  BY <1>1, GatherEmpty, ConcatEmptySeq, EmptySeq
<1>3. ASSUME NEW u \in Seq(S), NEW e \in S, u \in P
      PROVE  Append(u, e) \in P
  <2>1. s \o u \in Seq(S) /\ Append(u, e) \in Seq(S)
    BY ConcatProperties, AppendProperties
  <2>2. s \o Append(u, e) = Append(s \o u, e)
    <3>1. <<e>> \in Seq(S)
      OBVIOUS
    <3>2. Append(u, e) = u \o <<e>> /\ Append(s \o u, e) = (s \o u) \o <<e>>
      BY <2>1, AppendIsConcat
    <3> QED BY <3>1, <3>2, ConcatAssociative
  <2>3. Gather(f, Append(s \o u, e)) = (Gather(f, s) \o Gather(f, u)) \o f[e]
    BY <1>3, <2>1, GatherAppend
  <2>4. Gather(f, u) \in Seq(T) /\ f[e] \in Seq(T)
    BY GatherType DEF Reading
  <2>5. (Gather(f, s) \o Gather(f, u)) \o f[e] = Gather(f, s) \o (Gather(f, u) \o f[e])
    <3> DEFINE a == Gather(f, s)
               b == Gather(f, u)
               c == f[e]
    <3>1. a \in Seq(T) /\ b \in Seq(T) /\ c \in Seq(T)
      BY <1>1, <2>4
    <3> HIDE DEF a, b, c
    <3>2. Cat(Cat(a, b), c) = Cat(a, Cat(b, c))
      BY <3>1, CatAssociative
    <3>3. (a \o b) \o c = a \o (b \o c)
      BY <3>2 DEF Cat
    <3> QED BY <3>3 DEF a, b, c
  <2>6. Gather(f, Append(u, e)) = Gather(f, u) \o f[e]
    BY GatherAppend
  <2> QED BY <2>1, <2>2, <2>3, <2>5, <2>6
<1> HIDE DEF P
<1>4. Seq(S) \subseteq P
  BY <1>2, <1>3, SeqInduct
<1> QED BY <1>4 DEF P

\* A nonempty sequence begins with what its head says.
LEMMA GatherHead ==
  ASSUME NEW S, NEW T, NEW f \in Reading(S, T), NEW s \in Seq(S), s # <<>>
  PROVE  Gather(f, s) = f[Head(s)] \o Gather(f, Tail(s))
<1> DEFINE h == <<Head(s)>>
           t == Tail(s)
<1>1. Head(s) \in S /\ t \in Seq(S) /\ h \in Seq(S)
  BY HeadTailProperties
<1>2. s = h \o t
  OBVIOUS
<1>3. Gather(f, h) = f[Head(s)]
  BY <1>1, GatherOne
<1> HIDE DEF h, t
<1>4. Gather(f, h \o t) = Gather(f, h) \o Gather(f, t)
  BY <1>1, GatherConcat
<1> QED BY <1>2, <1>3, <1>4 DEF t

\* Only what f says of the elements matters.
LEMMA GatherSame ==
  ASSUME NEW S, NEW s \in Seq(S), NEW f, NEW g, \A i \in 1..Len(s) : f[s[i]] = g[s[i]]
  PROVE  Gather(f, s) = Gather(g, s)
<1>1. [i \in 1..Len(s) |-> f[s[i]]] = [i \in 1..Len(s) |-> g[s[i]]]
  OBVIOUS
<1> QED BY <1>1 DEF Gather

\* Elements that say nothing.
LEMMA GatherNone ==
  ASSUME NEW S, NEW T, NEW f \in Reading(S, T), NEW s \in Seq(S),
         \A i \in 1..Len(s) : f[s[i]] = <<>>
  PROVE  Gather(f, s) = <<>>
<1> DEFINE g == [e \in S |-> <<>>]
           P == { u \in Seq(S) : Gather(g, u) = <<>> }
<1>1. g \in Reading(S, T)
  BY EmptySeq DEF Reading
<1>2. <<>> \in P
  BY GatherEmpty, EmptySeq
<1>3. ASSUME NEW u \in Seq(S), NEW e \in S, u \in P
      PROVE  Append(u, e) \in P
  <2>1. Append(u, e) \in Seq(S) /\ g[e] = <<>>
    BY AppendProperties
  <2> HIDE DEF g
  <2>2. Gather(g, Append(u, e)) = Gather(g, u) \o g[e]
    BY <1>1, <1>3, GatherAppend
  <2>3. Gather(g, u) = <<>> /\ <<>> \o <<>> = <<>>
    BY <1>3
  <2> QED BY <2>1, <2>2, <2>3
<1>4. \A i \in 1..Len(s) : f[s[i]] = g[s[i]]
  BY ElementOfSeq
<1> HIDE DEF P, g
<1>5. Seq(S) \subseteq P
  BY <1>2, <1>3, SeqInduct
<1>6. Gather(f, s) = Gather(g, s)
  BY <1>4, GatherSame
<1> QED BY <1>5, <1>6 DEF P

\* Elements that say at most one thing each.
LEMMA GatherShort ==
  ASSUME NEW S, NEW T, NEW f \in Reading(S, T), NEW s \in Seq(S),
         \A i \in 1..Len(s) : Len(f[s[i]]) =< 1
  PROVE  Len(Gather(f, s)) =< Len(s)
<1> DEFINE g == [e \in S |-> IF Len(f[e]) =< 1 THEN f[e] ELSE <<>>]
           P == { u \in Seq(S) : Len(Gather(g, u)) =< Len(u) }
<1>1. g \in Reading(S, T) /\ \A e \in S : Len(g[e]) \in Nat /\ Len(g[e]) =< 1
  BY EmptySeq, LenProperties DEF Reading
<1>2. <<>> \in P
  BY GatherEmpty, EmptySeq
<1>3. ASSUME NEW u \in Seq(S), NEW e \in S, u \in P
      PROVE  Append(u, e) \in P
  <2>1. Append(u, e) \in Seq(S) /\ Len(Append(u, e)) = Len(u) + 1 /\ Len(u) \in Nat
    BY AppendProperties, LenProperties
  <2>2. Len(Gather(g, u)) =< Len(u)
    BY <1>3
  <2>3. Len(g[e]) \in Nat /\ Len(g[e]) =< 1
    BY <1>1
  <2> HIDE DEF g
  <2>4. Gather(g, u) \in Seq(T) /\ g[e] \in Seq(T)
    BY <1>1, GatherType DEF Reading
  <2>5. Len(Gather(g, u)) \in Nat
    BY <2>4, LenProperties
  <2>6. Gather(g, Append(u, e)) = Gather(g, u) \o g[e]
    BY <1>1, GatherAppend
  <2>7. Len(Gather(g, u) \o g[e]) = Len(Gather(g, u)) + Len(g[e])
    BY <2>4, ConcatProperties
  <2>8. Len(Gather(g, u)) + Len(g[e]) =< Len(u) + 1
    BY <2>1, <2>2, <2>3, <2>5
  <2> QED BY <2>1, <2>6, <2>7, <2>8
<1>4. \A i \in 1..Len(s) : f[s[i]] = g[s[i]]
  BY ElementOfSeq
<1> HIDE DEF P, g
<1>5. Seq(S) \subseteq P
  BY <1>2, <1>3, SeqInduct
<1>6. Gather(f, s) = Gather(g, s)
  BY <1>4, GatherSame
<1> QED BY <1>5, <1>6 DEF P

\* The rules of a reading.
LEMMA GatherRules ==
  ASSUME NEW S, NEW T, NEW f \in Reading(S, T), NEW q \in Seq(S), NEW r \in Seq(S)
  PROVE  /\ Gather(f, q) \in Seq(T)
         /\ Gather(f, q \o r) = Gather(f, q) \o Gather(f, r)
         /\ q # <<>> => Gather(f, q) = f[Head(q)] \o Gather(f, Tail(q))
         /\ (\A i \in 1..Len(q) : f[q[i]] = <<>>) => Gather(f, q) = <<>>
         /\ (\A i \in 1..Len(q) : Len(f[q[i]]) =< 1) => Len(Gather(f, q)) =< Len(q)
  BY GatherType, GatherConcat, GatherHead, GatherNone, GatherShort

\* Readings compose.
LEMMA GatherGather ==
  ASSUME NEW S, NEW T, NEW U, NEW f \in Reading(T, U), NEW g \in Reading(S, T), NEW s \in Seq(S)
  PROVE  Gather(f, Gather(g, s)) = Gather([e \in S |-> Gather(f, g[e])], s)
<1> DEFINE h == [e \in S |-> Gather(f, g[e])]
           P == { u \in Seq(S) : Gather(f, Gather(g, u)) = Gather(h, u) }
<1>1. h \in Reading(S, U) /\ \A e \in S : h[e] = Gather(f, g[e])
  BY GatherType DEF Reading
<1> HIDE DEF h
<1>2. <<>> \in P
  BY GatherEmpty, EmptySeq
<1>3. ASSUME NEW u \in Seq(S), NEW e \in S, u \in P
      PROVE  Append(u, e) \in P
  <2>1. Append(u, e) \in Seq(S)
    BY AppendProperties
  <2>2. Gather(g, Append(u, e)) = Gather(g, u) \o g[e]
    BY GatherAppend
  <2>3. Gather(g, u) \in Seq(T) /\ g[e] \in Seq(T)
    BY GatherType DEF Reading
  <2>4. Gather(f, Gather(g, u) \o g[e]) = Gather(f, Gather(g, u)) \o Gather(f, g[e])
    BY <2>3, GatherConcat, SMTT(60)
  <2>5. Gather(h, Append(u, e)) = Gather(h, u) \o h[e]
    BY <1>1, GatherAppend
  <2>6. Gather(f, Gather(g, u)) = Gather(h, u)
    BY <1>3
  <2> QED BY <1>1, <2>1, <2>2, <2>4, <2>5, <2>6
<1> HIDE DEF P
<1>4. Seq(S) \subseteq P
  BY <1>2, <1>3, SeqInduct
<1> QED BY <1>4 DEF P, h

\* A reading whose values are in R, where it is used, gives a sequence of R.
LEMMA GatherWithin ==
  ASSUME NEW S, NEW T, NEW f \in Reading(S, T), NEW s \in Seq(S), NEW R,
         \A i \in 1..Len(s) : f[s[i]] \in Seq(R)
  PROVE  Gather(f, s) \in Seq(R)
<1> DEFINE g == [e \in S |-> IF f[e] \in Seq(R) THEN f[e] ELSE <<>>]
<1>1. g \in Reading(S, R)
  BY EmptySeq DEF Reading
<1>2. \A i \in 1..Len(s) : f[s[i]] = g[s[i]]
  BY ElementOfSeq
<1> HIDE DEF g
<1>3. Gather(f, s) = Gather(g, s)
  BY <1>2, GatherSame
<1> QED BY <1>1, <1>3, GatherType

-----------------------------------------------------------------------------
(* The folds                                                               *)

\* FoldLeft is a recursive function over the sets of positions still to be folded.
LEMMA MaxOfPrefix ==
  ASSUME NEW n \in Nat, NEW s \in SUBSET (1..n), n \in s
  PROVE  Max(s) = n
<1>1. \A x \in s : (\A y \in s : x >= y) => x = n
  BY SMT
<1>2. n \in s /\ \A y \in s : n >= y
  OBVIOUS
<1> QED BY <1>1, <1>2 DEF Max

\* The three operators that are folded.
Step(op, a, x) ==
  CASE op = "receive" -> Receive(a, x)
    [] op = "flush"   -> Flush(a, x)
    [] op = "pump"    -> Pump(a, x)

Folds(op, b, e, n, g) ==
  g = [s \in SUBSET (1..n) |-> IF s = {} THEN b ELSE Step(op, g[s \ {Max(s)}], e[Max(s)])]

\* The partial results of a fold exist.
LEMMA FoldsExist ==
  ASSUME NEW op, NEW b, NEW e, NEW n \in Nat
  PROVE  \E g : Folds(op, b, e, n, g)
<1> DEFINE T == { m \in Nat : \E g : Folds(op, b, e, m, g) }
<1>1. 0 \in T
  <2>1. Folds(op, b, e, 0, [s \in SUBSET (1..0) |-> b])
    <3>1. \A s \in SUBSET (1..0) : s = {}
      OBVIOUS
    <3> QED BY <3>1 DEF Folds
  <2> QED BY <2>1
<1>2. ASSUME NEW m \in Nat, m \in T PROVE m + 1 \in T
  <2>1. PICK g : Folds(op, b, e, m, g)
    BY <1>2
  <2> DEFINE h == [s \in SUBSET (1..(m + 1)) |->
                     IF m + 1 \in s THEN Step(op, g[s \ {m + 1}], e[m + 1]) ELSE g[s]]
  <2>2. ASSUME NEW s \in SUBSET (1..(m + 1))
        PROVE  h[s] = IF s = {} THEN b ELSE Step(op, h[s \ {Max(s)}], e[Max(s)])
    <3>1. CASE m + 1 \in s
      <4>1. Max(s) = m + 1
        BY <3>1, MaxOfPrefix
      <4>2. s \ {m + 1} \in SUBSET (1..(m + 1)) /\ m + 1 \notin s \ {m + 1}
        OBVIOUS
      <4>3. h[s \ {m + 1}] = g[s \ {m + 1}]
        BY <4>2
      <4>4. h[s] = Step(op, g[s \ {m + 1}], e[m + 1])
        BY <3>1
      <4> HIDE DEF h
      <4> QED BY <3>1, <4>1, <4>3, <4>4
    <3>2. CASE m + 1 \notin s
      <4>1. s \in SUBSET (1..m)
        BY <3>2
      <4>2. g[s] = IF s = {} THEN b ELSE Step(op, g[s \ {Max(s)}], e[Max(s)])
        BY <2>1, <4>1 DEF Folds
      <4>3. m + 1 \notin s \ {Max(s)} /\ s \ {Max(s)} \in SUBSET (1..(m + 1))
        BY <3>2
      <4>4. h[s] = g[s] /\ h[s \ {Max(s)}] = g[s \ {Max(s)}]
        BY <3>2, <4>3
      <4> HIDE DEF h
      <4> QED BY <4>2, <4>4
    <3> QED BY <3>1, <3>2
  <2>3. h = [s \in SUBSET (1..(m + 1)) |-> h[s]]
    OBVIOUS
  <2> HIDE DEF h
  <2>4. Folds(op, b, e, m + 1, h)
    BY <2>2, <2>3 DEF Folds
  <2> QED BY <2>4
<1> HIDE DEF T
<1>3. Nat \subseteq T
  BY <1>1, <1>2, Induct
<1> QED BY <1>3 DEF T

\* The first i elements are folded when the last of them is.
LEMMA FoldsBy ==
  ASSUME NEW op, NEW b, NEW e, NEW n \in Nat, NEW g, Folds(op, b, e, n, g)
  PROVE  /\ g[1..0] = b
         /\ \A i \in 1..n : g[1..i] = Step(op, g[1..(i - 1)], e[i])
<1>1. g[1..0] = b
  BY DEF Folds
<1>2. ASSUME NEW i \in 1..n PROVE g[1..i] = Step(op, g[1..(i - 1)], e[i])
  <2>1. 1..i \in SUBSET (1..n) /\ i \in 1..i /\ 1..i # {}
    OBVIOUS
  <2>2. Max(1..i) = i
    BY <2>1, MaxOfPrefix
  <2>3. (1..i) \ {i} = 1..(i - 1)
    OBVIOUS
  <2>4. g[1..i] = Step(op, g[(1..i) \ {i}], e[i])
    BY <2>1, <2>2 DEF Folds
  <2> QED BY <2>3, <2>4
<1> QED BY <1>1, <1>2

\* A fold of n elements, as a chain of n + 1 values: each is the one before with the
\* operation applied to the next element.
Chain(op, b, e, n, last) ==
  \E g : /\ g[0] = b
         /\ \A i \in 1..n : g[i] = Step(op, g[i - 1], e[i])
         /\ last = g[n]

\* A fold is one.
LEMMA FoldsChain ==
  ASSUME NEW op, NEW b, NEW e, NEW n \in Nat, NEW g, Folds(op, b, e, n, g)
  PROVE  Chain(op, b, e, n, g[1..n])
<1> DEFINE h == [i \in 0..n |-> g[1..i]]
<1>1. /\ g[1..0] = b
      /\ \A i \in 1..n : g[1..i] = Step(op, g[1..(i - 1)], e[i])
  BY FoldsBy
<1>2. h[0] = b /\ h[n] = g[1..n]
  BY <1>1
<1>3. ASSUME NEW i \in 1..n PROVE h[i] = Step(op, h[i - 1], e[i])
  <2>1. i \in 0..n /\ i - 1 \in 0..n
    OBVIOUS
  <2>2. h[i] = g[1..i] /\ h[i - 1] = g[1..(i - 1)]
    BY <2>1
  <2> QED BY <1>1, <2>2
<1> HIDE DEF h
<1> QED BY <1>2, <1>3 DEF Chain

\* The client receives a batch of events one by one.
LEMMA FoldReceive ==
  ASSUME NEW b, NEW e, NEW n \in Nat, DOMAIN e = 1..n
  PROVE  Chain("receive", b, e, n, FoldLeft(Receive, b, e))
<1> DEFINE g == CHOOSE f : Folds("receive", b, e, n, f)
<1>1. Folds("receive", b, e, n, g)
  BY FoldsExist
<1>2. \A f : Folds("receive", b, e, n, f) <=>
        f = [s \in SUBSET (1..n) |-> IF s = {} THEN b ELSE Receive(f[s \ {Max(s)}], e[Max(s)])]
  BY DEF Folds, Step
<1>3. g = CHOOSE f : f = [s \in SUBSET (1..n) |->
                           IF s = {} THEN b ELSE Receive(f[s \ {Max(s)}], e[Max(s)])]
  BY <1>2
<1>4. FoldLeft(Receive, b, e) = g[1..n]
  BY <1>3 DEF FoldLeft, MapThenFoldSet
<1> HIDE DEF g
<1>5. Chain("receive", b, e, n, g[1..n])
  BY <1>1, FoldsChain
<1> QED BY <1>4, <1>5

\* The adapter translates the frames of an event one by one.
LEMMA FoldFlush ==
  ASSUME NEW b, NEW e, NEW n \in Nat, DOMAIN e = 1..n
  PROVE  Chain("flush", b, e, n, FoldLeft(Flush, b, e))
<1> DEFINE g == CHOOSE f : Folds("flush", b, e, n, f)
<1>1. Folds("flush", b, e, n, g)
  BY FoldsExist
<1>2. \A f : Folds("flush", b, e, n, f) <=>
        f = [s \in SUBSET (1..n) |-> IF s = {} THEN b ELSE Flush(f[s \ {Max(s)}], e[Max(s)])]
  BY DEF Folds, Step
<1>3. g = CHOOSE f : f = [s \in SUBSET (1..n) |->
                           IF s = {} THEN b ELSE Flush(f[s \ {Max(s)}], e[Max(s)])]
  BY <1>2
<1>4. FoldLeft(Flush, b, e) = g[1..n]
  BY <1>3 DEF FoldLeft, MapThenFoldSet
<1> HIDE DEF g
<1>5. Chain("flush", b, e, n, g[1..n])
  BY <1>1, FoldsChain
<1> QED BY <1>4, <1>5

\* The events of a content block are pumped one by one.
LEMMA FoldPump ==
  ASSUME NEW b, NEW e, NEW n \in Nat, DOMAIN e = 1..n
  PROVE  Chain("pump", b, e, n, FoldLeft(Pump, b, e))
<1> DEFINE g == CHOOSE f : Folds("pump", b, e, n, f)
<1>1. Folds("pump", b, e, n, g)
  BY FoldsExist
<1>2. \A f : Folds("pump", b, e, n, f) <=>
        f = [s \in SUBSET (1..n) |-> IF s = {} THEN b ELSE Pump(f[s \ {Max(s)}], e[Max(s)])]
  BY DEF Folds, Step
<1>3. g = CHOOSE f : f = [s \in SUBSET (1..n) |->
                           IF s = {} THEN b ELSE Pump(f[s \ {Max(s)}], e[Max(s)])]
  BY <1>2
<1>4. FoldLeft(Pump, b, e) = g[1..n]
  BY <1>3 DEF FoldLeft, MapThenFoldSet
<1> HIDE DEF g
<1>5. Chain("pump", b, e, n, g[1..n])
  BY <1>1, FoldsChain
<1> QED BY <1>4, <1>5

\* Short folds, spelt out.
LEMMA ChainIs ==
  ASSUME NEW op, NEW b, NEW e, NEW last
  PROVE  /\ Chain(op, b, e, 0, last) => last = b
         /\ Chain(op, b, e, 1, last) => last = Step(op, b, e[1])
         /\ Chain(op, b, e, 2, last) => last = Step(op, Step(op, b, e[1]), e[2])
         /\ Chain(op, b, e, 3, last) => last = Step(op, Step(op, Step(op, b, e[1]), e[2]), e[3])
         /\ Chain(op, b, e, 4, last) =>
              last = Step(op, Step(op, Step(op, Step(op, b, e[1]), e[2]), e[3]), e[4])
<1>1. ASSUME NEW n \in 1..4, NEW g, \A i \in 1..n : g[i] = Step(op, g[i - 1], e[i])
      PROVE  /\ g[1] = Step(op, g[0], e[1])
             /\ n > 1 => g[2] = Step(op, g[1], e[2])
             /\ n > 2 => g[3] = Step(op, g[2], e[3])
             /\ n > 3 => g[4] = Step(op, g[3], e[4])
  <2>1. 1 - 1 = 0 /\ 2 - 1 = 1 /\ 3 - 1 = 2 /\ 4 - 1 = 3
    OBVIOUS
  <2>2. 1 \in 1..n /\ (n > 1 => 2 \in 1..n) /\ (n > 2 => 3 \in 1..n) /\ (n > 3 => 4 \in 1..n)
    OBVIOUS
  <2> QED BY <1>1, <2>1, <2>2
<1>2. Chain(op, b, e, 0, last) => last = b
  BY DEF Chain
<1>3. Chain(op, b, e, 1, last) => last = Step(op, b, e[1])
  <2>1. 1 \in 1..4
    OBVIOUS
  <2> QED BY <1>1, <2>1 DEF Chain
<1>4. Chain(op, b, e, 2, last) => last = Step(op, Step(op, b, e[1]), e[2])
  <2>1. 2 \in 1..4 /\ 2 > 1
    OBVIOUS
  <2> QED BY <1>1, <2>1 DEF Chain
<1>5. Chain(op, b, e, 3, last) => last = Step(op, Step(op, Step(op, b, e[1]), e[2]), e[3])
  <2>1. 3 \in 1..4 /\ 3 > 1 /\ 3 > 2
    OBVIOUS
  <2> QED BY <1>1, <2>1 DEF Chain
<1>6. Chain(op, b, e, 4, last) =>
              last = Step(op, Step(op, Step(op, Step(op, b, e[1]), e[2]), e[3]), e[4])
  <2>1. 4 \in 1..4 /\ 4 > 1 /\ 4 > 2 /\ 4 > 3
    OBVIOUS
  <2> QED BY <1>1, <2>1 DEF Chain
<1> QED BY <1>2, <1>3, <1>4, <1>5, <1>6

\* A chain has one end.
LEMMA ChainEnd ==
  ASSUME NEW op, NEW b, NEW e, NEW d, NEW n \in Nat, NEW x, NEW y,
         Chain(op, b, e, n, x), Chain(op, b, d, n, y), \A i \in 1..n : e[i] = d[i]
  PROVE  x = y
<1>1. PICK g : g[0] = b /\ (\A i \in 1..n : g[i] = Step(op, g[i - 1], e[i])) /\ x = g[n]
  BY DEF Chain
<1>2. PICK h : h[0] = b /\ (\A i \in 1..n : h[i] = Step(op, h[i - 1], d[i])) /\ y = h[n]
  BY DEF Chain
<1> DEFINE T == { m \in Nat : m =< n => g[m] = h[m] }
<1>3. 0 \in T
  BY <1>1, <1>2
<1>4. ASSUME NEW m \in Nat, m \in T PROVE m + 1 \in T
  <2> SUFFICES ASSUME m + 1 =< n PROVE g[m + 1] = h[m + 1]
    OBVIOUS
  <2>1. m + 1 \in 1..n /\ (m + 1) - 1 = m /\ g[m] = h[m]
    BY <1>4
  <2> QED BY <1>1, <1>2, <2>1
<1> HIDE DEF T
<1>5. Nat \subseteq T
  BY <1>3, <1>4, Induct
<1>6. n \in T
  BY <1>5
<1> QED BY <1>1, <1>2, <1>6 DEF T

\* Two chains, the second of which goes on where the first one ends.
LEMMA ChainGoesOn ==
  ASSUME NEW op, NEW b, NEW s, NEW t, NEW u, NEW m \in Nat, NEW n \in Nat, NEW x, NEW y,
         Chain(op, b, s, m, x), Chain(op, x, t, n, y),
         \A i \in 1..m : u[i] = s[i], \A i \in 1..n : u[m + i] = t[i]
  PROVE  Chain(op, b, u, m + n, y)
<1>1. PICK g : g[0] = b /\ (\A i \in 1..m : g[i] = Step(op, g[i - 1], s[i])) /\ x = g[m]
  BY DEF Chain
<1>2. PICK h : h[0] = x /\ (\A i \in 1..n : h[i] = Step(op, h[i - 1], t[i])) /\ y = h[n]
  BY DEF Chain
<1> DEFINE f == [i \in 0..(m + n) |-> IF i =< m THEN g[i] ELSE h[i - m]]
<1>3. \A i \in 0..m : f[i] = g[i]
  OBVIOUS
<1>4. \A i \in 0..n : f[m + i] = h[i]
  <2> SUFFICES ASSUME NEW i \in 0..n PROVE f[m + i] = h[i]
    OBVIOUS
  <2>1. CASE i = 0
    BY <1>1, <1>2, <2>1
  <2>2. CASE i # 0
    <3>1. m + i \in 0..(m + n) /\ ~(m + i =< m) /\ (m + i) - m = i
      BY <2>2
    <3> QED BY <3>1
  <2> QED BY <2>1, <2>2
<1> HIDE DEF f
<1>5. ASSUME NEW i \in 1..(m + n) PROVE f[i] = Step(op, f[i - 1], u[i])
  <2>1. CASE i =< m
    <3>1. i \in 1..m /\ i \in 0..m /\ i - 1 \in 0..m
      BY <2>1
    <3> QED BY <1>1, <1>3, <3>1
  <2>2. CASE i > m
    <3> DEFINE k == i - m
    <3>1. k \in 1..n /\ k \in 0..n /\ k - 1 \in 0..n /\ i = m + k /\ i - 1 = m + (k - 1)
      BY <2>2
    <3> HIDE DEF k
    <3>2. f[m + k] = h[k] /\ f[m + (k - 1)] = h[k - 1] /\ u[m + k] = t[k]
      BY <1>4, <3>1
    <3>3. h[k] = Step(op, h[k - 1], t[k])
      BY <1>2, <3>1
    <3> QED BY <3>1, <3>2, <3>3
  <2> QED BY <2>1, <2>2
<1>6. f[0] = b /\ f[m + n] = y
  <2>1. 0 \in 0..m /\ n \in 0..n
    OBVIOUS
  <2> QED BY <1>1, <1>2, <1>3, <1>4, <2>1
<1> QED BY <1>5, <1>6 DEF Chain

\* The three folds under one name.
Fold(op, b, s) ==
  CASE op = "receive" -> FoldLeft(Receive, b, s)
    [] op = "flush"   -> FoldLeft(Flush, b, s)
    [] op = "pump"    -> FoldLeft(Pump, b, s)
Folded == {"receive", "flush", "pump"}

\* Each is a chain along the sequence it folds.
LEMMA FoldChain ==
  ASSUME NEW op \in Folded, NEW b, NEW S, NEW s \in Seq(S)
  PROVE  Chain(op, b, s, Len(s), Fold(op, b, s))
<1>1. Len(s) \in Nat /\ DOMAIN s = 1..Len(s)
  BY LenProperties
<1>2. CASE op = "receive"
  <2>1. Fold(op, b, s) = FoldLeft(Receive, b, s)
    BY <1>2 DEF Fold
  <2> QED BY <1>1, <1>2, <2>1, FoldReceive
<1>3. CASE op = "flush"
  <2>1. Fold(op, b, s) = FoldLeft(Flush, b, s)
    BY <1>3 DEF Fold
  <2> QED BY <1>1, <1>3, <2>1, FoldFlush
<1>4. CASE op = "pump"
  <2>1. Fold(op, b, s) = FoldLeft(Pump, b, s)
    BY <1>4 DEF Fold
  <2> QED BY <1>1, <1>4, <2>1, FoldPump
<1> QED BY <1>2, <1>3, <1>4 DEF Folded

\* A fold stops and goes on anywhere.
LEMMA FoldConcat ==
  ASSUME NEW op \in Folded, NEW b, NEW S, NEW s \in Seq(S), NEW t \in Seq(S)
  PROVE  Fold(op, b, s \o t) = Fold(op, Fold(op, b, s), t)
<1> DEFINE u == s \o t
           x == Fold(op, b, s)
           y == Fold(op, x, t)
           m == Len(s)
           n == Len(t)
<1>1. /\ u \in Seq(S) /\ m \in Nat /\ n \in Nat /\ Len(u) = m + n
      /\ (\A i \in 1..m : u[i] = s[i]) /\ (\A i \in 1..n : u[m + i] = t[i])
  OBVIOUS
<1>2. Chain(op, b, s, m, x) /\ Chain(op, x, t, n, y)
  BY FoldChain
<1>3. Chain(op, b, u, m + n, Fold(op, b, u))
  BY <1>1, FoldChain
<1> SUFFICES Fold(op, b, u) = y
  OBVIOUS
<1> HIDE DEF u, x, y, m, n
<1>4. Chain(op, b, u, m + n, y)
  BY <1>1, <1>2, ChainGoesOn
<1>5. m + n \in Nat
  BY <1>1
<1> QED BY <1>3, <1>4, <1>5, ChainEnd

\* A fold of nothing, and of one element.
LEMMA FoldShort ==
  ASSUME NEW op \in Folded, NEW b, NEW e
  PROVE  Fold(op, b, <<>>) = b /\ Fold(op, b, <<e>>) = Step(op, b, e)
<1> DEFINE z == <<>>
           o == <<e>>
           S == {e}
<1>1. z \in Seq(S) /\ Len(z) = 0 /\ o \in Seq(S) /\ Len(o) = 1 /\ o[1] = e
  OBVIOUS
<1> HIDE DEF z, o, S
<1>2. Chain(op, b, z, 0, Fold(op, b, z)) /\ Chain(op, b, o, 1, Fold(op, b, o))
  BY <1>1, FoldChain
<1>3. Fold(op, b, z) = b /\ Fold(op, b, o) = Step(op, b, o[1])
  BY <1>2, ChainIs
<1> QED BY <1>1, <1>3 DEF z, o

\* A fold takes the first element first.
LEMMA FoldHead ==
  ASSUME NEW op \in Folded, NEW b, NEW S, NEW s \in Seq(S), s # <<>>
  PROVE  Fold(op, b, s) = Fold(op, Step(op, b, Head(s)), Tail(s))
<1> DEFINE h == <<Head(s)>>
           t == Tail(s)
<1>1. h \in Seq(S) /\ t \in Seq(S) /\ s = h \o t
  BY HeadTailProperties
<1>2. Fold(op, b, h) = Step(op, b, Head(s))
  BY FoldShort
<1> SUFFICES Fold(op, b, s) = Fold(op, Step(op, b, Head(s)), t)
  OBVIOUS
<1> HIDE DEF h, t
<1>3. Fold(op, b, h \o t) = Fold(op, Fold(op, b, h), t)
  BY <1>1, FoldConcat
<1> QED BY <1>1, <1>2, <1>3

=============================================================================
