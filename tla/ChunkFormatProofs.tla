-------------------------- MODULE ChunkFormatProofs --------------------------
(***************************************************************************)
(* Proofs about the chunk format, for all records, limits and secrets:     *)
(* what the coding of a record does, what a stager makes of the records it *)
(* is given, and what verify and restore find in its chunks.               *)
(*                                                                         *)
(* The formats are made of sequences of every length, so their lemmas need *)
(* induction.  It is had from least elements: a set of sequences that has  *)
(* the empty one, and with a sequence every one longer by an element, has  *)
(* them all (ByAppend).                                                    *)
(***************************************************************************)
EXTENDS ChunkFormat, SequenceTheorems, WellFoundedInduction, TLAPS

(* Induction *)

\* A set of numbers has a least one.
LEMMA LeastNumber ==
    ASSUME NEW T \in SUBSET Nat, T # {}
    PROVE  \E n \in T : \A m \in T : n <= m
<1> DEFINE R == OpToRel(<, Nat)
<1>1. IsWellFoundedOn(R, Nat)
  BY NatLessThanWellFounded
<1>2. \A m, n \in Nat : <<m, n>> \in R <=> m < n
  BY DEF OpToRel
<1> HIDE DEF R
<1>3. PICK n \in T : \A m \in T : ~ (<<m, n>> \in R)
  BY <1>1, WFMin
<1>4. \A m \in T : ~ (m < n)
  BY <1>2, <1>3
<1> QED
  BY <1>4

\* What holds of the empty sequence, and of a sequence with one more element
\* when it holds of the sequence, holds of all.
LEMMA ByAppend ==
    ASSUME NEW S, NEW T, <<>> \in T,
           \A s \in Seq(S), e \in S : s \in T => Append(s, e) \in T
    PROVE  \A s \in Seq(S) : s \in T
<1> SUFFICES ASSUME \E s \in Seq(S) : s \notin T PROVE FALSE
  OBVIOUS
<1> DEFINE L == {Len(s) : s \in {t \in Seq(S) : t \notin T}}
<1>1. L \in SUBSET Nat /\ L # {}
  BY LenProperties
<1>2. PICK n \in L : \A m \in L : n <= m
  BY <1>1, LeastNumber
<1>3. PICK s \in Seq(S) : s \notin T /\ Len(s) = n
  BY <1>2
<1>4. PICK t \in Seq(S), e \in S : s = Append(t, e)
  BY <1>3, SequenceEmptyOrAppend
<1>5. Len(t) \in Nat /\ Len(t) + 1 = n
  BY <1>3, <1>4, AppendProperties, LenProperties
<1>6. t \notin T
  BY <1>3, <1>4
<1>7. Len(t) \in L
  BY <1>6
<1> QED
  BY <1>1, <1>2, <1>5, <1>7

(* Flattened sequences *)

\* f has the first i of seqs, one after the other, at every i.
Flattens(f, seqs) ==
    f = [i \in 1..Len(seqs) |-> IF i = 1 THEN seqs[i] ELSE f[i - 1] \o seqs[i]]

\* There is such an f, or FlattenSeq would be an arbitrary value.
LEMMA FlattenExists ==
    ASSUME NEW S
    PROVE  \A seqs \in Seq(S) : \E f : Flattens(f, seqs)
<1> DEFINE T == {seqs \in Seq(S) : \E f : Flattens(f, seqs)}
<1>1. <<>> \in T
  <2>1. Flattens(<<>>, <<>>)
    BY SMT DEF Flattens
  <2> QED
    BY <2>1, EmptySeq
<1>2. ASSUME NEW s \in Seq(S), NEW e \in S, s \in T
      PROVE  Append(s, e) \in T
  <2> DEFINE t == Append(s, e)
  <2>1. PICK f : Flattens(f, s)
    BY <1>2
  <2> DEFINE g == [i \in 1..Len(t) |-> IF i = 1 THEN t[i]
                                       ELSE IF i <= Len(s) THEN f[i] ELSE f[i - 1] \o t[i]]
  <2>2. /\ t \in Seq(S) /\ Len(t) = Len(s) + 1 /\ Len(s) \in Nat
        /\ \A i \in 1..Len(s) : t[i] = s[i]
    BY AppendProperties, LenProperties
  <2> HIDE DEF t
  <2>3. \A i \in 1..Len(s) : g[i] = f[i]
    BY <2>1, <2>2 DEF Flattens
  <2>4. ASSUME NEW i \in 1..Len(t), i # 1, i <= Len(s)
        PROVE  g[i] = g[i - 1] \o t[i]
    <3>1. i \in 1..Len(s) /\ i - 1 \in 1..Len(s)
      BY <2>2, <2>4
    <3>2. f[i] = f[i - 1] \o s[i]
      BY <2>1, <2>4, <3>1 DEF Flattens
    <3> QED
      BY <2>2, <2>3, <3>1, <3>2
  <2>5. ASSUME NEW i \in 1..Len(t), i # 1, ~ i <= Len(s)
        PROVE  g[i] = g[i - 1] \o t[i]
    <3>1. i - 1 \in 1..Len(s)
      BY <2>2, <2>5
    <3> QED
      BY <2>3, <2>5, <3>1
  <2>6. Flattens(g, t)
    BY <2>4, <2>5 DEF Flattens
  <2> QED
    BY <2>2, <2>6 DEF t
<1> QED
  BY <1>1, <1>2, ByAppend

\* What f has for a sequence does not depend on an element behind it.
LEMMA FlattenUnique ==
    ASSUME NEW S, NEW s \in Seq(S), NEW e \in S, NEW f, NEW g,
           Flattens(f, s), Flattens(g, Append(s, e))
    PROVE  \A i \in 1..Len(s) : f[i] = g[i]
<1> DEFINE t == Append(s, e)
<1>1. /\ Len(t) = Len(s) + 1 /\ Len(s) \in Nat
      /\ \A i \in 1..Len(s) : t[i] = s[i]
  BY AppendProperties, LenProperties
<1>2. \A i \in 1..Len(s) : f[i] = IF i = 1 THEN s[i] ELSE f[i - 1] \o s[i]
  BY DEF Flattens
<1>3. \A i \in 1..Len(t) : g[i] = IF i = 1 THEN t[i] ELSE g[i - 1] \o t[i]
  BY DEF Flattens
<1> HIDE DEF t
<1> DEFINE T == {i \in 1..Len(s) : f[i] # g[i]}
<1> SUFFICES ASSUME T # {} PROVE FALSE
  OBVIOUS
<1>4. PICK n \in T : \A m \in T : n <= m
  <2>1. T \in SUBSET Nat
    BY <1>1
  <2> QED
    BY <2>1, LeastNumber
<1>5. n # 1
  BY <1>1, <1>2, <1>3
<1>6. n - 1 \in 1..Len(s) /\ n \in 1..Len(t)
  BY <1>1, <1>5
<1>7. f[n - 1] = g[n - 1]
  BY <1>4, <1>6
<1> QED
  BY <1>1, <1>2, <1>3, <1>5, <1>6, <1>7

\* FlattenSeq is the last value of such an f.
LEMMA FlattenValue ==
    ASSUME NEW S, NEW s \in Seq(S), s # <<>>
    PROVE  \E f : Flattens(f, s) /\ FlattenSeq(s) = f[Len(s)]
<1>1. Len(s) # 0
  BY EmptySeq
<1> DEFINE F == CHOOSE f : Flattens(f, s)
<1>2. Flattens(F, s)
  BY FlattenExists
<1>3. FlattenSeq(s) = F[Len(s)]
  BY <1>1 DEF FlattenSeq, Flattens
<1> QED
  BY <1>2, <1>3

\* The equation of FlattenSeq for one element more.
LEMMA FlattenAppend ==
    ASSUME NEW E, NEW s \in Seq(Seq(E)), NEW e \in Seq(E),
           FlattenSeq(s) \in Seq(E)
    PROVE  FlattenSeq(Append(s, e)) = FlattenSeq(s) \o e
<1> DEFINE t == Append(s, e)
<1>1. /\ t \in Seq(Seq(E)) /\ t # <<>>
      /\ Len(t) = Len(s) + 1 /\ Len(s) \in Nat
      /\ t[Len(s) + 1] = e
  BY AppendProperties, LenProperties
<1>2. PICK g : Flattens(g, t) /\ FlattenSeq(t) = g[Len(t)]
  BY <1>1, FlattenValue
<1>3. CASE s = <<>>
  <2>1. Len(s) = 0
    BY <1>3, EmptySeq
  <2>2. g[Len(t)] = e
    BY <1>1, <1>2, <2>1 DEF Flattens
  <2>3. FlattenSeq(s) = <<>>
    BY <1>3, <2>1 DEF FlattenSeq
  <2> QED
    BY <1>2, <2>2, <2>3, ConcatEmptySeq
<1>4. CASE s # <<>>
  <2>1. Len(s) # 0
    BY <1>4, EmptySeq
  <2>2. PICK f : Flattens(f, s) /\ FlattenSeq(s) = f[Len(s)]
    BY <1>4, FlattenValue
  <2>3. \A i \in 1..Len(s) : f[i] = g[i]
    BY <1>2, <2>2, FlattenUnique
  <2>4. f[Len(s)] = g[Len(s)]
    BY <1>1, <2>1, <2>3
  <2>5. Len(t) \in 1..Len(t) /\ Len(t) # 1 /\ Len(t) - 1 = Len(s)
    BY <1>1, <2>1
  <2>6. g[Len(t)] = g[Len(t) - 1] \o t[Len(t)]
    BY <1>2, <2>5 DEF Flattens
  <2> QED
    BY <1>1, <1>2, <2>2, <2>4, <2>5, <2>6
<1> QED
  BY <1>3, <1>4

\* Of no sequences it is the empty one.
LEMMA FlattenEmpty == FlattenSeq(<<>>) = <<>>
BY DEF FlattenSeq

\* It is a sequence of their elements.
LEMMA FlattenType ==
    ASSUME NEW E
    PROVE  \A s \in Seq(Seq(E)) : FlattenSeq(s) \in Seq(E)
<1> DEFINE T == {s \in Seq(Seq(E)) : FlattenSeq(s) \in Seq(E)}
<1>1. <<>> \in T
  BY FlattenEmpty, EmptySeq
<1>2. ASSUME NEW s \in Seq(Seq(E)), NEW e \in Seq(E), s \in T
      PROVE  Append(s, e) \in T
  <2>1. FlattenSeq(Append(s, e)) = FlattenSeq(s) \o e
    BY <1>2, FlattenAppend
  <2> QED
    BY <1>2, <2>1, ConcatProperties, AppendProperties
<1> QED
  BY <1>1, <1>2, ByAppend

\* Of one more sequence it is one more text.
LEMMA FlattenMore ==
    ASSUME NEW E, NEW s \in Seq(Seq(E)), NEW e \in Seq(E)
    PROVE  FlattenSeq(Append(s, e)) = FlattenSeq(s) \o e
BY FlattenType, FlattenAppend

\* Of one sequence it is that one.
LEMMA FlattenOne ==
    ASSUME NEW E, NEW e \in Seq(E)
    PROVE  FlattenSeq(<<e>>) = e
<1>1. <<e>> = Append(<<>>, e)
  OBVIOUS
<1>2. <<>> \in Seq(Seq(E))
  BY EmptySeq
<1>3. FlattenSeq(Append(<<>>, e)) = FlattenSeq(<<>>) \o e
  BY <1>2, FlattenMore
<1>4. <<>> \o e = e
  BY ConcatEmptySeq
<1> QED
  BY <1>1, <1>3, <1>4, FlattenEmpty

\* It keeps concatenation.
LEMMA FlattenConcat ==
    ASSUME NEW E, NEW s \in Seq(Seq(E))
    PROVE  \A t \in Seq(Seq(E)) : FlattenSeq(s \o t) = FlattenSeq(s) \o FlattenSeq(t)
<1> DEFINE T == {t \in Seq(Seq(E)) : FlattenSeq(s \o t) = FlattenSeq(s) \o FlattenSeq(t)}
<1>1. <<>> \in T
  <2>1. FlattenSeq(s) \in Seq(E) /\ <<>> \in Seq(Seq(E))
    BY FlattenType, EmptySeq
  <2> QED
    BY <2>1, FlattenEmpty, ConcatEmptySeq
<1>2. ASSUME NEW t \in Seq(Seq(E)), NEW e \in Seq(E), t \in T
      PROVE  Append(t, e) \in T
  <2>1. /\ Append(t, e) = t \o <<e>> /\ Append(s \o t, e) = (s \o t) \o <<e>>
        /\ <<e>> \in Seq(Seq(E)) /\ s \o t \in Seq(Seq(E))
    BY AppendIsConcat, ConcatProperties
  <2>2. s \o Append(t, e) = Append(s \o t, e)
    BY <2>1, ConcatAssociative
  <2>3. FlattenSeq(s \o Append(t, e)) = FlattenSeq(s \o t) \o e
    BY <2>1, <2>2, FlattenMore
  <2>4. FlattenSeq(Append(t, e)) = FlattenSeq(t) \o e
    BY FlattenMore
  <2>5. FlattenSeq(s) \in Seq(E) /\ FlattenSeq(t) \in Seq(E)
    BY FlattenType
  <2>6. (FlattenSeq(s) \o FlattenSeq(t)) \o e = FlattenSeq(s) \o (FlattenSeq(t) \o e)
    BY <2>5, ConcatAssociative
  <2>7. FlattenSeq(s \o Append(t, e)) = FlattenSeq(s) \o FlattenSeq(Append(t, e))
    BY <1>2, <2>3, <2>4, <2>6
  <2> QED
    BY <2>7, AppendProperties
<1> QED
  BY <1>1, <1>2, ByAppend

\* A function on the first n numbers is a sequence.
LEMMA IsSequence ==
    ASSUME NEW S, NEW n \in Nat, NEW t,
           t = [i \in 1..n |-> t[i]],
           \A i \in 1..n : t[i] \in S
    PROVE  t \in Seq(S) /\ Len(t) = n
OBVIOUS

\* A sequence that agrees with another, and has one more element.
LEMMA IsAppend ==
    ASSUME NEW S, NEW s \in Seq(S), NEW e \in S, NEW t \in Seq(S),
           Len(t) = Len(s) + 1,
           \A i \in 1..Len(s) : t[i] = s[i],
           t[Len(s) + 1] = e
    PROVE  t = Append(s, e)
<1>1. /\ Append(s, e) \in Seq(S) /\ Len(Append(s, e)) = Len(s) + 1
      /\ \A i \in 1..Len(s) : Append(s, e)[i] = s[i]
      /\ Append(s, e)[Len(s) + 1] = e
  BY AppendProperties
<1>2. Len(s) \in Nat /\ Len(s) + 1 \in Nat
  BY LenProperties
<1>3. \A i \in 1..(Len(s) + 1) : t[i] = Append(s, e)[i]
  <2>1. \A i \in 1..(Len(s) + 1) : i \in 1..Len(s) \/ i = Len(s) + 1
    BY <1>2
  <2>2. \A i \in 1..Len(s) : t[i] = Append(s, e)[i]
    BY <1>1
  <2>3. t[Len(s) + 1] = Append(s, e)[Len(s) + 1]
    BY <1>1
  <2> QED
    BY ONLY <2>1, <2>2, <2>3
<1> QED
  BY <1>1, <1>3, SeqEqual

(* Texts that are joined *)

\* What Join flattens.
Separated(texts, separator) ==
    [i \in DOMAIN texts |-> IF i = 1 THEN texts[i] ELSE <<separator>> \o texts[i]]

\* They are texts too, of the same number.
LEMMA SeparatedType ==
    ASSUME NEW E, NEW sep \in E, NEW ts \in Seq(Seq(E))
    PROVE  Separated(ts, sep) \in Seq(Seq(E)) /\ Len(Separated(ts, sep)) = Len(ts)
<1> DEFINE u == Separated(ts, sep)
<1>1. DOMAIN ts = 1..Len(ts) /\ Len(ts) \in Nat
  BY LenProperties
<1>2. u = [i \in 1..Len(ts) |-> u[i]]
  BY <1>1 DEF Separated
<1>3. ASSUME NEW i \in 1..Len(ts) PROVE u[i] \in Seq(E)
  <2>1. ts[i] \in Seq(E) /\ <<sep>> \in Seq(E)
    BY ElementOfSeq
  <2>2. <<sep>> \o ts[i] \in Seq(E)
    BY <2>1, ConcatProperties
  <2> QED
    BY <1>1, <2>1, <2>2 DEF Separated
<1> HIDE DEF u
<1>4. u \in Seq(Seq(E)) /\ Len(u) = Len(ts)
  BY <1>1, <1>2, <1>3, IsSequence
<1> QED
  BY <1>4 DEF u

\* The equations of Join.
LEMMA JoinType ==
    ASSUME NEW E, NEW sep \in E, NEW ts \in Seq(Seq(E))
    PROVE  Join(ts, sep) \in Seq(E)
BY SeparatedType, FlattenType DEF Join, Separated

\* No texts, no text.
LEMMA JoinEmpty ==
    ASSUME NEW sep
    PROVE  Join(<<>>, sep) = <<>>
<1>1. Separated(<<>>, sep) = <<>>
  BY SMT DEF Separated
<1> QED
  BY <1>1, FlattenEmpty DEF Join, Separated

\* A text that is alone gets no separator.
LEMMA JoinOne ==
    ASSUME NEW E, NEW sep, NEW t \in Seq(E)
    PROVE  Join(<<t>>, sep) = t
<1>1. Separated(<<t>>, sep) = <<t>>
  BY SMT DEF Separated
<1> QED
  BY <1>1, FlattenOne DEF Join, Separated

\* Any further one comes after a separator.
LEMMA JoinMore ==
    ASSUME NEW E, NEW sep \in E, NEW ts \in Seq(Seq(E)), ts # <<>>, NEW t \in Seq(E)
    PROVE  Join(Append(ts, t), sep) = Join(ts, sep) \o (<<sep>> \o t)
<1> DEFINE u == Separated(ts, sep)
           v == Separated(Append(ts, t), sep)
<1>1. Len(ts) \in Nat /\ Len(ts) # 0 /\ Append(ts, t) \in Seq(Seq(E))
      /\ Len(Append(ts, t)) = Len(ts) + 1
      /\ DOMAIN Append(ts, t) = 1..(Len(ts) + 1) /\ DOMAIN ts = 1..Len(ts)
      /\ Append(ts, t)[Len(ts) + 1] = t
      /\ \A i \in 1..Len(ts) : Append(ts, t)[i] = ts[i]
  BY EmptySeq, AppendProperties, LenProperties
<1>2. <<sep>> \o t \in Seq(E)
  <2>1. <<sep>> \in Seq(E)
    OBVIOUS
  <2> QED
    BY <2>1, ConcatProperties
<1>3. u \in Seq(Seq(E)) /\ Len(u) = Len(ts) /\ v \in Seq(Seq(E)) /\ Len(v) = Len(u) + 1
  BY <1>1, SeparatedType
<1>4. \A i \in 1..Len(u) : v[i] = u[i]
  BY <1>1, <1>3 DEF Separated
<1>5. v[Len(u) + 1] = <<sep>> \o t
  BY <1>1, <1>3 DEF Separated
<1> HIDE DEF u, v
<1>6. v = Append(u, <<sep>> \o t)
  BY <1>2, <1>3, <1>4, <1>5, IsAppend
<1>7. FlattenSeq(v) = FlattenSeq(u) \o (<<sep>> \o t)
  BY <1>2, <1>3, <1>6, FlattenMore
<1> QED
  BY <1>7 DEF u, v, Join, Separated

(* Texts that are split *)

\* What Places flattens.
PlaceOf(text, separator) ==
    [i \in DOMAIN text |-> IF text[i] = separator THEN <<i>> ELSE <<>>]

\* Each symbol adds a place or none.
LEMMA PlaceOfType ==
    ASSUME NEW E, NEW sep, NEW text \in Seq(E)
    PROVE  /\ PlaceOf(text, sep) \in Seq(Seq(1..Len(text)))
           /\ Len(PlaceOf(text, sep)) = Len(text)
<1> DEFINE u == PlaceOf(text, sep)
<1>1. DOMAIN text = 1..Len(text) /\ Len(text) \in Nat
  BY LenProperties
<1>2. u = [i \in 1..Len(text) |-> u[i]]
  BY <1>1 DEF PlaceOf
<1>3. ASSUME NEW i \in 1..Len(text) PROVE u[i] \in Seq(1..Len(text))
  <2>1. <<i>> \in Seq(1..Len(text)) /\ <<>> \in Seq(1..Len(text))
    OBVIOUS
  <2> QED
    BY <1>1, <2>1 DEF PlaceOf
<1> HIDE DEF u
<1>4. u \in Seq(Seq(1..Len(text))) /\ Len(u) = Len(text)
  BY <1>1, <1>2, <1>3, IsSequence
<1> QED
  BY <1>4 DEF u

\* The separators of a text are in it.
LEMMA PlacesType ==
    ASSUME NEW E, NEW sep, NEW text \in Seq(E)
    PROVE  Places(text, sep) \in Seq(1..Len(text))
<1>1. Places(text, sep) = FlattenSeq(PlaceOf(text, sep))
  BY DEF Places, PlaceOf
<1> QED
  BY <1>1, PlaceOfType, FlattenType

\* The empty text has no separators.
LEMMA PlacesEmpty ==
    ASSUME NEW sep
    PROVE  Places(<<>>, sep) = <<>>
<1>1. PlaceOf(<<>>, sep) = <<>>
  BY SMT DEF PlaceOf
<1> QED
  BY <1>1, FlattenEmpty DEF Places, PlaceOf

\* The equations of Places: a text with a separator behind it, and one with
\* another symbol.
LEMMA PlacesMore ==
    ASSUME NEW E, NEW sep, NEW text \in Seq(E), NEW c \in E
    PROVE  Places(Append(text, c), sep) =
             IF c = sep THEN Append(Places(text, sep), Len(text) + 1) ELSE Places(text, sep)
<1> DEFINE n == Len(text) + 1
           t == Append(text, c)
           u == PlaceOf(text, sep)
           v == PlaceOf(t, sep)
           p == IF c = sep THEN <<n>> ELSE <<>>
<1>1. /\ t \in Seq(E) /\ Len(t) = n /\ Len(text) \in Nat
      /\ DOMAIN t = 1..n /\ DOMAIN text = 1..Len(text)
      /\ \A i \in 1..Len(text) : t[i] = text[i]
      /\ t[n] = c
  BY AppendProperties, LenProperties
<1>2. u \in Seq(Seq(1..Len(text))) /\ Len(u) = Len(text)
  BY PlaceOfType
<1>3. u \in Seq(Seq(1..n))
  <2>1. 1..Len(text) \subseteq 1..n
    BY <1>1
  <2>2. Seq(1..Len(text)) \subseteq Seq(1..n)
    BY <2>1, SeqMonotonic
  <2> QED
    BY <1>2, <2>2, SeqMonotonic
<1>4. p \in Seq(1..n)
  <2>1. <<n>> \in Seq(1..n) /\ <<>> \in Seq(1..n)
    BY <1>1
  <2> QED
    BY <2>1
<1> HIDE DEF t
<1>5. v \in Seq(Seq(1..n)) /\ Len(v) = Len(u) + 1
  BY <1>1, <1>2, PlaceOfType
<1>6. \A i \in 1..Len(u) : v[i] = u[i]
  <2>1. \A i \in 1..Len(text) : u[i] = IF text[i] = sep THEN <<i>> ELSE <<>>
    BY <1>1 DEF PlaceOf
  <2>2. \A i \in 1..n : v[i] = IF t[i] = sep THEN <<i>> ELSE <<>>
    BY <1>1 DEF PlaceOf
  <2>3. \A i \in 1..Len(text) : i \in 1..n
    BY <1>1
  <2> QED
    BY <1>1, <1>2, <2>1, <2>2, <2>3
<1>7. v[Len(u) + 1] = p
  BY <1>1, <1>2 DEF PlaceOf
<1> HIDE DEF u, v, p
<1>8. v = Append(u, p)
  BY <1>3, <1>4, <1>5, <1>6, <1>7, IsAppend
<1>9. FlattenSeq(v) = FlattenSeq(u) \o p
  BY <1>3, <1>4, <1>8, FlattenMore
<1>10. FlattenSeq(u) \in Seq(1..n)
  BY <1>3, FlattenType
<1>11. FlattenSeq(u) \o <<>> = FlattenSeq(u)
  BY <1>10, ConcatEmptySeq
<1>12. FlattenSeq(u) \o <<n>> = Append(FlattenSeq(u), n)
  BY <1>1, <1>10, AppendIsConcat
<1>13. FlattenSeq(v) = IF c = sep THEN Append(FlattenSeq(u), n) ELSE FlattenSeq(u)
  BY <1>9, <1>11, <1>12 DEF p
<1> QED
  BY <1>13 DEF u, v, t, Places, PlaceOf

\* What is put behind a text without a separator adds no place.
LEMMA PlacesSame ==
    ASSUME NEW E, NEW sep, sep \notin E, NEW F, E \subseteq F, NEW text \in Seq(F)
    PROVE  \A t \in Seq(E) : Places(text \o t, sep) = Places(text, sep)
<1> DEFINE T == {t \in Seq(E) : Places(text \o t, sep) = Places(text, sep)}
<1>1. <<>> \in T
  BY ConcatEmptySeq, EmptySeq
<1>2. ASSUME NEW t \in Seq(E), NEW c \in E, t \in T
      PROVE  Append(t, c) \in T
  <2>1. t \in Seq(F) /\ <<c>> \in Seq(F) /\ <<c>> \in Seq(E) /\ c \in F
    BY SeqMonotonic
  <2>2. text \o t \in Seq(F)
    BY <2>1, ConcatProperties
  <2>3. Append(t, c) = t \o <<c>> /\ Append(text \o t, c) = (text \o t) \o <<c>>
    BY <2>1, <2>2, AppendIsConcat
  <2>4. text \o (t \o <<c>>) = (text \o t) \o <<c>>
    BY <2>1, ConcatAssociative
  <2>5. Places(Append(text \o t, c), sep) = Places(text \o t, sep)
    BY <2>1, <2>2, PlacesMore
  <2> QED
    BY <1>2, <2>3, <2>4, <2>5, AppendProperties
<1>3. \A t \in Seq(E) : t \in T
  <2> HIDE DEF T
  <2> QED
    BY <1>1, <1>2, ByAppend
<1> QED
  BY <1>3

\* Where the parts of a text begin and end.
CutsOf(text, separator) == <<0>> \o Places(text, separator) \o <<Len(text) + 1>>

\* They are in the text or just outside.
LEMMA CutsType ==
    ASSUME NEW E, NEW sep, NEW text \in Seq(E)
    PROVE  /\ CutsOf(text, sep) \in Seq(0..(Len(text) + 1))
           /\ Len(CutsOf(text, sep)) = Len(Places(text, sep)) + 2
           /\ Len(Places(text, sep)) \in Nat
           /\ \A k \in 1..(Len(Places(text, sep)) + 1) : CutsOf(text, sep)[k] \in 0..Len(text)
           /\ CutsOf(text, sep)[Len(Places(text, sep)) + 2] = Len(text) + 1
           /\ CutsOf(text, sep)[1] = 0
<1> DEFINE p == Places(text, sep)
           L == Len(text)
           h == <<0>> \o p
<1>1. p \in Seq(1..L) /\ L \in Nat /\ Len(p) \in Nat
  BY PlacesType, LenProperties
<1>2. p \in Seq(0..L) /\ <<0>> \in Seq(0..L)
  <2>1. 1..L \subseteq 0..L /\ 0 \in 0..L
    BY <1>1
  <2> QED
    BY <1>1, <2>1, SeqMonotonic
<1>3. /\ h \in Seq(0..L) /\ Len(h) = Len(p) + 1
      /\ h[1] = 0
  <2>1. Len(<<0>>) = 1 /\ <<0>>[1] = 0
    OBVIOUS
  <2> QED
    BY <1>1, <1>2, <2>1, ConcatProperties
<1>4. \A k \in 1..Len(h) : h[k] \in 0..L
  BY <1>3, ElementOfSeq
<1> HIDE DEF h, p
<1>5. h \in Seq(0..(L + 1)) /\ <<L + 1>> \in Seq(0..(L + 1))
  <2>1. 0..L \subseteq 0..(L + 1) /\ L + 1 \in 0..(L + 1)
    BY <1>1
  <2> QED
    BY <1>3, <2>1, SeqMonotonic
<1>6. /\ h \o <<L + 1>> \in Seq(0..(L + 1))
      /\ Len(h \o <<L + 1>>) = Len(h) + 1
      /\ \A k \in 1..Len(h) : (h \o <<L + 1>>)[k] = h[k]
      /\ (h \o <<L + 1>>)[Len(h) + 1] = L + 1
  <2>1. h \o <<L + 1>> = Append(h, L + 1)
    BY <1>1, <1>5, AppendIsConcat
  <2> QED
    BY <1>1, <1>5, <2>1, AppendProperties
<1>7. CutsOf(text, sep) = h \o <<L + 1>>
  BY DEF CutsOf, h, p
<1>8. Len(h) + 1 = Len(p) + 2 /\ 1 \in 1..Len(h)
  BY <1>1, <1>3
<1> QED
  BY <1>1, <1>3, <1>4, <1>6, <1>7, <1>8 DEF p

\* The parts that are cut out there.
PartsAt(text, cuts) == [k \in 1..(Len(cuts) - 1) |-> Between(text, cuts[k], cuts[k + 1])]

\* With fewer separators than parts asked for, there is one part more than
\* separators.
LEMMA SplitAtCuts ==
    ASSUME NEW E, NEW sep, NEW text \in Seq(E), NEW n \in Nat,
           Len(Places(text, sep)) < n
    PROVE  SplitN(text, sep, n) = PartsAt(text, CutsOf(text, sep))
<1>1. SubSeq(Places(text, sep), 1, Len(Places(text, sep))) = Places(text, sep)
  BY PlacesType, SubSeqFull
<1> QED
  BY <1>1 DEF SplitN, PartsAt, CutsOf

\* What is put behind a text does not change what is between two places of it.
LEMMA BetweenPrefix ==
    ASSUME NEW E, NEW text \in Seq(E), NEW t \in Seq(E),
           NEW a \in 0..Len(text), NEW b \in 0..(Len(text) + 1)
    PROVE  /\ Between(text \o t, a, b) = Between(text, a, b)
           /\ Between(text, a, b) \in Seq(E)
<1>1. /\ Len(text) \in Nat /\ a + 1 \in Int /\ b - 1 \in Int
      /\ \A i \in (a + 1)..(b - 1) : i \in 1..Len(text) /\ i \in 1..(Len(text) + Len(t))
      /\ Len(t) \in Nat
  BY LenProperties
<1>2. \A i \in (a + 1)..(b - 1) : text[i] \in E /\ (text \o t)[i] = text[i]
  BY <1>1, ElementOfSeq, ConcatProperties
<1>3. \A i \in 1..((b - 1) - (a + 1) + 1) : (a + 1) + i - 1 \in (a + 1)..(b - 1)
  BY <1>1
<1> DEFINE m == a + 1
           n == b - 1
           s == SubSeq(text, m, n)
           u == SubSeq(text \o t, m, n)
<1>4. /\ s \in Seq(E) /\ Len(s) = (IF m <= n THEN n - m + 1 ELSE 0)
      /\ \A i \in 1..(n - m + 1) : s[i] = text[m + i - 1]
  BY <1>1, <1>2, SubSeqProperties
<1>5. /\ u \in Seq(E) /\ Len(u) = (IF m <= n THEN n - m + 1 ELSE 0)
      /\ \A i \in 1..(n - m + 1) : u[i] = (text \o t)[m + i - 1]
  BY <1>1, <1>2, SubSeqProperties
<1>6. \A i \in 1..(n - m + 1) : u[i] = s[i]
  BY <1>2, <1>3, <1>4, <1>5
<1>7. Len(s) = Len(u) /\ 1..Len(u) \subseteq 1..(n - m + 1)
  BY <1>1, <1>4, <1>5
<1> HIDE DEF s, u
<1>8. u = s
  BY <1>4, <1>5, <1>6, <1>7, SeqEqual
<1> QED
  BY <1>4, <1>8 DEF s, u, Between

\* What is put behind a text is behind its last place.
LEMMA BetweenSuffix ==
    ASSUME NEW E, NEW text \in Seq(E), NEW t \in Seq(E)
    PROVE  Between(text \o t, Len(text), Len(text) + Len(t) + 1) = t
<1> DEFINE m == Len(text) + 1
           n == Len(text) + Len(t) + 1 - 1
           u == SubSeq(text \o t, m, n)
<1>1. /\ Len(text) \in Nat /\ Len(t) \in Nat /\ m \in Int /\ n \in Int
      /\ n - m + 1 = Len(t) /\ (IF m <= n THEN n - m + 1 ELSE 0) = Len(t)
      /\ \A i \in m..n : i \in 1..(Len(text) + Len(t)) /\ i - Len(text) \in 1..Len(t)
                         /\ ~ i <= Len(text)
      /\ \A i \in 1..Len(t) : m + i - 1 \in m..n /\ m + i - 1 - Len(text) = i
  BY LenProperties
<1>2. \A i \in m..n : (text \o t)[i] = t[i - Len(text)] /\ t[i - Len(text)] \in E
  BY <1>1, ConcatProperties, ElementOfSeq
<1> HIDE DEF m, n
<1>3. /\ u \in Seq(E) /\ Len(u) = Len(t)
      /\ \A i \in 1..Len(t) : u[i] = (text \o t)[m + i - 1]
  <2>1. \A i \in m..n : (text \o t)[i] \in E
    BY <1>2
  <2> QED
    BY <1>1, <2>1, SubSeqProperties
<1> HIDE DEF u
<1>4. ASSUME NEW i \in 1..Len(t) PROVE u[i] = t[i]
  <2> DEFINE j == m + i - 1
  <2>1. j \in m..n /\ j - Len(text) = i
    BY <1>1
  <2>2. u[i] = (text \o t)[j]
    BY <1>3
  <2> HIDE DEF j
  <2> QED
    BY <1>2, <2>1, <2>2
<1>5. u = t
  BY <1>3, <1>4, SeqEqual
<1> QED
  BY <1>5 DEF u, m, n, Between

\* A part without a separator in it, put behind a separator, is one more part.
LEMMA SplitMore ==
    ASSUME NEW E, NEW sep, sep \notin E, NEW F, E \subseteq F, sep \in F,
           NEW text \in Seq(F), NEW part \in Seq(E), NEW n \in Nat,
           Len(Places(text, sep)) + 1 < n,
           SplitN(text, sep, n) \in Seq(Seq(E))
    PROVE  /\ SplitN(text \o (<<sep>> \o part), sep, n) = Append(SplitN(text, sep, n), part)
           /\ Len(Places(text \o (<<sep>> \o part), sep)) = Len(Places(text, sep)) + 1
<1> DEFINE head  == Append(text, sep)
           whole == head \o part
           L     == Len(text)
           ps    == SplitN(text, sep, n)
           p     == Places(text, sep)
           cuts  == CutsOf(text, sep)
           more  == CutsOf(whole, sep)
<1>1. /\ head \in Seq(F) /\ Len(head) = L + 1 /\ L \in Nat
      /\ part \in Seq(F) /\ <<sep>> \in Seq(F) /\ Len(part) \in Nat
      /\ head = text \o <<sep>>
  BY AppendProperties, AppendIsConcat, LenProperties, SeqMonotonic
<1>2. /\ whole = text \o (<<sep>> \o part)
      /\ whole \in Seq(F) /\ Len(whole) = L + 1 + Len(part)
  BY <1>1, ConcatAssociative, ConcatProperties
<1>3. <<sep>> \o part \in Seq(F)
  BY <1>1, ConcatProperties
<1>4. /\ cuts \in Seq(0..(L + 1)) /\ Len(cuts) = Len(p) + 2 /\ Len(p) \in Nat
      /\ \A k \in 1..(Len(p) + 1) : cuts[k] \in 0..L
      /\ cuts[Len(p) + 2] = L + 1
  BY CutsType
<1>5. Places(whole, sep) = Append(p, L + 1)
  <2>1. Places(head, sep) = Append(p, L + 1)
    BY PlacesMore
  <2> QED
    BY <1>1, <2>1, PlacesSame
<1>6. Len(Places(whole, sep)) = Len(p) + 1
  BY <1>5, PlacesType, AppendProperties, LenProperties
<1>7. more = Append(cuts, Len(whole) + 1)
  <2>1. p \in Seq(Nat) /\ <<0>> \in Seq(Nat) /\ <<L + 1>> \in Seq(Nat) /\ L + 1 \in Nat
        /\ Len(whole) + 1 \in Nat /\ <<Len(whole) + 1>> \in Seq(Nat)
    <3>1. 1..L \subseteq Nat
      BY <1>1
    <3>2. p \in Seq(Nat)
      BY <3>1, PlacesType, SeqMonotonic
    <3> QED
      BY <1>1, <1>2, <3>2
  <2>2. <<0>> \o Append(p, L + 1) = (<<0>> \o p) \o <<L + 1>>
    <3>1. Append(p, L + 1) = p \o <<L + 1>>
      BY <2>1, AppendIsConcat
    <3>2. <<0>> \o (p \o <<L + 1>>) = (<<0>> \o p) \o <<L + 1>>
      BY <2>1, ConcatAssociative
    <3> QED
      BY <3>1, <3>2
  <2>3. more = (<<0>> \o Append(p, L + 1)) \o <<Len(whole) + 1>>
    BY <1>5 DEF CutsOf
  <2>4. cuts = (<<0>> \o p) \o <<L + 1>>
    BY DEF CutsOf
  <2>5. cuts \in Seq(Nat)
    BY <2>1, <2>4, ConcatProperties
  <2>6. more = cuts \o <<Len(whole) + 1>>
    BY <2>2, <2>3, <2>4
  <2> QED
    BY <2>1, <2>5, <2>6, AppendIsConcat
<1>8. /\ Len(more) = Len(p) + 3
      /\ \A k \in 1..(Len(p) + 2) : more[k] = cuts[k]
      /\ more[Len(p) + 3] = Len(whole) + 1
  <2>1. cuts \in Seq(Nat) /\ Len(whole) + 1 \in Nat
    <3>1. 0..(L + 1) \subseteq Nat
      BY <1>1
    <3> QED
      BY <1>1, <1>2, <1>4, <3>1, SeqMonotonic
  <2> HIDE DEF cuts, more, whole
  <2>2. /\ Len(more) = Len(cuts) + 1
        /\ \A k \in 1..Len(cuts) : more[k] = cuts[k]
        /\ more[Len(cuts) + 1] = Len(whole) + 1
    BY <1>7, <2>1, AppendProperties
  <2>3. Len(cuts) + 1 = Len(p) + 3
    BY <1>4
  <2> QED
    BY <1>4, <2>2, <2>3
<1>9. SplitN(text, sep, n) = PartsAt(text, cuts)
  <2>1. Len(p) < n
    BY <1>4
  <2> QED
    BY <2>1, SplitAtCuts
<1>10. SplitN(whole, sep, n) = PartsAt(whole, more)
  BY <1>2, <1>4, <1>6, SplitAtCuts
<1> DEFINE old == PartsAt(text, cuts)
           new == PartsAt(whole, more)
<1>20. ps \in Seq(Seq(E)) /\ old = ps
  BY <1>9
<1> HIDE DEF cuts, more, whole, p, head, ps
<1>11. old = [k \in 1..(Len(p) + 1) |-> Between(text, cuts[k], cuts[k + 1])]
  BY <1>4 DEF PartsAt
<1>12. new = [k \in 1..(Len(p) + 2) |-> Between(whole, more[k], more[k + 1])]
  BY <1>4, <1>8 DEF PartsAt
<1>13. ASSUME NEW k \in 1..(Len(p) + 1) PROVE new[k] = old[k]
  <2>1. /\ more[k] = cuts[k] /\ more[k + 1] = cuts[k + 1]
        /\ k \in 1..(Len(p) + 2) /\ k + 1 \in 1..(Len(p) + 2)
    BY <1>4, <1>8
  <2>2. cuts[k] \in 0..L /\ cuts[k + 1] \in 0..(L + 1)
    BY <1>4, <2>1, ElementOfSeq
  <2> DEFINE w == <<sep>> \o part
  <2>3. w \in Seq(F) /\ whole = text \o w
    BY <1>2, <1>3
  <2> HIDE DEF w
  <2>4. Between(text \o w, cuts[k], cuts[k + 1]) = Between(text, cuts[k], cuts[k + 1])
    BY <2>2, <2>3, BetweenPrefix
  <2> QED
    BY <1>11, <1>12, <2>1, <2>3, <2>4
<1>14. new[Len(p) + 2] = part
  <2>1. more[Len(p) + 2] = L + 1 /\ more[Len(p) + 3] = L + 1 + Len(part) + 1
    <3>1. Len(p) + 2 \in 1..(Len(p) + 2)
      BY <1>4
    <3>2. more[Len(p) + 2] = cuts[Len(p) + 2]
      BY <1>8, <3>1
    <3> QED
      BY <1>2, <1>4, <1>8, <3>2
  <2>2. new[Len(p) + 2] = Between(whole, L + 1, L + 1 + Len(part) + 1)
    BY <1>4, <1>12, <2>1
  <2>3. Between(head \o part, Len(head), Len(head) + Len(part) + 1) = part
    BY <1>1, BetweenSuffix
  <2> QED
    BY <1>1, <2>2, <2>3 DEF whole
<1>15. old = ps /\ Len(ps) = Len(p) + 1
  <2>1. DOMAIN ps = 1..Len(ps) /\ Len(ps) \in Nat /\ old = ps
    BY <1>20, LenProperties
  <2>2. DOMAIN old = 1..(Len(p) + 1)
    BY <1>11
  <2>3. 1..Len(ps) = 1..(Len(p) + 1)
    BY <2>1, <2>2
  <2>4. \A a, b \in Nat : 1..a = 1..(b + 1) => a = b + 1
    OBVIOUS
  <2> QED
    BY <1>4, <2>1, <2>3, <2>4
<1>16. new \in Seq(Seq(E)) /\ Len(new) = Len(ps) + 1
  <2>1. \A k \in 1..(Len(p) + 2) : new[k] \in Seq(E)
    <3>1. \A k \in 1..(Len(p) + 1) : new[k] \in Seq(E)
      BY <1>20, <1>13, <1>15, ElementOfSeq
    <3>2. \A k \in 1..(Len(p) + 2) : k \in 1..(Len(p) + 1) \/ k = Len(p) + 2
      BY <1>4
    <3> QED
      BY <1>14, <3>1, <3>2
  <2> HIDE DEF new
  <2>2. new = [k \in 1..(Len(p) + 2) |-> new[k]]
    BY <1>12
  <2>3. Len(p) + 2 \in Nat /\ Len(p) + 2 = Len(ps) + 1
    BY <1>4, <1>15
  <2> QED
    BY <2>1, <2>2, <2>3, IsSequence
<1> HIDE DEF old, new
<1>17. \A k \in 1..Len(ps) : new[k] = ps[k]
  BY <1>13, <1>15
<1>18. new[Len(ps) + 1] = part
  BY <1>4, <1>14, <1>15
<1>19. new = Append(ps, part)
  BY <1>20, <1>16, <1>17, <1>18, IsAppend
<1> QED
  BY <1>2, <1>6, <1>10, <1>19 DEF new, p, ps

\* A text without a separator is one part.
LEMMA SplitOne ==
    ASSUME NEW E, NEW sep, sep \notin E, NEW t \in Seq(E), NEW n \in Nat, 1 <= n
    PROVE  SplitN(t, sep, n) = <<t>> /\ Places(t, sep) = <<>>
<1>1. Places(t, sep) = <<>>
  <2>1. <<>> \in Seq(E) /\ <<>> \o t = t
    BY EmptySeq, ConcatEmptySeq
  <2>2. Places(<<>> \o t, sep) = Places(<<>>, sep)
    BY <2>1, PlacesSame
  <2> QED
    BY <2>1, <2>2, PlacesEmpty
<1>2. SplitN(t, sep, n) = PartsAt(t, CutsOf(t, sep))
  <2>1. Len(Places(t, sep)) < n
    BY <1>1, EmptySeq
  <2> QED
    BY <2>1, SplitAtCuts
<1>3. CutsOf(t, sep) = <<0, Len(t) + 1>>
  <2>1. <<0>> \o <<>> = <<0>>
    <3>1. <<0>> \in Seq(Nat)
      OBVIOUS
    <3> QED
      BY <3>1, ConcatEmptySeq
  <2>2. \A a \in Nat : <<0>> \o <<a>> = <<0, a>>
    <3> SUFFICES ASSUME NEW a \in Nat PROVE <<0>> \o <<a>> = <<0, a>>
      OBVIOUS
    <3>1. <<0>> \in Seq(Nat) /\ <<a>> \in Seq(Nat) /\ <<0, a>> \in Seq(Nat)
      OBVIOUS
    <3>2. Len(<<0>>) = 1 /\ Len(<<a>>) = 1 /\ Len(<<0, a>>) = 2
      OBVIOUS
    <3>3. /\ <<0>> \o <<a>> \in Seq(Nat) /\ Len(<<0>> \o <<a>>) = 2
          /\ (<<0>> \o <<a>>)[1] = 0 /\ (<<0>> \o <<a>>)[2] = a
      BY <3>1, <3>2, ConcatProperties
    <3>4. \A i \in 1..2 : (<<0>> \o <<a>>)[i] = <<0, a>>[i]
      BY <3>3
    <3> QED
      BY <3>1, <3>2, <3>3, <3>4, SeqEqual
  <2>3. Len(t) + 1 \in Nat
    BY LenProperties
  <2> QED
    BY <1>1, <2>1, <2>2, <2>3 DEF CutsOf
<1>4. Between(t, 0, Len(t) + 1) = t
  <2>1. 0 + 1 = 1 /\ Len(t) + 1 - 1 = Len(t)
    BY LenProperties
  <2> QED
    BY <2>1, SubSeqFull DEF Between
<1>5. PartsAt(t, <<0, Len(t) + 1>>) = <<Between(t, 0, Len(t) + 1)>>
  BY DEF PartsAt
<1> QED
  BY <1>1, <1>2, <1>3, <1>4, <1>5

\* What is joined is found again by splitting, whatever the texts are as long
\* as the separator is in none of them, and however many parts are asked for
\* beyond theirs: the lines of a chunk, and the fields of a line.
THEOREM SplitJoined ==
    ASSUME NEW E, NEW sep, sep \notin E,
           NEW ts \in Seq(Seq(E)), ts # <<>>, NEW n \in Nat, Len(ts) <= n
    PROVE  SplitN(Join(ts, sep), sep, n) = ts
<1> DEFINE F == E \cup {sep}
           Good(s) == /\ Len(Places(Join(s, sep), sep)) = Len(s) - 1
                      /\ \A k \in Nat : Len(s) <= k => SplitN(Join(s, sep), sep, k) = s
           T == {s \in Seq(Seq(E)) : s # <<>> => Good(s)}
<1>1. <<>> \in T
  BY EmptySeq
<1>2. ASSUME NEW s \in Seq(Seq(E)), NEW t \in Seq(E), s \in T
      PROVE  Append(s, t) \in T
  <2>1. Append(s, t) \in Seq(Seq(E)) /\ Len(Append(s, t)) = Len(s) + 1 /\ Len(s) \in Nat
    BY AppendProperties, LenProperties
  <2>2. CASE s = <<>>
    <3>1. Append(s, t) = <<t>> /\ Len(<<t>>) = 1
      BY <2>2
    <3>2. Join(<<t>>, sep) = t
      BY JoinOne
    <3>3. Places(t, sep) = <<>>
      BY SplitOne
    <3>4. \A k \in Nat : 1 <= k => SplitN(t, sep, k) = <<t>>
      BY SplitOne
    <3>5. Len(Places(Join(<<t>>, sep), sep)) = Len(<<t>>) - 1
      BY <3>1, <3>2, <3>3
    <3>6. \A k \in Nat : Len(<<t>>) <= k => SplitN(Join(<<t>>, sep), sep, k) = <<t>>
      BY <3>1, <3>2, <3>4
    <3> QED
      BY <2>1, <3>1, <3>5, <3>6
  <2>3. CASE s # <<>>
    <3> DEFINE x == Join(s, sep)
               y == x \o (<<sep>> \o t)
    <3>1. Good(s)
      BY <1>2, <2>3
    <3>2. s \in Seq(Seq(F)) /\ t \in Seq(F) /\ sep \in F /\ E \subseteq F
      <4>1. E \subseteq F
        OBVIOUS
      <4>2. Seq(E) \subseteq Seq(F)
        BY <4>1, SeqMonotonic
      <4> QED
        BY <4>1, <4>2, SeqMonotonic
    <3> HIDE DEF F
    <3>3. x \in Seq(F) /\ Join(Append(s, t), sep) = y
      BY <2>3, <3>2, JoinType, JoinMore
    <3>4. Len(s) # 0
      BY <2>3, EmptySeq
    <3>5. ASSUME NEW k \in Nat, Len(s) + 1 <= k
          PROVE  /\ SplitN(y, sep, k) = Append(s, t)
                 /\ Len(Places(y, sep)) = Len(Places(x, sep)) + 1
      <4>1. Len(Places(x, sep)) + 1 < k /\ SplitN(x, sep, k) = s
        BY <2>1, <3>1, <3>4, <3>5
      <4>2. E \subseteq F /\ sep \in F /\ x \in Seq(F)
        BY <3>2, <3>3
      <4>3. SplitN(x, sep, k) \in Seq(Seq(E))
        BY <4>1
      <4> HIDE DEF x, Good, T
      <4>4. Len(Places(x, sep)) + 1 < k
        BY <4>1
      <4>5. /\ SplitN(x \o (<<sep>> \o t), sep, k) = Append(SplitN(x, sep, k), t)
            /\ Len(Places(x \o (<<sep>> \o t), sep)) = Len(Places(x, sep)) + 1
        BY <4>2, <4>3, <4>4, SplitMore
      <4> QED
        BY <4>1, <4>5
    <3>6. Len(Places(y, sep)) = Len(s) + 1 - 1
      <4>1. Len(Places(y, sep)) = Len(Places(x, sep)) + 1
        <5>1. Len(s) + 1 \in Nat /\ Len(s) + 1 <= Len(s) + 1
          BY <2>1
        <5> HIDE DEF x
        <5> QED
          BY <3>5, <5>1
      <4> QED
        BY <2>1, <3>1, <4>1
    <3>7. \A k \in Nat : Len(s) + 1 <= k => SplitN(y, sep, k) = Append(s, t)
      BY <3>5
    <3> HIDE DEF y
    <3>8. /\ Len(Places(Join(Append(s, t), sep), sep)) = Len(Append(s, t)) - 1
          /\ \A k \in Nat : Len(Append(s, t)) <= k =>
               SplitN(Join(Append(s, t), sep), sep, k) = Append(s, t)
      BY <2>1, <3>3, <3>6, <3>7
    <3> QED
      BY <2>1, <3>8
  <2> QED
    BY <2>2, <2>3
<1>3. \A s \in Seq(Seq(E)) : s \in T
  <2> HIDE DEF T
  <2> QED
    BY <1>1, <1>2, ByAppend
<1> QED
  BY <1>3

(* Bytes in hexadecimal *)

\* A digit has its own value.
LEMMA HexDigit ==
    ASSUME NEW k \in 0..15
    PROVE  HEX[k + 1] \in Range(HEX) /\ HexVal(HEX[k + 1]) = k
<1>1. DOMAIN HEX = 1..16
  BY DEF HEX
<1>2. \A m, n \in 1..16 : HEX[m] = HEX[n] => m = n
  BY SMT DEF HEX
<1>3. k + 1 \in 1..16
  OBVIOUS
<1>4. HEX[k + 1] \in Range(HEX)
  BY <1>1, <1>3 DEF Range
<1> DEFINE N == CHOOSE n \in 1..16 : HEX[n] = HEX[k + 1]
<1>5. N \in 1..16 /\ HEX[N] = HEX[k + 1]
  BY <1>3
<1>6. N = k + 1
  BY <1>2, <1>3, <1>5
<1>7. HexVal(HEX[k + 1]) = N - 1
  BY <1>4 DEF HexVal
<1> HIDE DEF N
<1> QED
  BY <1>4, <1>6, <1>7

\* Pairs one after the other: the i-th has the places 2i - 1 and 2i.
LEMMA FlattenPairs ==
    ASSUME NEW E
    PROVE  \A ss \in Seq(Seq(E)) :
             (\A i \in 1..Len(ss) : Len(ss[i]) = 2)
               => /\ Len(FlattenSeq(ss)) = 2 * Len(ss)
                  /\ \A i \in 1..Len(ss) : /\ FlattenSeq(ss)[2 * i - 1] = ss[i][1]
                                           /\ FlattenSeq(ss)[2 * i] = ss[i][2]
<1> DEFINE Pairs(ss) == \A i \in 1..Len(ss) : Len(ss[i]) = 2
           Placed(ss) == /\ Len(FlattenSeq(ss)) = 2 * Len(ss)
                         /\ \A i \in 1..Len(ss) : /\ FlattenSeq(ss)[2 * i - 1] = ss[i][1]
                                                  /\ FlattenSeq(ss)[2 * i] = ss[i][2]
           T == {ss \in Seq(Seq(E)) : Pairs(ss) => Placed(ss)}
<1>1. <<>> \in T
  <2>1. Len(<<>>) = 0 /\ <<>> \in Seq(Seq(E))
    OBVIOUS
  <2> QED
    BY <2>1, FlattenEmpty
<1>2. ASSUME NEW ss \in Seq(Seq(E)), NEW p \in Seq(E), ss \in T
      PROVE  Append(ss, p) \in T
  <2> DEFINE tt == Append(ss, p)
             f  == FlattenSeq(ss)
             n  == Len(ss)
  <2> SUFFICES ASSUME Pairs(tt) PROVE Placed(tt)
    BY AppendProperties
  <2>1. /\ tt \in Seq(Seq(E)) /\ Len(tt) = n + 1 /\ n \in Nat
        /\ \A i \in 1..n : tt[i] = ss[i]
        /\ tt[n + 1] = p
    BY AppendProperties, LenProperties
  <2>2. FlattenSeq(tt) = f \o p /\ f \in Seq(E)
    BY FlattenMore, FlattenType
  <2> HIDE DEF tt
  <2>3. Len(p) = 2
    BY <2>1
  <2>4. Placed(ss)
    <3>1. Pairs(ss)
      BY <2>1
    <3> QED
      BY <1>2, <3>1
  <2> HIDE DEF f
  <2>5. Len(f) = 2 * n /\ \A i \in 1..n : f[2 * i - 1] = ss[i][1] /\ f[2 * i] = ss[i][2]
    BY <2>4 DEF f
  <2>6. /\ Len(f \o p) = 2 * n + 2
        /\ \A i \in 1..(2 * n + 2) :
             (f \o p)[i] = IF i <= 2 * n THEN f[i] ELSE p[i - 2 * n]
    <3>1. /\ Len(f \o p) = Len(f) + Len(p)
          /\ \A i \in 1..(Len(f) + Len(p)) :
               (f \o p)[i] = IF i <= Len(f) THEN f[i] ELSE p[i - Len(f)]
      BY <2>2, ConcatProperties
    <3>2. Len(f) = 2 * n /\ Len(p) = 2
      BY <2>3, <2>5
    <3> QED
      BY <3>1, <3>2
  <2>7. ASSUME NEW i \in 1..n
        PROVE  (f \o p)[2 * i - 1] = tt[i][1] /\ (f \o p)[2 * i] = tt[i][2]
    <3>1. /\ 2 * i - 1 \in 1..(2 * n + 2) /\ 2 * i - 1 <= 2 * n
          /\ 2 * i \in 1..(2 * n + 2) /\ 2 * i <= 2 * n
      BY <2>1
    <3> QED
      BY <2>1, <2>5, <2>6, <3>1
  <2>8. (f \o p)[2 * (n + 1) - 1] = tt[n + 1][1] /\ (f \o p)[2 * (n + 1)] = tt[n + 1][2]
    <3>1. /\ 2 * n + 1 \in 1..(2 * n + 2) /\ ~ 2 * n + 1 <= 2 * n /\ 2 * n + 1 - 2 * n = 1
          /\ 2 * n + 2 \in 1..(2 * n + 2) /\ ~ 2 * n + 2 <= 2 * n /\ 2 * n + 2 - 2 * n = 2
          /\ 2 * (n + 1) - 1 = 2 * n + 1 /\ 2 * (n + 1) = 2 * n + 2
      BY <2>1
    <3>2. (f \o p)[2 * n + 1] = p[1] /\ (f \o p)[2 * n + 2] = p[2]
      BY <2>6, <3>1
    <3> QED
      BY <2>1, <3>1, <3>2
  <2>9. \A i \in 1..(n + 1) : i \in 1..n \/ i = n + 1
    BY <2>1
  <2>10. \A i \in 1..(n + 1) : (f \o p)[2 * i - 1] = tt[i][1] /\ (f \o p)[2 * i] = tt[i][2]
    BY <2>7, <2>8, <2>9
  <2>11. Len(FlattenSeq(tt)) = 2 * Len(tt)
    BY <2>1, <2>2, <2>6
  <2> QED
    BY <2>1, <2>2, <2>10, <2>11
<1>3. \A ss \in Seq(Seq(E)) : ss \in T
  <2> HIDE DEF T
  <2> QED
    BY <1>1, <1>2, ByAppend
<1> QED
  BY <1>3

Byte == 0..255

\* A byte is its two halves.
LEMMA Halves ==
    \A b \in 0..255 : /\ b \div 16 \in 0..15 /\ b % 16 \in 0..15
                      /\ 16 * (b \div 16) + (b % 16) = b
OBVIOUS

\* What HexEncode flattens.
DigitsOf(bytes) ==
    [i \in DOMAIN bytes |-> <<HEX[bytes[i] \div 16 + 1], HEX[(bytes[i] % 16) + 1]>>]

\* Two digits for each byte, and nothing else.
LEMMA HexEncodeType ==
    ASSUME NEW bytes \in Seq(Byte)
    PROVE  /\ HexEncode(bytes) \in Seq(Range(HEX))
           /\ Len(HexEncode(bytes)) = 2 * Len(bytes)
           /\ \A i \in 1..Len(bytes) :
                /\ HexEncode(bytes)[2 * i - 1] = HEX[bytes[i] \div 16 + 1]
                /\ HexEncode(bytes)[2 * i] = HEX[(bytes[i] % 16) + 1]
<1> DEFINE u == DigitsOf(bytes)
           H == Range(HEX)
<1>1. DOMAIN bytes = 1..Len(bytes) /\ Len(bytes) \in Nat
  BY LenProperties
<1>2. ASSUME NEW i \in 1..Len(bytes)
      PROVE  /\ u[i] \in Seq(H) /\ Len(u[i]) = 2
             /\ u[i][1] = HEX[bytes[i] \div 16 + 1] /\ u[i][2] = HEX[(bytes[i] % 16) + 1]
  <2>1. bytes[i] \in 0..255
    BY ElementOfSeq DEF Byte
  <2>2. bytes[i] \div 16 \in 0..15 /\ bytes[i] % 16 \in 0..15
    BY <2>1, Halves
  <2>3. HEX[bytes[i] \div 16 + 1] \in H /\ HEX[(bytes[i] % 16) + 1] \in H
    BY <2>2, HexDigit
  <2>4. u[i] = <<HEX[bytes[i] \div 16 + 1], HEX[(bytes[i] % 16) + 1]>>
    BY <1>1 DEF DigitsOf
  <2> HIDE DEF u, H
  <2> QED
    BY <2>3, <2>4
<1>3. u = [i \in 1..Len(bytes) |-> u[i]]
  BY <1>1 DEF DigitsOf
<1> HIDE DEF u, H
<1>4. u \in Seq(Seq(H)) /\ Len(u) = Len(bytes)
  BY <1>1, <1>2, <1>3, IsSequence
<1>5. /\ Len(FlattenSeq(u)) = 2 * Len(u)
      /\ \A i \in 1..Len(u) : FlattenSeq(u)[2 * i - 1] = u[i][1] /\ FlattenSeq(u)[2 * i] = u[i][2]
  BY <1>2, <1>4, FlattenPairs
<1>6. FlattenSeq(u) \in Seq(H)
  BY <1>4, FlattenType
<1>7. HexEncode(bytes) = FlattenSeq(u)
  BY DEF HexEncode, u, DigitsOf
<1> QED
  BY <1>2, <1>4, <1>5, <1>6, <1>7 DEF H

\* hex_decode undoes hex_encode, for any bytes.
THEOREM HexRoundTrip ==
    ASSUME NEW bytes \in Seq(0..255)
    PROVE  HexDecode(HexEncode(bytes)) = Ok(bytes)
<1> DEFINE s == HexEncode(bytes)
           d == [i \in 1..(Len(s) \div 2) |-> 16 * HexVal(s[2 * i - 1]) + HexVal(s[2 * i])]
<1>1. bytes \in Seq(Byte)
  BY DEF Byte
<1>2. /\ s \in Seq(Range(HEX)) /\ Len(s) = 2 * Len(bytes)
      /\ \A i \in 1..Len(bytes) : /\ s[2 * i - 1] = HEX[bytes[i] \div 16 + 1]
                                  /\ s[2 * i] = HEX[(bytes[i] % 16) + 1]
  BY <1>1, HexEncodeType
<1> HIDE DEF s
<1>3. Len(bytes) \in Nat /\ bytes = [i \in 1..Len(bytes) |-> bytes[i]]
  BY <1>1, LenProperties
<1>4. Range(s) \subseteq Range(HEX) \cup Range(UPPER)
  <2>1. Range(s) \in SUBSET Range(HEX)
    BY <1>2, RangeOfSeq
  <2> QED
    BY <2>1
<1>5. Len(s) % 2 = 0 /\ Len(s) \div 2 = Len(bytes)
  <2>1. \A n \in Nat : (2 * n) % 2 = 0 /\ (2 * n) \div 2 = n
    OBVIOUS
  <2> QED
    BY <1>2, <1>3, <2>1
<1>6. ASSUME NEW i \in 1..Len(bytes)
      PROVE  16 * HexVal(s[2 * i - 1]) + HexVal(s[2 * i]) = bytes[i]
  <2>1. bytes[i] \in 0..255
    BY <1>1, ElementOfSeq DEF Byte
  <2>2. bytes[i] \div 16 \in 0..15 /\ bytes[i] % 16 \in 0..15
        /\ 16 * (bytes[i] \div 16) + (bytes[i] % 16) = bytes[i]
    BY <2>1, Halves
  <2>3. HexVal(s[2 * i - 1]) = bytes[i] \div 16 /\ HexVal(s[2 * i]) = bytes[i] % 16
    BY <1>2, <2>2, HexDigit
  <2>4. \A x, y : x = bytes[i] \div 16 /\ y = bytes[i] % 16 => 16 * x + y = bytes[i]
    BY <2>2
  <2> QED
    BY <2>3, <2>4
<1>7. d = bytes
  BY <1>3, <1>5, <1>6
<1>8. HexDecode(s) = Ok(d)
  BY <1>4, <1>5 DEF HexDecode
<1> QED
  BY <1>7, <1>8 DEF s

(* Records *)

\* The symbols of the fields of a line.
Char == Range(HEX) \cup UNION {Symbols(r) : r \in Raw}

\* None of them is a separator.
LEMMA CharType == "\t" \notin Char /\ "\n" \notin Char
<1>1. \A i \in 1..16 : HEX[i] # "\t" /\ HEX[i] # "\n"
  BY SMT DEF HEX
<1>2. DOMAIN HEX = 1..16
  BY DEF HEX
<1>3. "\t" \notin Range(HEX) /\ "\n" \notin Range(HEX)
  BY <1>1, <1>2 DEF Range
<1> QED
  BY <1>3, RawAssumption DEF Char

\* The fields of a line.
Fields(r) ==
    << <<RecordId(r)>>, <<r.provider>>, HexEncode(r.path),
       <<Decimal(r.offset)>>, <<RawHash(r)>>, HexEncode(r.raw) >>

\* The six fields are texts without separators.
LEMMA FieldsType ==
    ASSUME NEW r \in Raw
    PROVE  /\ Fields(r) \in Seq(Seq(Char)) /\ Len(Fields(r)) = 6
           /\ r.path \in Seq(0..255) /\ r.raw \in Seq(0..255)
<1> DEFINE C == Char
<1>1. /\ RecordId(r) \in C /\ r.provider \in C /\ Decimal(r.offset) \in C /\ RawHash(r) \in C
      /\ Range(HEX) \subseteq C
  BY DEF Char, Symbols
<1>2. r.path \in Seq(0..255) /\ r.raw \in Seq(0..255)
  BY RawAssumption
<1>3. HexEncode(r.path) \in Seq(C) /\ HexEncode(r.raw) \in Seq(C)
  <2>1. HexEncode(r.path) \in Seq(Range(HEX)) /\ HexEncode(r.raw) \in Seq(Range(HEX))
    BY <1>2, HexEncodeType DEF Byte
  <2> QED
    BY <1>1, <2>1, SeqMonotonic
<1> HIDE DEF C
<1>4. /\ <<RecordId(r)>> \in Seq(C) /\ <<r.provider>> \in Seq(C)
      /\ <<Decimal(r.offset)>> \in Seq(C) /\ <<RawHash(r)>> \in Seq(C)
  BY <1>1
<1>5. \A a, b, c, d, e, f \in Seq(C) : <<a, b, c, d, e, f>> \in Seq(Seq(C))
                                     /\ Len(<<a, b, c, d, e, f>>) = 6
  OBVIOUS
<1> QED
  BY <1>2, <1>3, <1>4, <1>5 DEF C, Fields

\* A line has no line break in it, is not empty and has its fields between tabs.
LEMMA LineType ==
    ASSUME NEW r \in Raw
    PROVE  /\ RecordLine(r) \in Seq(Char \cup {"\t"})
           /\ "\n" \notin Char \cup {"\t"}
           /\ RecordLine(r) # <<>>
           /\ SplitN(RecordLine(r), "\t", 6) = Fields(r)
<1> DEFINE C == Char
           F == C \cup {"\t"}
<1>1. Fields(r) \in Seq(Seq(C)) /\ Len(Fields(r)) = 6 /\ "\t" \notin C
  BY FieldsType, CharType
<1>2. Fields(r) \in Seq(Seq(F)) /\ "\t" \in F
  <2>1. C \subseteq F
    OBVIOUS
  <2>2. Seq(C) \subseteq Seq(F)
    BY <2>1, SeqMonotonic
  <2> QED
    BY <1>1, <2>2, SeqMonotonic
<1>3. RecordLine(r) = Join(Fields(r), "\t")
  BY DEF RecordLine, Fields
<1>4. RecordLine(r) \in Seq(F)
  BY <1>2, <1>3, JoinType
<1>5. "\n" \notin F
  BY CharType
<1>6. Fields(r) # <<>> /\ Len(Fields(r)) <= 6 /\ 6 \in Nat
  <2>1. Len(<<>>) = 0
    OBVIOUS
  <2> QED
    BY <1>1, <2>1
<1>7. SplitN(RecordLine(r), "\t", 6) = Fields(r)
  BY <1>1, <1>3, <1>6, SplitJoined
<1>8. RecordLine(r) # <<>>
  <2> SUFFICES ASSUME RecordLine(r) = <<>> PROVE FALSE
    OBVIOUS
  <2>1. <<>> \in Seq(C) /\ 6 \in Nat /\ 1 <= 6
    BY EmptySeq
  <2> HIDE DEF C
  <2>2. \A t \in Seq(C) : SplitN(t, "\t", 6) = <<t>>
    BY <1>1, <2>1, SplitOne
  <2>3. \A t : Len(<<t>>) = 1
    OBVIOUS
  <2>4. Fields(r) = << <<>> >>
    BY <1>7, <2>1, <2>2
  <2> QED
    BY <1>1, <2>3, <2>4
<1> QED
  BY <1>4, <1>5, <1>7, <1>8

\* restore makes of the line of a record the record, byte for byte, whatever
\* bytes its name and its text have.
THEOREM RecordRoundTrip == \A r \in Raw : ParsedRecord(RecordLine(r)) = Ok(Faithful(r))
<1> SUFFICES ASSUME NEW r \in Raw PROVE ParsedRecord(RecordLine(r)) = Ok(Faithful(r))
  OBVIOUS
<1> DEFINE p == SplitN(RecordLine(r), "\t", 6)
<1>1. p = Fields(r)
  BY LineType
<1> HIDE DEF p
<1>2. /\ Len(p) = 6
      /\ p[1] = <<RecordId(r)>> /\ p[2] = <<r.provider>> /\ p[3] = HexEncode(r.path)
      /\ p[4] = <<Decimal(r.offset)>> /\ p[5] = <<RawHash(r)>> /\ p[6] = HexEncode(r.raw)
  BY <1>1 DEF Fields
<1>3. HexDecode(p[3]) = Ok(r.path) /\ HexDecode(p[6]) = Ok(r.raw)
  BY <1>2, FieldsType, HexRoundTrip
<1>4. /\ HexDecode(p[3]).ok /\ HexDecode(p[6]).ok
      /\ HexDecode(p[3]).value = r.path /\ HexDecode(p[6]).value = r.raw
  BY <1>3 DEF Ok
<1> QED
  BY <1>2, <1>4 DEF ParsedRecord, Faithful, p

(* Lines *)

\* What NonEmpty flattens.
Kept(lines) == [i \in DOMAIN lines |-> IF lines[i] = <<>> THEN <<>> ELSE <<lines[i]>>]

\* Of each line it or nothing is kept.
LEMMA KeptType ==
    ASSUME NEW E, NEW ls \in Seq(E)
    PROVE  Kept(ls) \in Seq(Seq(E)) /\ Len(Kept(ls)) = Len(ls)
<1> DEFINE u == Kept(ls)
<1>1. DOMAIN ls = 1..Len(ls) /\ Len(ls) \in Nat
  BY LenProperties
<1>2. u = [i \in 1..Len(ls) |-> u[i]]
  BY <1>1 DEF Kept
<1>3. ASSUME NEW i \in 1..Len(ls) PROVE u[i] \in Seq(E)
  <2>1. <<ls[i]>> \in Seq(E) /\ <<>> \in Seq(E)
    BY ElementOfSeq
  <2> QED
    BY <1>1, <2>1 DEF Kept
<1> HIDE DEF u
<1>4. u \in Seq(Seq(E)) /\ Len(u) = Len(ls)
  BY <1>1, <1>2, <1>3, IsSequence
<1> QED
  BY <1>4 DEF u

\* One more line that is not empty.
LEMMA NonEmptyMore ==
    ASSUME NEW E, NEW ls \in Seq(E), NEW l \in E, l # <<>>,
           NonEmpty(ls) = ls
    PROVE  NonEmpty(Append(ls, l)) = Append(ls, l)
<1> DEFINE t == Append(ls, l)
           u == Kept(ls)
           v == Kept(t)
<1>1. /\ t \in Seq(E) /\ Len(t) = Len(ls) + 1 /\ Len(ls) \in Nat
      /\ DOMAIN t = 1..(Len(ls) + 1) /\ DOMAIN ls = 1..Len(ls)
      /\ \A i \in 1..Len(ls) : t[i] = ls[i]
      /\ t[Len(ls) + 1] = l
  BY AppendProperties, LenProperties
<1> HIDE DEF t
<1>2. u \in Seq(Seq(E)) /\ Len(u) = Len(ls) /\ v \in Seq(Seq(E)) /\ Len(v) = Len(u) + 1
  BY <1>1, KeptType
<1>3. <<l>> \in Seq(E)
  OBVIOUS
<1>4. \A i \in 1..Len(u) : v[i] = u[i]
  <2>1. \A i \in 1..Len(ls) : u[i] = IF ls[i] = <<>> THEN <<>> ELSE <<ls[i]>>
    BY <1>1 DEF Kept
  <2>2. \A i \in 1..(Len(ls) + 1) : v[i] = IF t[i] = <<>> THEN <<>> ELSE <<t[i]>>
    BY <1>1 DEF Kept
  <2>3. \A i \in 1..Len(ls) : i \in 1..(Len(ls) + 1)
    BY <1>1
  <2> QED
    BY <1>1, <1>2, <2>1, <2>2, <2>3
<1>5. v[Len(u) + 1] = <<l>>
  BY <1>1, <1>2 DEF Kept
<1> HIDE DEF u, v
<1>6. v = Append(u, <<l>>)
  BY <1>2, <1>3, <1>4, <1>5, IsAppend
<1>7. FlattenSeq(v) = FlattenSeq(u) \o <<l>>
  BY <1>2, <1>3, <1>6, FlattenMore
<1>8. FlattenSeq(u) = ls /\ FlattenSeq(v) = NonEmpty(t)
  BY DEF u, v, NonEmpty, Kept
<1>9. ls \o <<l>> = Append(ls, l)
  BY AppendIsConcat
<1> QED
  BY <1>7, <1>8, <1>9 DEF t

\* Lines of which none is empty are all kept.
LEMMA NonEmptySame ==
    ASSUME NEW E, <<>> \notin E
    PROVE  \A ls \in Seq(E) : NonEmpty(ls) = ls
<1> DEFINE T == {ls \in Seq(E) : NonEmpty(ls) = ls}
<1>1. <<>> \in T
  <2>1. Kept(<<>>) = <<>> /\ <<>> \in Seq(E)
    BY SMT DEF Kept
  <2> QED
    BY <2>1, FlattenEmpty DEF NonEmpty, Kept
<1>2. ASSUME NEW ls \in Seq(E), NEW l \in E, ls \in T
      PROVE  Append(ls, l) \in T
  <2>1. NonEmpty(ls) = ls /\ l # <<>>
    BY <1>2
  <2> QED
    BY <2>1, NonEmptyMore, AppendProperties
<1>3. \A ls \in Seq(E) : ls \in T
  <2> HIDE DEF T
  <2> QED
    BY <1>1, <1>2, ByAppend
<1> QED
  BY <1>3

\* The size of what is joined grows by a separator and the new text.
LEMMA JoinLength ==
    ASSUME NEW E, NEW sep \in E, NEW ts \in Seq(Seq(E)), ts # <<>>, NEW t \in Seq(E)
    PROVE  Len(Join(Append(ts, t), sep)) = Len(Join(ts, sep)) + 1 + Len(t)
<1>1. Join(ts, sep) \in Seq(E) /\ <<sep>> \in Seq(E)
  BY JoinType
<1>2. <<sep>> \o t \in Seq(E) /\ Len(<<sep>> \o t) = 1 + Len(t) /\ Len(t) \in Nat
  <2>1. Len(<<sep>>) = 1
    OBVIOUS
  <2> QED
    BY <1>1, <2>1, ConcatProperties, LenProperties
<1>3. Len(Join(ts, sep) \o (<<sep>> \o t)) = Len(Join(ts, sep)) + Len(<<sep>> \o t)
  BY <1>1, <1>2, ConcatProperties
<1>4. Len(Join(ts, sep)) \in Nat
  BY <1>1, LenProperties
<1>5. Join(Append(ts, t), sep) = Join(ts, sep) \o (<<sep>> \o t)
  BY JoinMore
<1> QED
  BY <1>2, <1>3, <1>4, <1>5

\* It has at least its separators.
LEMMA JoinSeparators ==
    ASSUME NEW E, NEW sep \in E
    PROVE  \A ts \in Seq(Seq(E)) : Len(ts) <= Len(Join(ts, sep)) + 1
<1> DEFINE T == {ts \in Seq(Seq(E)) : Len(ts) <= Len(Join(ts, sep)) + 1}
<1>1. <<>> \in T
  <2>1. <<>> \in Seq(Seq(E)) /\ Len(<<>>) = 0
    OBVIOUS
  <2> QED
    BY <2>1, JoinEmpty
<1>2. ASSUME NEW ts \in Seq(Seq(E)), NEW t \in Seq(E), ts \in T
      PROVE  Append(ts, t) \in T
  <2>1. /\ Append(ts, t) \in Seq(Seq(E)) /\ Len(Append(ts, t)) = Len(ts) + 1
        /\ Len(ts) \in Nat /\ Len(t) \in Nat
        /\ Len(Join(ts, sep)) \in Nat /\ Len(Join(Append(ts, t), sep)) \in Nat
    BY AppendProperties, LenProperties, JoinType
  <2>2. CASE ts = <<>>
    <3>1. Len(ts) = 0
      BY <2>2
    <3> QED
      BY <2>1, <3>1
  <2>3. CASE ts # <<>>
    <3>1. Len(Join(Append(ts, t), sep)) = Len(Join(ts, sep)) + 1 + Len(t)
      BY <2>3, JoinLength
    <3> QED
      BY <1>2, <2>1, <3>1
  <2> QED
    BY <2>2, <2>3
<1>3. \A ts \in Seq(Seq(E)) : ts \in T
  <2> HIDE DEF T
  <2> QED
    BY <1>1, <1>2, ByAppend
<1> QED
  BY <1>3

(* Chunks *)

Lines(rs) == [i \in DOMAIN rs |-> RecordLine(rs[i])]

\* The text of a chunk of the records rs, and what restore should make of it.
Text(rs) == Join(Lines(rs), "\n")

Results(rs) == [i \in DOMAIN rs |-> Ok(Faithful(rs[i]))]

\* The symbols of a line.
LineChar == Char \cup {"\t"}

\* Each record has a line, and none is empty.
LEMMA LinesType ==
    ASSUME NEW rs \in Seq(Raw)
    PROVE  /\ Lines(rs) \in Seq(Seq(LineChar) \ {<<>>})
           /\ Lines(rs) \in Seq(Seq(LineChar))
           /\ Len(Lines(rs)) = Len(rs)
<1> DEFINE u == Lines(rs)
           D == Seq(LineChar) \ {<<>>}
<1>1. DOMAIN rs = 1..Len(rs) /\ Len(rs) \in Nat
  BY LenProperties
<1>2. u = [i \in 1..Len(rs) |-> u[i]]
  BY <1>1 DEF Lines
<1>3. ASSUME NEW i \in 1..Len(rs) PROVE u[i] \in D
  <2>1. rs[i] \in Raw
    BY ElementOfSeq
  <2>2. RecordLine(rs[i]) \in D
    BY <2>1, LineType DEF LineChar
  <2> QED
    BY <1>1, <2>2 DEF Lines
<1> HIDE DEF u, D
<1>4. u \in Seq(D) /\ Len(u) = Len(rs)
  BY <1>1, <1>2, <1>3, IsSequence
<1>5. u \in Seq(Seq(LineChar))
  <2>1. D \subseteq Seq(LineChar)
    BY DEF D
  <2> QED
    BY <1>4, <2>1, SeqMonotonic
<1> QED
  BY <1>4, <1>5 DEF u, D

\* One more record is one more line.
LEMMA LinesMore ==
    ASSUME NEW rs \in Seq(Raw), NEW r \in Raw
    PROVE  Lines(Append(rs, r)) = Append(Lines(rs), RecordLine(r))
<1> DEFINE t == Append(rs, r)
           u == Lines(rs)
           v == Lines(t)
           S == Seq(LineChar)
<1>1. /\ t \in Seq(Raw) /\ Len(t) = Len(rs) + 1 /\ Len(rs) \in Nat
      /\ DOMAIN t = 1..(Len(rs) + 1) /\ DOMAIN rs = 1..Len(rs)
      /\ \A i \in 1..Len(rs) : t[i] = rs[i]
      /\ t[Len(rs) + 1] = r
  BY AppendProperties, LenProperties
<1> HIDE DEF t
<1>2. u \in Seq(S) /\ Len(u) = Len(rs) /\ v \in Seq(S) /\ Len(v) = Len(u) + 1
  BY <1>1, LinesType
<1>3. RecordLine(r) \in S
  BY LineType DEF LineChar
<1>4. \A i \in 1..Len(u) : v[i] = u[i]
  BY <1>1, <1>2 DEF Lines
<1>5. v[Len(u) + 1] = RecordLine(r)
  BY <1>1, <1>2 DEF Lines
<1> HIDE DEF u, v, S
<1>6. v = Append(u, RecordLine(r))
  BY <1>2, <1>3, <1>4, <1>5, IsAppend
<1> QED
  BY <1>6 DEF u, v, t

\* In the text of a chunk every reader finds the lines it was made of.
LEMMA TextLines ==
    ASSUME NEW rs \in Seq(Raw), rs # <<>>
    PROVE  /\ Split(Text(rs), "\n") = Lines(rs)
           /\ NonEmpty(Lines(rs)) = Lines(rs)
           /\ Len(Text(rs)) \in Nat
<1> DEFINE ls == Lines(rs)
           F  == LineChar \cup {"\n"}
<1>1. /\ ls \in Seq(Seq(LineChar)) /\ ls \in Seq(Seq(LineChar) \ {<<>>})
      /\ Len(ls) = Len(rs) /\ Len(ls) \in Nat
  BY LinesType, LenProperties
<1>2. Len(rs) # 0
  BY EmptySeq
<1>3. "\n" \notin LineChar
  BY CharType DEF LineChar
<1>4. ls \in Seq(Seq(F)) /\ "\n" \in F
  <2>1. LineChar \subseteq F
    OBVIOUS
  <2>2. Seq(LineChar) \subseteq Seq(F)
    BY <2>1, SeqMonotonic
  <2> QED
    BY <1>1, <2>2, SeqMonotonic
<1> HIDE DEF F, ls
<1>5. Len(ls) <= Len(Join(ls, "\n")) + 1
  BY <1>4, JoinSeparators
<1>6. Join(ls, "\n") \in Seq(F) /\ Len(Join(ls, "\n")) \in Nat
  BY <1>4, JoinType, LenProperties
<1>7. ls # <<>>
  <2>1. Len(<<>>) = 0
    OBVIOUS
  <2> QED
    BY <1>1, <1>2, <2>1
<1>8. SplitN(Join(ls, "\n"), "\n", Len(Join(ls, "\n")) + 1) = ls
  <2> DEFINE n == Len(Join(ls, "\n")) + 1
  <2>1. n \in Nat /\ Len(ls) <= n
    BY <1>5, <1>6
  <2> HIDE DEF n
  <2>2. SplitN(Join(ls, "\n"), "\n", n) = ls
    BY <1>1, <1>3, <1>7, <2>1, SplitJoined
  <2> QED
    BY <2>2 DEF n
<1>9. NonEmpty(ls) = ls
  BY <1>1, NonEmptySame
<1> QED
  BY <1>6, <1>8, <1>9 DEF ls, Split, Text

\* verify counts the records of a chunk and restore finds them.
THEOREM ChunkRoundTrip ==
    ASSUME NEW rs \in Seq(Raw), rs # <<>>
    PROVE  /\ RestoredRecords(Text(rs)) = Results(rs)
           /\ VerifiedCount(Text(rs)) = Len(rs)
           /\ Split(Text(rs), "\n")[1] = RecordLine(rs[1])
<1>1. NonEmpty(Split(Text(rs), "\n")) = Lines(rs) /\ Split(Text(rs), "\n") = Lines(rs)
  BY TextLines
<1>2. DOMAIN rs = 1..Len(rs) /\ Len(rs) \in Nat /\ Len(rs) # 0
  BY LenProperties, EmptySeq
<1>3. DOMAIN Lines(rs) = 1..Len(rs) /\ \A i \in 1..Len(rs) : Lines(rs)[i] = RecordLine(rs[i])
  BY <1>2 DEF Lines
<1>4. \A i \in 1..Len(rs) : ParsedRecord(RecordLine(rs[i])) = Ok(Faithful(rs[i]))
  BY ElementOfSeq, RecordRoundTrip
<1>5. RestoredRecords(Text(rs)) = [i \in 1..Len(rs) |-> ParsedRecord(Lines(rs)[i])]
  BY <1>1, <1>3 DEF RestoredRecords
<1>6. Results(rs) = [i \in 1..Len(rs) |-> Ok(Faithful(rs[i]))]
  BY <1>2 DEF Results
<1>7. \A i \in 1..Len(rs) : ParsedRecord(Lines(rs)[i]) = Ok(Faithful(rs[i]))
  BY <1>3, <1>4
<1>8. RestoredRecords(Text(rs)) = Results(rs)
  BY <1>5, <1>6, <1>7
<1>9. VerifiedCount(Text(rs)) = Len(rs)
  BY <1>1, LinesType DEF VerifiedCount
<1>10. Lines(rs)[1] = RecordLine(rs[1])
  BY <1>2, <1>3
<1> QED
  BY <1>1, <1>8, <1>9, <1>10

(* Keys *)

\* The key file holds the archive key under both secrets.
KeysInv ==
    /\ secrets \in [passphrase : Secret, recovery : Secret]
    /\ keys = CreatedKeys("archive key", secrets.passphrase, secrets.recovery)

\* Each wrap opens with its own secret, and the key in it has the hash.
LEMMA Unwrapping ==
    ASSUME KeysInv, NEW s
    PROVE  /\ Hashed(Unwrap(keys.PASS_WRAP_B64, s)) =
                IF s = secrets.passphrase THEN Ok("archive key") ELSE Failed
           /\ Hashed(Unwrap(keys.REC_WRAP_B64, s)) =
                IF s = secrets.recovery THEN Ok("archive key") ELSE Failed
<1>1. /\ keys.KEY_HASH = Digest("archive key")
      /\ keys.PASS_WRAP_B64 = Wrap("archive key", secrets.passphrase)
      /\ keys.REC_WRAP_B64 = Wrap("archive key", secrets.recovery)
  BY DEF KeysInv, CreatedKeys
<1>2. \A t : Unwrap(Wrap("archive key", t), s) = IF s = t THEN Ok("archive key") ELSE Failed
  BY DEF Unwrap, Wrap, SameKey
<1>3. Hashed(Ok("archive key")) = Ok("archive key") /\ Hashed(Failed) = Failed
  BY <1>1 DEF Hashed, Ok, Failed
<1> QED
  BY <1>1, <1>2, <1>3

\* Whoever unlocks the archive has the archive key.
LEMMA Unlocked ==
    ASSUME KeysInv, NEW cli, UnlockArchiveKey(cli).ok
    PROVE  UnlockArchiveKey(cli).value = "archive key"
<1>1. UnlockArchiveKey(cli) \in {Ok("archive key"), Failed}
  BY Unwrapping DEF UnlockArchiveKey
<1>2. ~ Failed.ok /\ Ok("archive key").value = "archive key"
  BY DEF Failed, Ok
<1> QED
  BY <1>1, <1>2

\* What EitherSecretUnlocks says is a matter of the keys.
LEMMA KeysUnlock == KeysInv => EitherSecretUnlocks
<1> SUFFICES ASSUME KeysInv PROVE EitherSecretUnlocks
  OBVIOUS
<1>1. OptionOrEnv(NoneGiven) = None
  BY DEF OptionOrEnv, NoneGiven
<1>2. Ok("archive key").ok /\ ~ Failed.ok
  BY DEF Ok, Failed
<1>3. ASSUME NEW g \in Given, OptionOrEnv(g) # None
      PROVE  /\ UnlockArchiveKey([passphrase |-> g, recovery |-> NoneGiven]).ok
                  <=> OptionOrEnv(g) = secrets.passphrase
             /\ UnlockArchiveKey([passphrase |-> NoneGiven, recovery |-> g]).ok
                  <=> OptionOrEnv(g) = secrets.recovery
  <2>1. UnlockArchiveKey([passphrase |-> g, recovery |-> NoneGiven])
          = Hashed(Unwrap(keys.PASS_WRAP_B64, OptionOrEnv(g)))
    BY <1>3 DEF UnlockArchiveKey
  <2>2. UnlockArchiveKey([passphrase |-> NoneGiven, recovery |-> g])
          = Hashed(Unwrap(keys.REC_WRAP_B64, OptionOrEnv(g)))
    BY <1>1, <1>3 DEF UnlockArchiveKey
  <2> QED
    BY <1>2, <2>1, <2>2, Unwrapping
<1>4. ASSUME NEW cli \in Cli, RecoveryTest(cli)
      PROVE  UnlockArchiveKey([cli EXCEPT !.passphrase = NoneGiven]) = Ok("archive key")
  <2> DEFINE code == OptionOrEnv(cli.recovery)
             c    == [cli EXCEPT !.passphrase = NoneGiven]
  <2>1. code # None /\ Hashed(Unwrap(keys.REC_WRAP_B64, code)).ok
    BY <1>4 DEF RecoveryTest
  <2>2. c.passphrase = NoneGiven /\ c.recovery = cli.recovery
    BY DEF Cli
  <2>3. UnlockArchiveKey(c) = Hashed(Unwrap(keys.REC_WRAP_B64, code))
    BY <1>1, <2>1, <2>2 DEF UnlockArchiveKey
  <2> HIDE DEF code, c
  <2>4. Hashed(Unwrap(keys.REC_WRAP_B64, code)) = Ok("archive key")
    BY <1>2, <2>1, Unwrapping
  <2> QED
    BY <2>3, <2>4 DEF c
<1> QED
  BY <1>3, <1>4 DEF EitherSecretUnlocks

(* What is in the chunks *)

\* A chunk of the records rs, in either version.
Made(version, rs) ==
    [record_count |-> Len(rs), plain_hash |-> Digest(Text(rs)), plain_bytes |-> Len(Text(rs)),
     cipher |-> EncryptChunk(version,
                             IF version = 2 THEN Compressed(Text(rs)) ELSE Plain(Text(rs)),
                             "archive key")]

Batch == Seq(Raw) \ {<<>>}

Chunk == {Made(version, rs) : version \in {1, 2}, rs \in Batch}

\* What a restore finds in chunks that it can open.
RestoredOf(chunk) == RestoredRecords(chunk.cipher.payload.plain)

Found(cs) == [i \in DOMAIN cs |-> RestoredOf(cs[i])]

Restored(cs) == FlattenSeq(Found(cs))

\* The records as a restore hands them out.
Result == {Ok(Faithful(r)) : r \in Raw}

\* A chunk of either version opens with its own key, and with no other.
LEMMA Decrypting ==
    ASSUME NEW text, NEW key, NEW pass
    PROVE  /\ DecryptChunk(EncryptChunk(1, Plain(text), key), pass) =
                IF pass = key THEN Ok(text) ELSE Failed
           /\ DecryptChunk(EncryptChunk(2, Compressed(text), key), pass) =
                IF pass = key THEN Ok(text) ELSE Failed
<1> DEFINE old == EncryptChunk(1, Plain(text), key)
           new == EncryptChunk(2, Compressed(text), key)
<1>1. /\ old.version = 1 /\ old.secret = key /\ old.payload = Plain(text)
      /\ new.version = 2 /\ new.secret = key /\ new.payload = Compressed(text)
  BY DEF EncryptChunk
<1>2. /\ Plain(text).plain = text
      /\ Compressed(text).plain = text /\ Compressed(text).zstd
  BY DEF Plain, Compressed
<1> HIDE DEF old, new
<1>3. DecryptChunk(old, pass) = IF pass = key THEN Ok(text) ELSE Failed
  BY <1>1, <1>2 DEF DecryptChunk, SameKey
<1>4. DecryptChunk(new, pass) = IF pass = key THEN Ok(text) ELSE Failed
  BY <1>1, <1>2 DEF DecryptChunk, SameKey
<1> QED
  BY <1>3, <1>4 DEF old, new

\* Every chunk is of some records, opens with the archive key, and holds them.
LEMMA ChunkType ==
    ASSUME NEW c \in Chunk
    PROVE  \E rs \in Batch :
             /\ DOMAIN c = {"record_count", "plain_hash", "plain_bytes", "cipher"}
             /\ c.record_count = Len(rs) /\ c.plain_hash = Digest(Text(rs))
             /\ c.plain_bytes = Len(Text(rs))
             /\ c.cipher.payload.plain = Text(rs) /\ c.cipher.secret = "archive key"
             /\ DecryptChunk(c.cipher, "archive key") = Ok(Text(rs))
<1>1. PICK version \in {1, 2}, rs \in Batch : c = Made(version, rs)
  BY DEF Chunk
<1>2. /\ DOMAIN c = {"record_count", "plain_hash", "plain_bytes", "cipher"}
      /\ c.record_count = Len(rs) /\ c.plain_hash = Digest(Text(rs))
      /\ c.plain_bytes = Len(Text(rs))
      /\ c.cipher = EncryptChunk(version, IF version = 2 THEN Compressed(Text(rs))
                                         ELSE Plain(Text(rs)), "archive key")
  BY <1>1 DEF Made
<1>3. \/ c.cipher = EncryptChunk(1, Plain(Text(rs)), "archive key")
      \/ c.cipher = EncryptChunk(2, Compressed(Text(rs)), "archive key")
  BY <1>2
<1>4. c.cipher.payload.plain = Text(rs) /\ c.cipher.secret = "archive key"
  <2> DEFINE old == EncryptChunk(1, Plain(Text(rs)), "archive key")
             new == EncryptChunk(2, Compressed(Text(rs)), "archive key")
  <2>1. /\ old.payload = Plain(Text(rs)) /\ old.secret = "archive key"
        /\ new.payload = Compressed(Text(rs)) /\ new.secret = "archive key"
    BY DEF EncryptChunk
  <2>2. Plain(Text(rs)).plain = Text(rs) /\ Compressed(Text(rs)).plain = Text(rs)
    BY DEF Plain, Compressed
  <2>3. c.cipher = old \/ c.cipher = new
    BY <1>3
  <2> HIDE DEF old, new
  <2> QED
    BY <2>1, <2>2, <2>3
<1>5. DecryptChunk(c.cipher, "archive key") = Ok(Text(rs))
  BY <1>3, Decrypting
<1> QED
  BY <1>2, <1>4, <1>5

\* The results of records, one by one.
LEMMA ResultsType ==
    ASSUME NEW rs \in Seq(Raw)
    PROVE  /\ Results(rs) \in Seq(Result) /\ Len(Results(rs)) = Len(rs)
           /\ \A i \in 1..Len(rs) : Results(rs)[i] = Ok(Faithful(rs[i]))
<1> DEFINE u == Results(rs)
<1>1. DOMAIN rs = 1..Len(rs) /\ Len(rs) \in Nat
  BY LenProperties
<1>2. /\ u = [i \in 1..Len(rs) |-> u[i]]
      /\ \A i \in 1..Len(rs) : u[i] = Ok(Faithful(rs[i]))
  BY <1>1 DEF Results
<1> HIDE DEF u
<1>3. ASSUME NEW i \in 1..Len(rs) PROVE u[i] \in Result
  BY <1>2, ElementOfSeq DEF Result
<1>4. u \in Seq(Result) /\ Len(u) = Len(rs)
  BY <1>1, <1>2, <1>3, IsSequence
<1> QED
  BY <1>2, <1>4 DEF u

\* The results of records and then of others.
LEMMA ResultsConcat ==
    ASSUME NEW a \in Seq(Raw), NEW b \in Seq(Raw)
    PROVE  Results(a \o b) = Results(a) \o Results(b)
<1> DEFINE c == a \o b
           u == Results(a)
           v == Results(b)
           w == Results(c)
<1>1. /\ c \in Seq(Raw) /\ Len(c) = Len(a) + Len(b) /\ Len(a) \in Nat /\ Len(b) \in Nat
      /\ \A i \in 1..(Len(a) + Len(b)) : c[i] = IF i <= Len(a) THEN a[i] ELSE b[i - Len(a)]
  BY ConcatProperties, LenProperties
<1> HIDE DEF c
<1>2. /\ u \in Seq(Result) /\ Len(u) = Len(a)
      /\ \A i \in 1..Len(a) : u[i] = Ok(Faithful(a[i]))
  BY ResultsType
<1>3. /\ v \in Seq(Result) /\ Len(v) = Len(b)
      /\ \A i \in 1..Len(b) : v[i] = Ok(Faithful(b[i]))
  BY ResultsType
<1>4. /\ w \in Seq(Result) /\ Len(w) = Len(c)
      /\ \A i \in 1..Len(c) : w[i] = Ok(Faithful(c[i]))
  BY <1>1, ResultsType
<1> HIDE DEF u, v, w
<1>5. /\ u \o v \in Seq(Result) /\ Len(u \o v) = Len(u) + Len(v)
      /\ \A i \in 1..(Len(u) + Len(v)) :
           (u \o v)[i] = IF i <= Len(u) THEN u[i] ELSE v[i - Len(u)]
  <2>1. u \in Seq(Result) /\ v \in Seq(Result)
    BY <1>2, <1>3
  <2> QED
    BY ONLY <2>1, ConcatProperties
<1>6. ASSUME NEW i \in 1..Len(w) PROVE w[i] = (u \o v)[i]
  <2>1. i \in 1..Len(c) /\ i \in 1..(Len(a) + Len(b)) /\ i \in 1..(Len(u) + Len(v))
    BY <1>1, <1>2, <1>3, <1>4
  <2>2. CASE i <= Len(a)
    <3>1. i \in 1..Len(a) /\ i <= Len(u)
      BY <1>2, <2>1, <2>2
    <3> QED
      BY <1>1, <1>2, <1>4, <1>5, <2>1, <2>2, <3>1
  <2>3. CASE ~ i <= Len(a)
    <3>1. i - Len(a) \in 1..Len(b) /\ ~ i <= Len(u) /\ Len(u) = Len(a)
      BY <1>1, <1>2, <2>1, <2>3
    <3>2. w[i] = Ok(Faithful(b[i - Len(a)]))
      BY <1>1, <1>4, <2>1, <2>3
    <3>3. (u \o v)[i] = v[i - Len(a)]
      BY <1>5, <2>1, <3>1
    <3> QED
      BY <1>3, <3>1, <3>2, <3>3
  <2> QED
    BY <2>2, <2>3
<1>7. Len(w) = Len(u \o v)
  BY <1>1, <1>2, <1>3, <1>4, <1>5
<1>8. w = u \o v
  BY <1>4, <1>5, <1>6, <1>7, SeqEqual
<1> QED
  BY <1>8 DEF c, u, v, w

\* A restore finds records in each.
LEMMA FoundType ==
    ASSUME NEW cs \in Seq(Chunk)
    PROVE  /\ Found(cs) \in Seq(Seq(Result)) /\ Len(Found(cs)) = Len(cs)
           /\ \A i \in 1..Len(cs) : Found(cs)[i] = RestoredOf(cs[i])
<1> DEFINE u == Found(cs)
<1>1. DOMAIN cs = 1..Len(cs) /\ Len(cs) \in Nat
  BY LenProperties
<1>2. u = [i \in 1..Len(cs) |-> u[i]] /\ \A i \in 1..Len(cs) : u[i] = RestoredOf(cs[i])
  BY <1>1 DEF Found
<1> HIDE DEF u
<1>3. ASSUME NEW i \in 1..Len(cs) PROVE u[i] \in Seq(Result)
  <2>1. PICK rs \in Batch : cs[i].cipher.payload.plain = Text(rs)
    BY ElementOfSeq, ChunkType
  <2>2. RestoredOf(cs[i]) = Results(rs) /\ rs \in Seq(Raw)
    BY <2>1, ChunkRoundTrip DEF Batch, RestoredOf
  <2> QED
    BY <1>2, <2>2, ResultsType
<1>4. u \in Seq(Seq(Result)) /\ Len(u) = Len(cs)
  BY <1>1, <1>2, <1>3, IsSequence
<1> QED
  BY <1>2, <1>4 DEF u

\* What two sequences of chunks hold is what the one and then the other holds.
LEMMA RestoredConcat ==
    ASSUME NEW a \in Seq(Chunk), NEW b \in Seq(Chunk)
    PROVE  /\ Restored(a \o b) = Restored(a) \o Restored(b)
           /\ a \o b \in Seq(Chunk)
           /\ Restored(a) \in Seq(Result)
<1> DEFINE c == a \o b
<1>1. /\ c \in Seq(Chunk) /\ Len(c) = Len(a) + Len(b) /\ Len(a) \in Nat /\ Len(b) \in Nat
      /\ \A i \in 1..(Len(a) + Len(b)) : c[i] = IF i <= Len(a) THEN a[i] ELSE b[i - Len(a)]
  BY ConcatProperties, LenProperties
<1> HIDE DEF c
<1> DEFINE u == Found(a)
           v == Found(b)
           w == Found(c)
<1>2. /\ u \in Seq(Seq(Result)) /\ Len(u) = Len(a)
      /\ \A i \in 1..Len(a) : u[i] = RestoredOf(a[i])
  BY FoundType
<1>3. /\ v \in Seq(Seq(Result)) /\ Len(v) = Len(b)
      /\ \A i \in 1..Len(b) : v[i] = RestoredOf(b[i])
  BY FoundType
<1>4. /\ w \in Seq(Seq(Result)) /\ Len(w) = Len(c)
      /\ \A i \in 1..Len(c) : w[i] = RestoredOf(c[i])
  BY <1>1, FoundType
<1> HIDE DEF u, v, w
<1>5. /\ u \o v \in Seq(Seq(Result)) /\ Len(u \o v) = Len(u) + Len(v)
      /\ \A i \in 1..(Len(u) + Len(v)) :
           (u \o v)[i] = IF i <= Len(u) THEN u[i] ELSE v[i - Len(u)]
  <2>1. u \in Seq(Seq(Result)) /\ v \in Seq(Seq(Result))
    BY <1>2, <1>3
  <2> QED
    BY ONLY <2>1, ConcatProperties
<1>6. ASSUME NEW i \in 1..Len(w) PROVE w[i] = (u \o v)[i]
  <2>1. i \in 1..Len(c) /\ i \in 1..(Len(a) + Len(b)) /\ i \in 1..(Len(u) + Len(v))
    BY <1>1, <1>2, <1>3, <1>4
  <2>2. CASE i <= Len(a)
    <3>1. i \in 1..Len(a) /\ i <= Len(u)
      BY <1>2, <2>1, <2>2
    <3> QED
      BY <1>1, <1>2, <1>4, <1>5, <2>1, <2>2, <3>1
  <2>3. CASE ~ i <= Len(a)
    <3>1. i - Len(a) \in 1..Len(b) /\ ~ i <= Len(u) /\ Len(u) = Len(a)
      BY <1>1, <1>2, <2>1, <2>3
    <3>2. w[i] = RestoredOf(b[i - Len(a)])
      BY <1>1, <1>4, <2>1, <2>3
    <3>3. (u \o v)[i] = v[i - Len(a)]
      BY <1>5, <2>1, <3>1
    <3> QED
      BY <1>3, <3>1, <3>2, <3>3
  <2> QED
    BY <2>2, <2>3
<1>7. Len(w) = Len(u \o v)
  BY <1>1, <1>2, <1>3, <1>4, <1>5
<1>8. w = u \o v
  BY <1>4, <1>5, <1>6, <1>7, SeqEqual
<1>9. FlattenSeq(w) = FlattenSeq(u) \o FlattenSeq(v)
  BY <1>2, <1>3, <1>8, FlattenConcat
<1>10. FlattenSeq(u) \in Seq(Result)
  BY <1>2, FlattenType
<1> QED
  BY <1>1, <1>9, <1>10 DEF c, u, v, w, Restored

\* A chunk of the records rs holds them.
LEMMA MadeHolds ==
    ASSUME NEW version \in {1, 2}, NEW rs \in Batch
    PROVE  /\ Made(version, rs) \in Chunk
           /\ Restored(<<Made(version, rs)>>) = Results(rs)
<1> DEFINE c == Made(version, rs)
<1>1. c \in Chunk
  BY DEF Chunk
<1>2. c.cipher.payload.plain = Text(rs)
  <2>1. c.cipher = EncryptChunk(version, IF version = 2 THEN Compressed(Text(rs))
                                         ELSE Plain(Text(rs)), "archive key")
    BY DEF Made
  <2> DEFINE old == EncryptChunk(1, Plain(Text(rs)), "archive key")
             new == EncryptChunk(2, Compressed(Text(rs)), "archive key")
  <2>2. old.payload = Plain(Text(rs)) /\ new.payload = Compressed(Text(rs))
    BY DEF EncryptChunk
  <2>3. Plain(Text(rs)).plain = Text(rs) /\ Compressed(Text(rs)).plain = Text(rs)
    BY DEF Plain, Compressed
  <2>4. c.cipher = old \/ c.cipher = new
    BY <2>1
  <2> HIDE DEF old, new, c
  <2> QED
    BY <2>2, <2>3, <2>4
<1> HIDE DEF c
<1>3. RestoredOf(c) = Results(rs)
  BY <1>2, ChunkRoundTrip DEF Batch, RestoredOf
<1>4. <<c>> \in Seq(Chunk) /\ Len(<<c>>) = 1 /\ <<c>>[1] = c
  BY <1>1
<1>5. Found(<<c>>) = <<RestoredOf(c)>>
  BY DEF Found
<1>6. Restored(<<c>>) = RestoredOf(c)
  <2>1. RestoredOf(c) \in Seq(Result)
    BY <1>3, ResultsType DEF Batch
  <2> QED
    BY <1>5, <2>1, FlattenOne DEF Restored
<1> QED
  BY <1>1, <1>3, <1>6 DEF c

\* What stage_records_chunk makes of the lines of records is a chunk of them.
LEMMA StagedIsMade ==
    ASSUME NEW rs \in Batch, archive_key = "archive key"
    PROVE  StagedChunk(Lines(rs)) = Made(2, rs)
<1>1. Len(Lines(rs)) = Len(rs)
  BY LinesType DEF Batch
<1> QED
  BY <1>1 DEF StagedChunk, Made, Text

\* The text of one record is its line.
LEMMA OneLine ==
    ASSUME NEW r \in Raw
    PROVE  /\ <<r>> \in Batch /\ Len(<<r>>) = 1
           /\ Lines(<<r>>) = <<RecordLine(r)>>
           /\ Text(<<r>>) = RecordLine(r)
<1>1. <<r>> \in Batch /\ Len(<<r>>) = 1
  BY DEF Batch
<1>2. Lines(<<r>>) = <<RecordLine(r)>>
  BY DEF Lines
<1>3. Text(<<r>>) = RecordLine(r)
  BY <1>2, LineType, JoinOne DEF Text
<1> QED
  BY <1>1, <1>2, <1>3

\* The chunk of an older version is one of its record.
LEMMA OldIsMade ==
    ASSUME NEW r \in Raw
    PROVE  OldChunk(r, "archive key") = Made(1, <<r>>) /\ <<r>> \in Batch
<1>1. <<r>> \in Batch /\ Len(<<r>>) = 1
  BY OneLine
<1>3. Text(<<r>>) = RecordLine(r)
  BY OneLine
<1>4. OldChunk(r, "archive key") =
        [record_count |-> 1, plain_hash |-> Digest(RecordLine(r)),
         plain_bytes |-> Len(RecordLine(r)),
         cipher |-> EncryptChunk(1, Plain(RecordLine(r)), "archive key")]
  BY DEF OldChunk
<1>5. Made(1, <<r>>) =
        [record_count |-> Len(<<r>>), plain_hash |-> Digest(Text(<<r>>)),
         plain_bytes |-> Len(Text(<<r>>)),
         cipher |-> EncryptChunk(1, Plain(Text(<<r>>)), "archive key")]
  <2>1. (IF 1 = 2 THEN Compressed(Text(<<r>>)) ELSE Plain(Text(<<r>>))) = Plain(Text(<<r>>))
    OBVIOUS
  <2> QED
    BY <2>1 DEF Made
<1> QED
  BY <1>1, <1>3, <1>4, <1>5

(* The inductive invariant *)

\* The records a backup has taken are those in its pending chunks and then
\* those whose lines it holds; and it holds some once it has closed a chunk.
Staged(done, current) ==
    /\ done \in Seq(Raw) /\ current \in Seq(Raw)
    /\ pushed = done \o current
    /\ Restored(pending_chunks) = Results(done)
    /\ current_records = Lines(current)
    /\ pending_chunks # <<>> => current # <<>>

\* No backup, no stager.
Idle ==
    archive_key = None =>
        /\ pending_chunks = <<>> /\ pushed = <<>>
        /\ current_records = <<>> /\ current_plain_bytes = 0

FormatInv ==
    /\ KeysInv
    /\ archive_key \in {None, "archive key"}
    /\ chunk_plain_limit \in Limits \cup {0}
    /\ archived \in Seq(Raw) /\ chunks \in Seq(Chunk) /\ pending_chunks \in Seq(Chunk)
    /\ Restored(chunks) = Results(archived)
    /\ \E done, current \in Seq(Raw) : Staged(done, current)
    /\ Idle
    /\ ChunksFilled

\* Of nothing there is nothing.
LEMMA Nothing ==
    /\ Lines(<<>>) = <<>> /\ Results(<<>>) = <<>> /\ Restored(<<>>) = <<>>
    /\ Join(<<>>, "\n") = <<>> /\ Len(<<>>) = 0 /\ <<>> \in Seq(Raw) /\ <<>> \in Seq(Chunk)
<1>1. Lines(<<>>) = <<>>
  BY SMT DEF Lines
<1>2. Results(<<>>) = <<>>
  BY SMT DEF Results
<1>3. Found(<<>>) = <<>>
  BY SMT DEF Found
<1>4. Restored(<<>>) = <<>>
  BY <1>3, FlattenEmpty DEF Restored
<1>5. Len(<<>>) = 0 /\ <<>> \in Seq(Raw) /\ <<>> \in Seq(Chunk)
  OBVIOUS
<1> QED
  BY <1>1, <1>2, <1>4, <1>5, JoinEmpty

\* A stager that has taken nothing.
LEMMA EmptyStager ==
    pending_chunks = <<>> /\ pushed = <<>> /\ current_records = <<>> /\ current_plain_bytes = 0
        => Staged(<<>>, <<>>) /\ ChunksFilled
<1> SUFFICES ASSUME pending_chunks = <<>>, pushed = <<>>, current_records = <<>>,
                    current_plain_bytes = 0
             PROVE  Staged(<<>>, <<>>) /\ ChunksFilled
  OBVIOUS
<1>1. Staged(<<>>, <<>>)
  <2>1. <<>> \o <<>> = <<>>
    BY Nothing, ConcatEmptySeq
  <2> QED
    BY <2>1, Nothing DEF Staged
<1>2. ChunksFilled
  <2>1. \A i \in DOMAIN pending_chunks : FALSE
    BY Nothing
  <2> QED
    BY <2>1, Nothing DEF ChunksFilled
<1> QED
  BY <1>1, <1>2

\* A sequence of one.
LEMMA Single ==
    ASSUME NEW S, NEW x \in S
    PROVE  <<x>> \in Seq(S) /\ Len(<<x>>) = 1 /\ <<x>>[1] = x
OBVIOUS

\* The chunks of an archive that an older version made.
OldChunks(rs) == [i \in DOMAIN rs |-> OldChunk(rs[i], "archive key")]

\* There are as many as there are records.
LEMMA OldChunksAre ==
    /\ OldChunks(<<>>) = <<>>
    /\ \A r : OldChunks(<<r>>) = <<OldChunk(r, "archive key")>>
<1>1. OldChunks(<<>>) = <<>>
  BY SMT DEF OldChunks
<1>2. ASSUME NEW r PROVE OldChunks(<<r>>) = <<OldChunk(r, "archive key")>>
  <2> DEFINE x == OldChunk(r, "archive key")
             f == OldChunks(<<r>>)
  <2>1. DOMAIN <<r>> = 1..1 /\ <<r>>[1] = r
    OBVIOUS
  <2>2. f = [i \in 1..1 |-> OldChunk(<<r>>[i], "archive key")]
    BY <2>1 DEF OldChunks
  <2>3. f = [i \in 1..1 |-> f[i]] /\ f[1] = x
    <3>1. f = [i \in 1..1 |-> f[i]]
      BY <2>2
    <3>2. 1 \in 1..1
      OBVIOUS
    <3>3. f[1] = OldChunk(<<r>>[1], "archive key")
      BY <2>2, <3>2, Zenon
    <3> QED
      BY <2>1, <3>1, <3>3
  <2> HIDE DEF f, x
  <2>4. f \in Seq({x}) /\ Len(f) = 1
    <3>1. \A i \in 1..1 : f[i] \in {x}
      BY <2>3
    <3> QED
      BY <2>3, <3>1, IsSequence
  <2>5. <<x>> \in Seq({x}) /\ Len(<<x>>) = 1 /\ <<x>>[1] = x
    BY Single
  <2>6. \A i \in 1..Len(f) : f[i] = <<x>>[i]
    BY <2>3, <2>4, <2>5
  <2>7. f = <<x>>
    BY <2>4, <2>5, <2>6, SeqEqual
  <2> QED
    BY <2>7 DEF f, x
<1> QED
  BY <1>1, <1>2

\* init, and the chunk of an older version.
LEMMA FormatInit == Init => FormatInv
<1> SUFFICES ASSUME Init PROVE FormatInv
  OBVIOUS
<1>1. KeysInv
  BY DEF Init, KeysInv
<1>2. Staged(<<>>, <<>>) /\ ChunksFilled
  BY EmptyStager DEF Init
<1>3. /\ archived \in {<<>>} \cup {<<r>> : r \in Raw}
      /\ chunks = OldChunks(archived)
  BY DEF Init, OldChunks
<1>4. /\ archived \in Seq(Raw) /\ chunks \in Seq(Chunk)
      /\ Restored(chunks) = Results(archived)
  <2>1. CASE archived = <<>>
    BY <1>3, <2>1, Nothing, OldChunksAre
  <2>2. ASSUME NEW r \in Raw, archived = <<r>>
        PROVE  /\ archived \in Seq(Raw) /\ chunks \in Seq(Chunk)
               /\ Restored(chunks) = Results(archived)
    <3>1. chunks = <<Made(1, <<r>>)>> /\ <<r>> \in Batch
      BY <1>3, <2>2, OldIsMade, OldChunksAre
    <3>2. Made(1, <<r>>) \in Chunk /\ Restored(<<Made(1, <<r>>)>>) = Results(<<r>>)
      BY <3>1, MadeHolds
    <3> QED
      BY <2>2, <3>1, <3>2, Single
  <2> QED
    BY <1>3, <2>1, <2>2
<1>5. Idle
  BY DEF Init, Idle
<1>6. /\ archive_key \in {None, "archive key"}
      /\ chunk_plain_limit \in Limits \cup {0}
      /\ pending_chunks = <<>>
  BY DEF Init
<1> QED
  BY <1>1, <1>2, <1>4, <1>5, <1>6, Nothing DEF FormatInv

(* The steps of the stager *)

\* A sequence of records has lines if and only if it has records.
LEMMA LinesEmpty ==
    ASSUME NEW rs \in Seq(Raw)
    PROVE  Lines(rs) = <<>> <=> rs = <<>>
<1>1. rs # <<>> => Len(Lines(rs)) # 0
  BY LinesType, EmptySeq
<1> QED
  BY <1>1, Nothing

\* With a chunk of what the stager has the lines of, the chunks hold that too.
LEMMA MoreHeld ==
    ASSUME NEW cs \in Seq(Chunk), NEW done \in Seq(Raw), NEW current \in Seq(Raw),
           current # <<>>, Restored(cs) = Results(done)
    PROVE  /\ Append(cs, Made(2, current)) = cs \o <<Made(2, current)>>
           /\ cs \o <<Made(2, current)>> \in Seq(Chunk)
           /\ Restored(cs \o <<Made(2, current)>>) = Results(done \o current)
<1> DEFINE c == Made(2, current)
<1>1. c \in Chunk /\ Restored(<<c>>) = Results(current)
  BY MadeHolds DEF Batch
<1> HIDE DEF c
<1>2. <<c>> \in Seq(Chunk)
  BY <1>1, Single
<1>3. Restored(cs \o <<c>>) = Restored(cs) \o Restored(<<c>>) /\ cs \o <<c>> \in Seq(Chunk)
  BY <1>2, RestoredConcat
<1>4. Results(done \o current) = Results(done) \o Results(current)
  BY ResultsConcat
<1>5. Append(cs, c) = cs \o <<c>>
  BY <1>1, AppendIsConcat
<1> QED
  BY <1>1, <1>3, <1>4, <1>5 DEF c

\* One more record at the end of two sequences of them.
LEMMA PushedMore ==
    ASSUME NEW done \in Seq(Raw), NEW current \in Seq(Raw), NEW r \in Raw
    PROVE  /\ Append(done \o current, r) = (done \o current) \o <<r>>
           /\ Append(done \o current, r) = done \o Append(current, r)
           /\ done \o current \in Seq(Raw) /\ <<r>> \in Seq(Raw)
           /\ Append(current, r) \in Seq(Raw) /\ Append(current, r) # <<>>
<1>1. done \o current \in Seq(Raw) /\ <<r>> \in Seq(Raw)
  BY ConcatProperties, Single
<1>2. Append(done \o current, r) = (done \o current) \o <<r>>
  BY <1>1, AppendIsConcat
<1>3. Append(current, r) = current \o <<r>>
  BY AppendIsConcat
<1>4. (done \o current) \o <<r>> = done \o (current \o <<r>>)
  BY <1>1, ConcatAssociative
<1> QED
  BY <1>1, <1>2, <1>3, <1>4, AppendProperties

\* The last chunk is of the records whose lines the stager has.
LEMMA LastHolds ==
    ASSUME NEW current \in Seq(Raw), current_records = Lines(current),
           archive_key = "archive key"
    PROVE  LastChunk \in Seq(Chunk) /\ Restored(LastChunk) = Results(current)
<1>1. CASE current = <<>>
  <2>1. LastChunk = <<>>
    BY <1>1, LinesEmpty DEF LastChunk
  <2> QED
    BY <1>1, <2>1, Nothing
<1>2. CASE current # <<>>
  <2>1. current \in Batch
    BY <1>2 DEF Batch
  <2>2. StagedChunk(current_records) = Made(2, current)
    BY <2>1, StagedIsMade
  <2>3. LastChunk = <<Made(2, current)>>
    BY <1>2, <2>2, LinesEmpty DEF LastChunk
  <2>4. Made(2, current) \in Chunk /\ Restored(<<Made(2, current)>>) = Results(current)
    BY <2>1, MadeHolds
  <2> QED
    BY <2>3, <2>4, Single
<1> QED
  BY <1>1, <1>2

\* A backup that unlocks the archive has its key, and a stager that is empty.
LEMMA FormatBegin ==
    ASSUME FormatInv, NEW cli \in Cli, NEW limit \in Limits, BeginBackup(cli, limit)
    PROVE  FormatInv'
<1>1. KeysInv' /\ archive_key' = "archive key" /\ chunk_plain_limit' \in Limits \cup {0}
  <2>1. archive_key' = "archive key"
    BY Unlocked DEF FormatInv, BeginBackup
  <2> QED
    BY <2>1 DEF FormatInv, BeginBackup, KeysInv
<1>2. /\ pending_chunks' = <<>> /\ pushed' = <<>>
      /\ current_records' = <<>> /\ current_plain_bytes' = 0
  BY DEF FormatInv, Idle, BeginBackup
<1>3. Staged(<<>>, <<>>)' /\ ChunksFilled'
  <2>1. (pending_chunks = <<>> /\ pushed = <<>> /\ current_records = <<>>
            /\ current_plain_bytes = 0 => Staged(<<>>, <<>>) /\ ChunksFilled)'
    BY EmptyStager, PTL
  <2> QED
    BY <1>2, <2>1
<1>4. Idle'
  BY <1>2 DEF Idle
<1>5. /\ archived' \in Seq(Raw) /\ chunks' \in Seq(Chunk)
      /\ Restored(chunks') = Results(archived')
  BY DEF FormatInv, BeginBackup
<1>6. pending_chunks' \in Seq(Chunk) /\ \E done, current \in Seq(Raw) : Staged(done, current)'
  BY <1>2, <1>3, Nothing
<1> QED
  BY <1>1, <1>3, <1>4, <1>5, <1>6 DEF FormatInv

\* The archive holds what it held and what the stager was given.
LEMMA FormatFinish == FormatInv /\ Finish => FormatInv'
<1> SUFFICES ASSUME FormatInv, Finish PROVE FormatInv'
  OBVIOUS
<1>1. /\ pending_chunks' = <<>> /\ pushed' = <<>>
      /\ current_records' = <<>> /\ current_plain_bytes' = 0
      /\ archive_key' = None /\ chunk_plain_limit' = 0
  BY DEF Finish
<1>2. Staged(<<>>, <<>>)' /\ ChunksFilled'
  <2>1. (pending_chunks = <<>> /\ pushed = <<>> /\ current_records = <<>>
            /\ current_plain_bytes = 0 => Staged(<<>>, <<>>) /\ ChunksFilled)'
    BY EmptyStager, PTL
  <2> QED
    BY <1>1, <2>1
<1>3. /\ archived' \in Seq(Raw) /\ chunks' \in Seq(Chunk)
      /\ Restored(chunks') = Results(archived')
  <2>1. PICK done, current \in Seq(Raw) : Staged(done, current)
    BY DEF FormatInv
  <2>2. archive_key = "archive key"
    BY DEF FormatInv, Finish
  <2>3. LastChunk \in Seq(Chunk) /\ Restored(LastChunk) = Results(current)
    BY <2>1, <2>2, LastHolds DEF Staged
  <2>4. /\ archived \in Seq(Raw) /\ chunks \in Seq(Chunk) /\ pending_chunks \in Seq(Chunk)
        /\ Restored(chunks) = Results(archived) /\ Restored(pending_chunks) = Results(done)
        /\ pushed = done \o current
    BY <2>1 DEF FormatInv, Staged
  <2>5. /\ chunks' = (chunks \o pending_chunks) \o LastChunk
        /\ archived' = archived \o (done \o current)
    BY <2>4 DEF Finish
  <2>6. /\ chunks \o pending_chunks \in Seq(Chunk)
        /\ Restored(chunks \o pending_chunks) = Results(archived) \o Results(done)
    BY <2>4, RestoredConcat
  <2>7. /\ (chunks \o pending_chunks) \o LastChunk \in Seq(Chunk)
        /\ Restored((chunks \o pending_chunks) \o LastChunk)
              = (Results(archived) \o Results(done)) \o Results(current)
    BY <2>3, <2>6, RestoredConcat
  <2>8. archived \o done \in Seq(Raw) /\ archived \o (done \o current) \in Seq(Raw)
    BY <2>4, ConcatProperties
  <2>9. Results((archived \o done) \o current)
          = (Results(archived) \o Results(done)) \o Results(current)
    BY <2>4, <2>8, ResultsConcat
  <2>10. (archived \o done) \o current = archived \o (done \o current)
    BY <2>4, ConcatAssociative
  <2> QED
    BY <2>5, <2>7, <2>8, <2>9, <2>10
<1>4. KeysInv'
  BY DEF FormatInv, Finish, KeysInv
<1>5. Idle'
  BY <1>1 DEF Idle
<1>6. pending_chunks' \in Seq(Chunk) /\ \E done, current \in Seq(Raw) : Staged(done, current)'
  BY <1>1, <1>2, Nothing
<1> QED
  BY <1>1, <1>2, <1>3, <1>4, <1>5, <1>6 DEF FormatInv

\* What ChunksFilled says of the lines that the stager still has.
LEMMA Filling ==
    ASSUME FormatInv, NEW current \in Seq(Raw), current_records = Lines(current)
    PROVE  /\ current_plain_bytes = Len(Text(current)) /\ current_plain_bytes \in Nat
           /\ Len(current) > 1 => current_plain_bytes <= chunk_plain_limit
           /\ chunk_plain_limit \in Nat
           /\ current # <<>> => current_records[1] = RecordLine(current[1])
<1>1. current_plain_bytes = Len(Text(current))
  BY DEF FormatInv, ChunksFilled, Text
<1>2. Len(Text(current)) \in Nat
  <2>1. CASE current = <<>>
    BY <2>1, Nothing DEF Text
  <2> QED
    BY <2>1, TextLines
<1>3. Len(current_records) = Len(current)
  BY LinesType
<1>4. Len(current) > 1 => current_plain_bytes <= chunk_plain_limit
  BY <1>3 DEF FormatInv, ChunksFilled
<1>5. chunk_plain_limit \in Nat
  <2>1. chunk_plain_limit \in Limits \cup {0}
    BY DEF FormatInv
  <2> QED
    BY <2>1, LimitAssumption
<1>6. ASSUME current # <<>> PROVE current_records[1] = RecordLine(current[1])
  <2>1. DOMAIN current = 1..Len(current) /\ 1 \in 1..Len(current)
    BY <1>6, LenProperties, EmptySeq
  <2> QED
    BY <2>1 DEF Lines
<1> QED
  BY <1>1, <1>2, <1>4, <1>5, <1>6

\* The size of a line.
LEMMA LineLength ==
    ASSUME NEW r \in Raw
    PROVE  Len(RecordLine(r)) \in Nat
<1>1. RecordLine(r) \in Seq(LineChar)
  BY LineType DEF LineChar
<1> QED
  BY <1>1, LenProperties

\* A record that no longer fits: the chunk of those before it is closed.
LEMMA FormatClose ==
    ASSUME FormatInv, NEW r \in Raw, Push(r),
           current_records # <<>>, ~ Room(Len(RecordLine(r)))
    PROVE  /\ pending_chunks' \in Seq(Chunk)
           /\ \E done, current \in Seq(Raw) : Staged(done, current)'
           /\ ChunksFilled'
<1> DEFINE line == RecordLine(r)
<1>1. PICK done, current \in Seq(Raw) : Staged(done, current)
  BY DEF FormatInv
<1>2. /\ pushed = done \o current /\ current_records = Lines(current) /\ current # <<>>
      /\ Restored(pending_chunks) = Results(done) /\ pending_chunks \in Seq(Chunk)
      /\ archive_key = "archive key"
  BY <1>1, LinesEmpty DEF FormatInv, Staged, Push
<1>3. /\ pending_chunks' = Append(pending_chunks, StagedChunk(current_records))
      /\ current_records' = <<line>> /\ pushed' = Append(pushed, r)
      /\ current_plain_bytes' = Len(line) /\ chunk_plain_limit' = chunk_plain_limit
  BY DEF Push, BytesAfter
<1>4. StagedChunk(current_records) = Made(2, current) /\ current \in Batch
  BY <1>2, StagedIsMade DEF Batch
<1>5. /\ pending_chunks' \in Seq(Chunk)
      /\ Restored(pending_chunks') = Results(done \o current)
  BY <1>2, <1>3, <1>4, MoreHeld
<1>6. Lines(<<r>>) = <<line>> /\ Text(<<r>>) = line /\ Len(<<r>>) = 1 /\ <<r>> # <<>>
  BY OneLine DEF Batch
<1>7. /\ done \o current \in Seq(Raw) /\ <<r>> \in Seq(Raw)
      /\ pushed' = (done \o current) \o <<r>>
  BY <1>2, <1>3, PushedMore
<1>8. Staged(done \o current, <<r>>)'
  BY <1>3, <1>5, <1>6, <1>7 DEF Staged
<1>9. ChunksFilled'
  <2> DEFINE c == Made(2, current)
             P == pending_chunks
             Q == pending_chunks'
  <2>1. /\ Q = Append(P, c) /\ c \in Chunk /\ P \in Seq(Chunk)
    BY <1>2, <1>3, <1>4, MadeHolds
  <2>2. /\ Q \in Seq(Chunk) /\ Len(Q) = Len(P) + 1 /\ Len(P) \in Nat
        /\ DOMAIN Q = 1..(Len(P) + 1) /\ DOMAIN P = 1..Len(P)
        /\ \A i \in 1..Len(P) : Q[i] = P[i]
        /\ Q[Len(P) + 1] = c
    <3> HIDE DEF c, P, Q
    <3> QED
      BY <2>1, AppendProperties, LenProperties
  <2>3. /\ c.record_count = Len(current) /\ c.plain_bytes = Len(Text(current))
        /\ c.cipher.payload.plain = Text(current)
    <3>1. c.record_count = Len(current) /\ c.plain_bytes = Len(Text(current))
      BY DEF Made
    <3>2. c.cipher = EncryptChunk(2, Compressed(Text(current)), "archive key")
      BY DEF Made
    <3>3. EncryptChunk(2, Compressed(Text(current)), "archive key").payload.plain = Text(current)
      BY DEF EncryptChunk, Compressed
    <3> QED
      BY <3>1, <3>2, <3>3
  <2>4. Split(Text(current), "\n")[1] = current_records[1]
    BY <1>1, <1>2, ChunkRoundTrip, Filling
  <2>5. /\ current_plain_bytes = Len(Text(current)) /\ current_plain_bytes \in Nat
        /\ Len(current) > 1 => current_plain_bytes <= chunk_plain_limit
        /\ chunk_plain_limit \in Nat /\ Len(line) \in Nat
    BY <1>2, Filling, LineLength
  <2>6. current_plain_bytes + 1 + Len(line) > chunk_plain_limit
    BY <2>5 DEF Room
  <2> HIDE DEF c, P, Q, line
  <2>7. ASSUME NEW i \in 1..Len(P) PROVE NextLine(i)' = NextLine(i)
    <3>1. i < Len(Q) /\ i \in Nat /\ i + 1 \in 1..(Len(P) + 1)
      BY <2>2
    <3>2. NextLine(i)' = Split(Q[i + 1].cipher.payload.plain, "\n")[1]
      BY <3>1 DEF NextLine, Q
    <3>3. CASE i < Len(P)
      <4>1. i + 1 \in 1..Len(P)
        BY <2>2, <3>1, <3>3
      <4> QED
        BY <2>2, <3>2, <3>3, <4>1 DEF NextLine, P
    <3>4. CASE ~ i < Len(P)
      <4>1. i + 1 = Len(P) + 1
        BY <2>2, <3>1, <3>4
      <4>2. Q[i + 1] = c
        BY <2>2, <4>1
      <4> QED
        BY <2>3, <2>4, <3>2, <3>4, <4>2 DEF NextLine, P
    <3> QED
      BY <3>3, <3>4
  <2>8. ASSUME NEW i, i = Len(P) + 1 PROVE NextLine(i)' = line
    <3>1. ~ i < Len(Q)
      BY <2>2, <2>8
    <3>2. current_records'[1] = line
      BY <1>3 DEF line
    <3> QED
      BY <3>1, <3>2 DEF NextLine, Q
  <2>9. ASSUME NEW i \in DOMAIN Q
        PROVE  /\ Q[i].record_count > 1 => Q[i].plain_bytes <= chunk_plain_limit
               /\ Q[i].plain_bytes + 1 + Len(NextLine(i)') > chunk_plain_limit
    <3>1. CASE i \in 1..Len(P)
      <4>1. /\ P[i].record_count > 1 => P[i].plain_bytes <= chunk_plain_limit
            /\ P[i].plain_bytes + 1 + Len(NextLine(i)) > chunk_plain_limit
        BY <2>2, <3>1 DEF FormatInv, ChunksFilled, P
      <4> QED
        BY <2>2, <2>7, <3>1, <4>1
    <3>2. CASE i \notin 1..Len(P)
      <4>1. i = Len(P) + 1
        BY <2>2, <3>2
      <4>2. Q[i] = c /\ NextLine(i)' = line
        BY <2>2, <2>8, <4>1
      <4>3. /\ Q[i].record_count = Len(current)
            /\ Q[i].plain_bytes = current_plain_bytes
        BY <2>3, <2>5, <4>2
      <4> QED
        BY <2>5, <2>6, <4>2, <4>3
    <3> QED
      BY <3>1, <3>2
  <2>10. Len(Join(current_records, "\n"))' = current_plain_bytes'
    BY <1>3, <1>6 DEF Text, line
  <2>11. Len(current_records') = 1
    BY <1>3, <1>6
  <2> QED
    BY <1>3, <2>9, <2>10, <2>11 DEF ChunksFilled, Q
<1> QED
  BY <1>5, <1>7, <1>8, <1>9

\* A record that fits, or is the first of its chunk.
LEMMA FormatTake ==
    ASSUME FormatInv, NEW r \in Raw, Push(r),
           current_records = <<>> \/ Room(Len(RecordLine(r)))
    PROVE  /\ pending_chunks' \in Seq(Chunk)
           /\ \E done, current \in Seq(Raw) : Staged(done, current)'
           /\ ChunksFilled'
<1> DEFINE line == RecordLine(r)
           t    == Append(current_records, line)
<1>1. PICK done, current \in Seq(Raw) : Staged(done, current)
  BY DEF FormatInv
<1>2. /\ pushed = done \o current /\ current_records = Lines(current)
      /\ pending_chunks # <<>> => current # <<>>
      /\ Restored(pending_chunks) = Results(done) /\ pending_chunks \in Seq(Chunk)
  BY <1>1 DEF FormatInv, Staged
<1>3. /\ pending_chunks' = pending_chunks /\ current_records' = t
      /\ pushed' = Append(pushed, r) /\ current_plain_bytes' = BytesAfter(Len(line))
      /\ chunk_plain_limit' = chunk_plain_limit
  BY DEF Push
<1>4. t = Lines(Append(current, r))
  BY <1>2, LinesMore
<1>5. /\ pushed' = done \o Append(current, r)
      /\ Append(current, r) \in Seq(Raw) /\ Append(current, r) # <<>>
      /\ Len(Append(current, r)) = Len(current) + 1 /\ Len(current) \in Nat
  <2>1. Len(Append(current, r)) = Len(current) + 1 /\ Len(current) \in Nat
    BY AppendProperties, LenProperties
  <2> QED
    BY <1>2, <1>3, <2>1, PushedMore
<1>6. Staged(done, Append(current, r))'
  BY <1>2, <1>3, <1>4, <1>5 DEF Staged
<1>7. /\ current_plain_bytes = Len(Text(current)) /\ current_plain_bytes \in Nat
      /\ chunk_plain_limit \in Nat /\ Len(line) \in Nat
  BY <1>2, Filling, LineLength
<1>8. /\ Len(Join(t, "\n")) = current_plain_bytes'
      /\ Len(t) > 1 => current_plain_bytes' <= chunk_plain_limit
  <2>1. Lines(current) \in Seq(Seq(LineChar \cup {"\n"})) /\ Len(Lines(current)) = Len(current)
    <3>1. Seq(LineChar) \subseteq Seq(LineChar \cup {"\n"})
      BY SeqMonotonic
    <3> QED
      BY <3>1, LinesType, SeqMonotonic
  <2>2. line \in Seq(LineChar \cup {"\n"})
    BY LineType, SeqMonotonic DEF LineChar
  <2>3. Len(t) = Len(current) + 1
    BY <1>4, <1>5, LinesType
  <2>4. CASE current = <<>>
    <3>1. current_records = <<>> /\ t = <<line>> /\ Len(current) = 0
      <4>1. \A x : Append(<<>>, x) = <<x>>
        OBVIOUS
      <4>2. current_records = <<>> /\ Len(current) = 0
        BY <1>2, <2>4, Nothing
      <4> QED
        BY <4>1, <4>2
    <3>2. Join(t, "\n") = line
      BY <3>1, LineType, JoinOne
    <3>3. current_plain_bytes' = Len(line)
      BY <1>3, <3>1 DEF BytesAfter
    <3> QED
      BY <2>3, <3>1, <3>2, <3>3
  <2>5. CASE current # <<>>
    <3>1. current_records # <<>> /\ Room(Len(line))
      BY <1>2, <2>5, LinesEmpty
    <3>2. current_plain_bytes' = current_plain_bytes + 1 + Len(line)
      BY <1>3, <3>1 DEF BytesAfter
    <3>3. "\n" \in LineChar \cup {"\n"}
      OBVIOUS
    <3>4. Len(Join(t, "\n")) = Len(Join(current_records, "\n")) + 1 + Len(line)
      <4> HIDE DEF line
      <4> QED
        BY <1>2, <2>1, <2>2, <3>1, <3>3, JoinLength
    <3> QED
      BY <1>2, <1>7, <3>1, <3>2, <3>4 DEF Room, Text
  <2> QED
    BY <2>4, <2>5
<1>9. ASSUME NEW i \in DOMAIN pending_chunks PROVE NextLine(i)' = NextLine(i)
  <2>1. pending_chunks # <<>>
    BY <1>9, Nothing
  <2>2. current # <<>> /\ current_records[1] = RecordLine(current[1])
    BY <1>2, <2>1, Filling
  <2>3. current_records'[1] = current_records[1]
    <3>1. 1 \in 1..Len(current) /\ DOMAIN Append(current, r) = 1..(Len(current) + 1)
      BY <1>5, <2>2, EmptySeq, LenProperties
    <3>2. Append(current, r)[1] = current[1]
      BY <3>1, AppendProperties
    <3>3. Lines(Append(current, r))[1] = RecordLine(Append(current, r)[1])
      BY <1>5, <3>1 DEF Lines
    <3> QED
      BY <1>3, <1>4, <2>2, <3>2, <3>3
  <2> QED
    BY <1>3, <2>3 DEF NextLine
<1>10. ChunksFilled'
  <2>1. ASSUME NEW i \in DOMAIN pending_chunks
        PROVE  LET c == pending_chunks[i]
               IN  /\ c.record_count > 1 => c.plain_bytes <= chunk_plain_limit
                   /\ c.plain_bytes + 1 + Len(NextLine(i)) > chunk_plain_limit
    BY DEF FormatInv, ChunksFilled
  <2> HIDE DEF t
  <2> QED
    BY <1>3, <1>8, <1>9, <2>1 DEF ChunksFilled
<1> QED
  BY <1>2, <1>3, <1>5, <1>6, <1>10

\* ChunkStager::push, in either case.
LEMMA FormatPush ==
    ASSUME FormatInv, NEW r \in Raw, Push(r)
    PROVE  FormatInv'
<1>1. /\ pending_chunks' \in Seq(Chunk)
      /\ \E done, current \in Seq(Raw) : Staged(done, current)'
      /\ ChunksFilled'
  <2>1. CASE current_records # <<>> /\ ~ Room(Len(RecordLine(r)))
    BY <2>1, FormatClose
  <2>2. CASE current_records = <<>> \/ Room(Len(RecordLine(r)))
    BY <2>2, FormatTake
  <2> QED
    BY <2>1, <2>2
<1>2. KeysInv' /\ archive_key' \in {None, "archive key"} /\ chunk_plain_limit' \in Limits \cup {0}
  BY DEF FormatInv, Push, KeysInv
<1>3. /\ archived' \in Seq(Raw) /\ chunks' \in Seq(Chunk)
      /\ Restored(chunks') = Results(archived')
  BY DEF FormatInv, Push
<1>4. Idle'
  BY DEF Push, Idle
<1> QED
  BY <1>1, <1>2, <1>3, <1>4 DEF FormatInv

\* A step of something else.
LEMMA FormatStutter == FormatInv /\ UNCHANGED vars => FormatInv'
<1> SUFFICES ASSUME FormatInv, UNCHANGED vars PROVE FormatInv'
  OBVIOUS
<1> USE DEF vars, stager
<1>1. KeysInv' /\ Idle'
  BY DEF FormatInv, KeysInv, Idle
<1>2. \E done, current \in Seq(Raw) : Staged(done, current)'
  BY DEF FormatInv, Staged
<1>3. ChunksFilled'
  <2>1. \A i : NextLine(i)' = NextLine(i)
    BY DEF NextLine
  <2> QED
    BY <2>1 DEF FormatInv, ChunksFilled
<1> QED
  BY <1>1, <1>2, <1>3 DEF FormatInv

\* The chunks of the archive and of a backup that runs hold exactly the records
\* that were put in them, whatever was pushed, closed and unlocked.
THEOREM FormatInvariance == Spec => []FormatInv
<1>1. Init => FormatInv
  BY FormatInit
<1>2. FormatInv /\ [Next]_vars => FormatInv'
  <2> SUFFICES ASSUME FormatInv, [Next]_vars PROVE FormatInv'
    OBVIOUS
  <2>1. ASSUME NEW cli \in Cli, NEW limit \in Limits, BeginBackup(cli, limit) PROVE FormatInv'
    BY <2>1, FormatBegin
  <2>2. ASSUME NEW r \in Raw, Push(r) PROVE FormatInv'
    BY <2>2, FormatPush
  <2>3. CASE Finish
    BY <2>3, FormatFinish
  <2>4. CASE UNCHANGED vars
    BY <2>4, FormatStutter
  <2> QED
    BY <2>1, <2>2, <2>3, <2>4 DEF Next
<1> QED
  BY <1>1, <1>2, PTL DEF Spec

(* The properties *)

\* What is in a sequence is one of its elements.
LEMMA InRange ==
    ASSUME NEW S, NEW s \in Seq(S), NEW c \in Range(s)
    PROVE  c \in S
<1>1. PICK i \in DOMAIN s : c = s[i]
  BY DEF Range
<1>2. i \in 1..Len(s)
  BY LenProperties
<1> QED
  BY <1>1, <1>2, ElementOfSeq

\* Every variable has its type; every chunk, archived or pending, has a record
\* at least and is encrypted with the archive key.
THEOREM Typing == Spec => []TypeOK
<1>1. FormatInv => TypeOK
  <2> SUFFICES ASSUME FormatInv PROVE TypeOK
    OBVIOUS
  <2>1. PICK done, current \in Seq(Raw) : Staged(done, current)
    BY DEF FormatInv
  <2>2. pushed \in Seq(Raw)
    BY <2>1, ConcatProperties DEF Staged
  <2>3. current_plain_bytes \in Nat
    BY <2>1, Filling DEF Staged
  <2>4. DOMAIN keys = {"KEY_HASH", "PASS_WRAP_B64", "REC_WRAP_B64"}
    BY DEF FormatInv, KeysInv, CreatedKeys
  <2>5. ASSUME NEW c \in Range(chunks) \cup Range(pending_chunks)
        PROVE  /\ DOMAIN c = {"record_count", "plain_hash", "plain_bytes", "cipher"}
               /\ c.record_count \in Nat \ {0} /\ c.plain_bytes \in Nat
               /\ c.cipher.secret = "archive key"
    <3>1. c \in Chunk
      BY InRange DEF FormatInv
    <3>2. PICK rs \in Batch :
            /\ DOMAIN c = {"record_count", "plain_hash", "plain_bytes", "cipher"}
            /\ c.record_count = Len(rs) /\ c.plain_bytes = Len(Text(rs))
            /\ c.cipher.secret = "archive key"
      BY <3>1, ChunkType
    <3>3. Len(rs) \in Nat \ {0} /\ Len(Text(rs)) \in Nat
      BY EmptySeq, TextLines DEF Batch
    <3> QED
      BY <3>2, <3>3
  <2>6. /\ secrets \in [passphrase : Secret, recovery : Secret] /\ archived \in Seq(Raw)
        /\ archive_key \in {None, "archive key"} /\ chunk_plain_limit \in Limits \cup {0}
    BY DEF FormatInv, KeysInv
  <2> QED
    BY <2>2, <2>3, <2>4, <2>5, <2>6 DEF TypeOK
<1> QED
  BY <1>1, FormatInvariance, PTL

\* restore gives back every record of every backup, byte for byte and in order,
\* whoever unlocked the archive.
THEOREM RestoringArchived == Spec => []RestoredAsArchived
<1>1. FormatInv => RestoredAsArchived
  <2> SUFFICES ASSUME FormatInv PROVE RestoredAsArchived
    OBVIOUS
  <2>1. KeysInv /\ chunks \in Seq(Chunk) /\ Restored(chunks) = Results(archived)
    BY DEF FormatInv
  <2>2. DOMAIN chunks = 1..Len(chunks)
    BY <2>1, LenProperties
  <2>3. ASSUME NEW key \in {UnlockArchiveKey(cli).value :
                               cli \in {c \in Cli : UnlockArchiveKey(c).ok}}
        PROVE  key = "archive key"
    BY <2>1, <2>3, Unlocked
  <2> DEFINE opened == [i \in DOMAIN chunks |-> DecryptChunk(chunks[i].cipher, "archive key")]
  <2>4. ASSUME NEW i \in DOMAIN chunks
        PROVE  opened[i].ok /\ RestoredRecords(opened[i].value) = RestoredOf(chunks[i])
    <3>1. chunks[i] \in Chunk
      BY <2>1, <2>2, ElementOfSeq
    <3>2. PICK rs \in Batch : /\ chunks[i].cipher.payload.plain = Text(rs)
                              /\ DecryptChunk(chunks[i].cipher, "archive key") = Ok(Text(rs))
      BY <3>1, ChunkType
    <3>3. opened[i] = Ok(Text(rs))
      BY <3>2
    <3>4. Ok(Text(rs)).ok /\ Ok(Text(rs)).value = Text(rs)
      BY DEF Ok
    <3> HIDE DEF opened
    <3> QED
      BY <3>2, <3>3, <3>4 DEF RestoredOf
  <2>5. DOMAIN opened = DOMAIN chunks
    OBVIOUS
  <2>6. [i \in DOMAIN opened |-> RestoredRecords(opened[i].value)] = Found(chunks)
    <3> HIDE DEF opened
    <3> QED
      BY <2>4, <2>5 DEF Found
  <2>7. FlattenSeq([i \in DOMAIN opened |-> RestoredRecords(opened[i].value)])
          = [i \in DOMAIN archived |-> Ok(Faithful(archived[i]))]
    BY <2>1, <2>6 DEF Restored, Results
  <2> QED
    BY <2>3, <2>4, <2>5, <2>7 DEF RestoredAsArchived
<1> QED
  BY <1>1, FormatInvariance, PTL

\* verify finds in every chunk the number of records, the size and the hash that
\* the stager entered for it.
THEOREM CountingAgrees == Spec => []CountsAgree
<1>1. FormatInv => CountsAgree
  <2> SUFFICES ASSUME FormatInv, NEW c \in Range(chunks) \cup Range(pending_chunks)
               PROVE  /\ VerifiedCount(c.cipher.payload.plain) = c.record_count
                      /\ Digest(c.cipher.payload.plain) = c.plain_hash
                      /\ Len(c.cipher.payload.plain) = c.plain_bytes
    BY DEF CountsAgree
  <2>1. c \in Chunk
    BY InRange DEF FormatInv
  <2>2. PICK rs \in Batch :
          /\ c.record_count = Len(rs) /\ c.plain_hash = Digest(Text(rs))
          /\ c.plain_bytes = Len(Text(rs)) /\ c.cipher.payload.plain = Text(rs)
    BY <2>1, ChunkType
  <2>3. VerifiedCount(Text(rs)) = Len(rs)
    BY ChunkRoundTrip DEF Batch
  <2> QED
    BY <2>2, <2>3
<1> QED
  BY <1>1, FormatInvariance, PTL

\* The stager's byte counter is the size of the text it stands for; no chunk of
\* two records is over the limit and none is closed before it had to be.
THEOREM FillingChunks == Spec => []ChunksFilled
<1>1. FormatInv => ChunksFilled
  BY DEF FormatInv
<1> QED
  BY <1>1, FormatInvariance, PTL

\* Each of the two secrets unlocks the archive and nothing else does; a
\* recovery drill tells the truth.
THEOREM UnlockingEither == Spec => []EitherSecretUnlocks
<1>1. FormatInv => EitherSecretUnlocks
  BY KeysUnlock DEF FormatInv
<1> QED
  BY <1>1, FormatInvariance, PTL
=============================================================================
