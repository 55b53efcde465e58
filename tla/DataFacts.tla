----------------------------- MODULE DataFacts -----------------------------
(***************************************************************************)
(* Facts about data that the proofs share: what appending, taking the      *)
(* first element off and concatenation do to the elements of a sequence    *)
(* without repetitions, the least and greatest elements of sets of         *)
(* numbers, and the next remainder.                                        *)
(***************************************************************************)
EXTENDS Integers, Sequences, Functions, FiniteSetsExt, SequenceTheorems,
        WellFoundedInduction, TLAPS

(* A new element at the end.                                               *)
LEMMA AppendOnce ==
  ASSUME NEW S, NEW s \in Seq(S), NEW e \in S, IsInjective(s), e \notin Range(s)
  PROVE  /\ Append(s, e) \in Seq(S)
         /\ Range(Append(s, e)) = Range(s) \cup {e}
         /\ IsInjective(Append(s, e))
<1> DEFINE t == Append(s, e)
<1>1. /\ t \in Seq(S)
      /\ Len(t) = Len(s) + 1
      /\ \A i \in 1 .. Len(s) : t[i] = s[i]
      /\ t[Len(s) + 1] = e
  BY AppendProperties
<1>2. /\ Len(s) \in Nat
      /\ DOMAIN s = 1 .. Len(s)
      /\ DOMAIN t = 1 .. Len(s) + 1
  BY <1>1, LenProperties
<1> HIDE DEF t
<1>3. Range(t) = Range(s) \cup {e}
  BY <1>1, <1>2 DEF Range
<1>4. IsInjective(t)
  <2> SUFFICES ASSUME NEW a \in 1 .. Len(s) + 1, NEW b \in 1 .. Len(s) + 1,
                      t[a] = t[b]
               PROVE  a = b
    BY <1>2 DEF IsInjective
  <2>1. \A i \in 1 .. Len(s) : s[i] # e
    BY <1>2 DEF Range
  <2>2. \A i, j \in 1 .. Len(s) : s[i] = s[j] => i = j
    BY <1>2 DEF IsInjective
  <2> QED
    BY <1>1, <1>2, <2>1, <2>2
<1> QED
  BY <1>1, <1>3, <1>4 DEF t

(* The first element is gone for good.                                     *)
LEMMA TailOnce ==
  ASSUME NEW S, NEW s \in Seq(S), s # <<>>, IsInjective(s)
  PROVE  /\ Head(s) \in S
         /\ Tail(s) \in Seq(S)
         /\ Head(s) \in Range(s)
         /\ Range(Tail(s)) = Range(s) \ {Head(s)}
         /\ IsInjective(Tail(s))
<1> DEFINE t == Tail(s)
<1>1. /\ Head(s) \in S
      /\ t \in Seq(S)
      /\ Len(t) = Len(s) - 1
      /\ \A i \in 1 .. Len(t) : t[i] = s[i + 1]
  BY HeadTailProperties
<1>2. /\ Len(s) \in Nat \ {0}
      /\ DOMAIN s = 1 .. Len(s)
      /\ DOMAIN t = 1 .. Len(s) - 1
      /\ Head(s) = s[1]
  BY <1>1, LenProperties, EmptySeq
<1> HIDE DEF t
<1>3. \A i, j \in 1 .. Len(s) : s[i] = s[j] => i = j
  BY <1>2 DEF IsInjective
<1>4. Head(s) \in Range(s)
  BY <1>2 DEF Range
<1>5. Range(t) = Range(s) \ {Head(s)}
  <2>1. \A i \in 1 .. Len(s) : i # 1 => i - 1 \in 1 .. Len(t) /\ t[i - 1] = s[i]
    BY <1>1, <1>2
  <2>2. \A i \in 1 .. Len(t) : i + 1 \in 1 .. Len(s) /\ t[i] = s[i + 1] /\ i + 1 # 1
    BY <1>1, <1>2
  <2>3. Range(t) \subseteq Range(s) \ {Head(s)}
    BY <2>2, <1>1, <1>2, <1>3 DEF Range
  <2>4. Range(s) \ {Head(s)} \subseteq Range(t)
    BY <2>1, <1>1, <1>2, <1>3 DEF Range
  <2> QED
    BY <2>3, <2>4
<1>6. IsInjective(t)
  BY <1>1, <1>2, <1>3 DEF IsInjective
<1> QED
  BY <1>1, <1>4, <1>5, <1>6 DEF t

(* Two sequences without a common element.                                 *)
LEMMA ConcatOnce ==
  ASSUME NEW S, NEW s \in Seq(S), NEW d \in Seq(S),
         Range(s) \cap Range(d) = {}, IsInjective(s), IsInjective(d)
  PROVE  /\ d \o s \in Seq(S)
         /\ Range(d \o s) = Range(d) \cup Range(s)
         /\ IsInjective(d \o s)
<1> DEFINE t == d \o s
<1>2. /\ t \in Seq(S)
      /\ Len(t) = Len(d) + Len(s)
      /\ \A i \in 1 .. Len(d) + Len(s) :
           t[i] = IF i <= Len(d) THEN d[i] ELSE s[i - Len(d)]
  BY ConcatProperties
<1>3. Range(t) = Range(d) \cup Range(s)
  BY RangeConcatenation
<1> HIDE DEF t
<1>4. /\ Len(s) \in Nat /\ DOMAIN s = 1 .. Len(s)
      /\ Len(d) \in Nat /\ DOMAIN d = 1 .. Len(d)
      /\ DOMAIN t = 1 .. Len(d) + Len(s)
  BY <1>2, LenProperties
<1>5. IsInjective(t)
  <2> SUFFICES ASSUME NEW a \in 1 .. Len(d) + Len(s),
                      NEW b \in 1 .. Len(d) + Len(s),
                      t[a] = t[b]
               PROVE  a = b
    BY <1>4 DEF IsInjective
  <2>1. /\ \A i, j \in 1 .. Len(s) : s[i] = s[j] => i = j
        /\ \A i, j \in 1 .. Len(d) : d[i] = d[j] => i = j
    BY <1>4 DEF IsInjective
  <2>2. \A i \in 1 .. Len(s), j \in 1 .. Len(d) : s[i] # d[j]
    BY <1>4 DEF Range
  <2>3. CASE a <= Len(d) /\ b <= Len(d)
    BY <1>2, <1>4, <2>1, <2>3
  <2>4. CASE a > Len(d) /\ b > Len(d)
    <3>1. a - Len(d) \in 1 .. Len(s) /\ b - Len(d) \in 1 .. Len(s)
      BY <1>4, <2>4
    <3>2. s[a - Len(d)] = s[b - Len(d)]
      BY <1>2, <1>4, <2>4
    <3> QED
      BY <1>4, <2>1, <3>1, <3>2
  <2>5. CASE a <= Len(d) /\ b > Len(d)
    <3>1. b - Len(d) \in 1 .. Len(s) /\ a \in 1 .. Len(d)
      BY <1>4, <2>5
    <3>2. t[a] = d[a] /\ t[b] = s[b - Len(d)]
      BY <1>2, <1>4, <2>5
    <3> QED
      BY <2>2, <3>1, <3>2
  <2>6. CASE a > Len(d) /\ b <= Len(d)
    <3>1. a - Len(d) \in 1 .. Len(s) /\ b \in 1 .. Len(d)
      BY <1>4, <2>6
    <3>2. t[a] = s[a - Len(d)] /\ t[b] = d[b]
      BY <1>2, <1>4, <2>6
    <3> QED
      BY <2>2, <3>1, <3>2
  <2> QED
    BY <1>4, <2>3, <2>4, <2>5, <2>6
<1> QED
  BY <1>2, <1>3, <1>5 DEF t

(* Taking the first element of a concatenation.                            *)
LEMMA TailOfConcat ==
  ASSUME NEW S, NEW s \in Seq(S), NEW d \in Seq(S), d # <<>>
  PROVE  /\ d \o s # <<>>
         /\ Head(d \o s) = Head(d)
         /\ Tail(d \o s) = Tail(d) \o s
<1> DEFINE t == d \o s
           u == Tail(d) \o s
<1>1. /\ t \in Seq(S)
      /\ Len(t) = Len(d) + Len(s)
      /\ \A i \in 1 .. Len(d) + Len(s) :
           t[i] = IF i <= Len(d) THEN d[i] ELSE s[i - Len(d)]
  BY ConcatProperties
<1>2. /\ Tail(d) \in Seq(S)
      /\ Len(Tail(d)) = Len(d) - 1
      /\ \A i \in 1 .. Len(Tail(d)) : Tail(d)[i] = d[i + 1]
  BY HeadTailProperties
<1>3. /\ u \in Seq(S)
      /\ Len(u) = Len(Tail(d)) + Len(s)
      /\ \A i \in 1 .. Len(Tail(d)) + Len(s) :
           u[i] = IF i <= Len(Tail(d)) THEN Tail(d)[i] ELSE s[i - Len(Tail(d))]
  BY <1>2, ConcatProperties
<1>4. Len(d) \in Nat \ {0} /\ Len(s) \in Nat
  BY LenProperties, EmptySeq
<1> HIDE DEF t, u
<1>5. t # <<>>
  BY <1>1, <1>4, EmptySeq
<1>6. /\ Tail(t) \in Seq(S)
      /\ Len(Tail(t)) = Len(t) - 1
      /\ \A i \in 1 .. Len(Tail(t)) : Tail(t)[i] = t[i + 1]
  BY <1>1, <1>5, HeadTailProperties
<1>7. Tail(t) = u
  <2>1. Len(Tail(t)) = Len(u)
    BY <1>1, <1>2, <1>3, <1>4, <1>6
  <2>2. ASSUME NEW i \in 1 .. Len(u)
        PROVE  Tail(t)[i] = u[i]
    <3>1. /\ i \in 1 .. Len(d) - 1 + Len(s) /\ i + 1 \in 1 .. Len(d) + Len(s)
          /\ Tail(t)[i] = t[i + 1]
      BY <1>1, <1>2, <1>3, <1>4, <1>6, <2>1
    <3>2. CASE i <= Len(d) - 1
      BY <1>1, <1>2, <1>3, <1>4, <3>1, <3>2
    <3>3. CASE i > Len(d) - 1
      <4>1. i + 1 - Len(d) = i - (Len(d) - 1)
        BY <1>4
      <4> QED
        BY <1>1, <1>2, <1>3, <1>4, <3>1, <3>3, <4>1
    <3>4. i <= Len(d) - 1 \/ i > Len(d) - 1
      BY <1>4, <3>1
    <3> QED
      BY <3>2, <3>3, <3>4
  <2> QED
    BY <1>3, <1>6, <2>1, <2>2, SeqEqual
<1>8. Head(t) = t[1] /\ Head(d) = d[1] /\ t[1] = d[1]
  BY <1>1, <1>4, <1>5
<1> QED
  BY <1>5, <1>7, <1>8 DEF t, u

(* Appending to a concatenation appends to its second part, and moving the *)
(* first element of the second part to the end of the first changes none.  *)
LEMMA AppendToConcat ==
  ASSUME NEW S, NEW s \in Seq(S), NEW d \in Seq(S), NEW e \in S
  PROVE  Append(d \o s, e) = d \o Append(s, e)
<1>1. d \o s \in Seq(S) /\ <<e>> \in Seq(S)
  BY ConcatProperties
<1>2. Append(d \o s, e) = (d \o s) \o <<e>> /\ Append(s, e) = s \o <<e>>
  BY <1>1, AppendIsConcat
<1>3. (d \o s) \o <<e>> = d \o (s \o <<e>>)
  BY <1>1, ConcatAssociative
<1> QED
  BY <1>2, <1>3

LEMMA MoveOver ==
  ASSUME NEW S, NEW s \in Seq(S), NEW d \in Seq(S), s # <<>>
  PROVE  Append(d, Head(s)) \o Tail(s) = d \o s
<1>1. /\ Head(s) \in S /\ Tail(s) \in Seq(S) /\ <<Head(s)>> \in Seq(S)
      /\ Head(s) = s[1]
  BY HeadTailProperties
<1>2. Append(d, Head(s)) = d \o <<Head(s)>>
  BY <1>1, AppendIsConcat
<1>3. <<Head(s)>> \o Tail(s) = s
  <2>1. Len(s) \in Nat \ {0}
    BY EmptySeq
  <2>2. 1 \in 1 .. Len(s) /\ Len(s) \in 1 .. Len(s)
    BY <2>1
  <2> QED
    BY <1>1, <2>2, SubSeqRecursiveFirst, SubSeqFull, TailIsSubSeq
<1> QED
  BY <1>1, <1>2, <1>3, ConcatAssociative

-----------------------------------------------------------------------------
(* A set of naturals that is not empty has a least element.                *)
LEMMA Least ==
  ASSUME NEW T, T \subseteq Nat, T # {}
  PROVE  \E x \in T : \A y \in T : x <= y
<1> DEFINE R == {ss \in Nat \X Nat : ss[1] < ss[2]}
<1>1. IsWellFoundedOn(R, Nat)
  BY NatLessThanWellFounded DEF OpToRel
<1>2. PICK x \in T : \A y \in T : ~(<<y, x>> \in R)
  <2> HIDE DEF R
  <2> QED
    BY <1>1, WFMin
<1>3. \A y \in T : x <= y
  <2> TAKE y \in T
  <2>1. <<y, x>> \notin R
    BY <1>2
  <2>2. x \in Nat /\ y \in Nat
    OBVIOUS
  <2>3. ~(y < x)
    BY <2>1, <2>2
  <2> QED
    BY <2>2, <2>3
<1> QED
  BY <1>3

(* Min finds it.                                                           *)
LEMMA MinIsLeast ==
  ASSUME NEW T, T \subseteq Nat, T # {}
  PROVE  Min(T) \in T /\ \A y \in T : Min(T) <= y
BY Least DEF Min

(* A set of naturals with a bound has a greatest element, and Max finds it.*)
LEMMA MaxIsGreatest ==
  ASSUME NEW T, T \subseteq Nat, T # {}, NEW b \in Nat, \A y \in T : y <= b
  PROVE  Max(T) \in T /\ \A y \in T : y <= Max(T)
<1> DEFINE gaps == {b - y : y \in T}
<1>1. gaps \subseteq Nat /\ gaps # {}
  <2>1. \A y \in T : b - y \in Nat /\ b - y \in gaps
    OBVIOUS
  <2> QED
    BY <2>1
<1>2. PICK g \in gaps : \A h \in gaps : g <= h
  <2> HIDE DEF gaps
  <2> QED
    BY <1>1, Least
<1>3. PICK x \in T : g = b - x
  BY <1>2
<1>4. \A y \in T : y <= x
  <2> TAKE y \in T
  <2>1. b - y \in gaps
    OBVIOUS
  <2>2. g <= b - y
    BY <1>2, <2>1
  <2> QED
    BY <1>3, <2>2
<1> QED
  BY <1>4 DEF Max

(* An index that goes round.                                               *)
LEMMA NextModulo ==
  ASSUME NEW n \in Nat, NEW N \in Nat \ {0}
  PROVE  /\ n % N \in 0 .. N - 1
         /\ (n + 1) % N = IF n % N = N - 1 THEN 0 ELSE (n % N) + 1
<1>1. n % N \in 0 .. N - 1 /\ (n + 1) % N \in 0 .. N - 1
  BY SMT
<1>2. (n + 1) % N # 0 => (n + 1) \div N = n \div N
  BY SMT
<1>3. /\ n = N * (n \div N) + (n % N)
      /\ n + 1 = N * ((n + 1) \div N) + ((n + 1) % N)
      /\ n \div N \in Int /\ (n + 1) \div N \in Int
  BY SMT
<1>4. (n + 1) % N # 0 => (n + 1) % N = (n % N) + 1
  <2> DEFINE d == n \div N
             e == (n + 1) \div N
             x == N * d
             y == N * e
  <2> HIDE DEF d, e, x, y
  <2> QED
    BY <1>1, <1>2, <1>3 DEF x, y, d, e
<1>5. (n + 1) % N = 0 => n % N = N - 1
  <2> SUFFICES ASSUME (n + 1) % N = 0 PROVE n % N = N - 1
    OBVIOUS
  <2>1. PICK e \in Int : n + 1 = N * e
    BY <1>3
  <2>2. PICK d \in Int, m \in 0 .. N - 1 : m = n % N /\ n = N * d + m
    BY <1>1, <1>3
  <2>3. PICK g \in Int : e = d + 1 + g
    <3>1. e - d - 1 \in Int /\ e = d + 1 + (e - d - 1)
      OBVIOUS
    <3> QED
      BY <3>1
  <2>4. N * (d + 1 + g) = N * d + N + N * g
    BY SMT
  <2>5. N * g = m + 1 - N /\ N * g \in Int
    BY <2>1, <2>2, <2>3, <2>4
  <2>6. g >= 0 => N * g >= 0
    BY SMT
  <2>7. g <= -1 => N * g <= -N
    BY SMT
  <2> QED
    BY <2>2, <2>5, <2>6, <2>7
<1> QED
  BY <1>1, <1>4, <1>5
=============================================================================
