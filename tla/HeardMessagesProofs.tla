------------------------ MODULE HeardMessagesProofs -------------------------
(***************************************************************************)
(* What filtering a history does, for histories of any length.  The        *)
(* induction over the length is an argument about the least index at which *)
(* a statement fails.                                                      *)
(***************************************************************************)
EXTENDS HeardMessages, SequenceTheorems, TLAPS, WellFoundedInduction

LEMMA LeastNumber ==
  ASSUME NEW T \in SUBSET Nat, T # {}
  PROVE  \E x \in T : \A y \in T : x <= y
<1>1. PICK x \in T : \A y \in T : ~(<<y, x>> \in OpToRel(<, Nat))
  BY NatLessThanWellFounded, WFMin
<1>2. \A y \in T : ~(y < x)
  BY <1>1 DEF OpToRel
<1> QED BY <1>2

\* A set of numbers that holds 0, and with a number up to n its successor, holds all up to n.
LEMMA UpTo ==
  ASSUME NEW n \in Nat, NEW T, 0 \in T,
         \A i \in 1..n : i-1 \in T => i \in T
  PROVE  0..n \subseteq T
<1> DEFINE failing == {i \in 0..n : i \notin T}
<1> SUFFICES ASSUME failing # {} PROVE FALSE
  OBVIOUS
<1>1. PICK x \in failing : \A y \in failing : x <= y
  <2>1. failing \in SUBSET Nat
    OBVIOUS
  <2> HIDE DEF failing
  <2> QED BY <2>1, LeastNumber
<1>2. x \in 1..n /\ x-1 \in 0..n /\ ~(x <= x-1)
  OBVIOUS
<1> QED BY <1>1, <1>2

-----------------------------------------------------------------------------
(* The recursion of Kept has a solution. *)

Filter(before, message) == IF NotOwn(message) THEN Append(before, message) ELSE before
Solves(f, messages, n) ==
  /\ f = [i \in 0..n |-> f[i]]
  /\ f[0] = <<>>
  /\ \A i \in 1..n : f[i] = Filter(f[i-1], messages[i])

LEMMA Solvable ==
  ASSUME NEW messages, NEW n \in Nat
  PROVE  \E f : Solves(f, messages, n)
<1> DEFINE solved == {m \in 0..n : \E f : Solves(f, messages, m)}
<1>1. 0 \in solved
  <2>1. Solves([i \in 0..0 |-> <<>>], messages, 0)
    BY DEF Solves
  <2> QED BY <2>1
<1>2. ASSUME NEW m \in 1..n, m-1 \in solved PROVE m \in solved
  <2>1. PICK f : Solves(f, messages, m-1)
    BY <1>2
  <2> DEFINE g == [i \in 0..m |-> IF i = m THEN Filter(f[m-1], messages[m]) ELSE f[i]]
  <2>2. g[0] = <<>> /\ g = [i \in 0..m |-> g[i]]
    BY <2>1 DEF Solves
  <2>3. ASSUME NEW i \in 1..m PROVE g[i] = Filter(g[i-1], messages[i])
    <3>1. CASE i = m
      <4>1. g[i] = Filter(f[m-1], messages[m]) /\ g[i-1] = f[m-1]
        BY <3>1
      <4> QED BY <4>1, <3>1
    <3>2. CASE i # m
      <4>1. g[i] = f[i] /\ g[i-1] = f[i-1] /\ i \in 1..(m-1)
        BY <3>2
      <4> QED BY <4>1, <2>1 DEF Solves
    <3> QED BY <3>1, <3>2
  <2> HIDE DEF g
  <2>4. Solves(g, messages, m)
    BY <2>2, <2>3 DEF Solves
  <2> QED BY <2>4
<1> HIDE DEF solved
<1>3. n \in solved
  BY <1>1, <1>2, UpTo
<1> QED BY <1>3 DEF solved

LEMMA KeptStep ==
  ASSUME NEW M, NEW messages \in Seq(M)
  PROVE  Solves(Kept(messages), messages, Len(messages))
<1> DEFINE n == Len(messages)
           Body(f) == [i \in 0..n |-> IF i = 0 THEN <<>>
                                      ELSE IF NotOwn(messages[i]) THEN Append(f[i-1], messages[i])
                                      ELSE f[i-1]]
<1>0. n \in Nat
  OBVIOUS
<1>1. PICK f : Solves(f, messages, n)
  BY <1>0, Solvable
<1>2. f = Body(f)
  BY <1>1 DEF Solves, Filter
<1>3. Kept(messages) = CHOOSE g : g = Body(g)
  BY DEF Kept
<1>4. Kept(messages) = Body(Kept(messages))
  BY <1>2, <1>3
<1> DEFINE kept == Kept(messages)
<1> HIDE DEF kept
<1>5. kept = Body(kept)
  BY <1>4 DEF kept
<1>6. kept = [i \in 0..n |-> kept[i]]
  BY <1>5
<1>7. kept[0] = <<>>
  BY <1>0, <1>5
<1>8. ASSUME NEW i \in 1..n PROVE kept[i] = Filter(kept[i-1], messages[i])
  <2>1. i \in 0..n /\ i # 0
    BY <1>0
  <2>2. kept[i] = IF i = 0 THEN <<>> ELSE IF NotOwn(messages[i]) THEN Append(kept[i-1], messages[i]) ELSE kept[i-1]
    BY <2>1, <1>5
  <2> QED BY <2>1, <2>2 DEF Filter
<1> QED BY <1>6, <1>7, <1>8 DEF Solves, kept

-----------------------------------------------------------------------------
(* What Unheard returns *)

LEMMA KeptType ==
  ASSUME NEW M, NEW messages \in Seq(M)
  PROVE  \A i \in 0..Len(messages) :
           /\ Kept(messages)[i] \in Seq(M)
           /\ \A j \in 1..Len(Kept(messages)[i]) : NotOwn(Kept(messages)[i][j])
<1> DEFINE n == Len(messages)
           kept == Kept(messages)
           Typed(s) == s \in Seq(M) /\ \A j \in 1..Len(s) : NotOwn(s[j])
           typed == {i \in 0..n : Typed(kept[i])}
<1>0. n \in Nat /\ Solves(kept, messages, n)
  BY KeptStep
<1> HIDE DEF kept
<1>1. 0 \in typed
  <2>1. kept[0] = <<>> /\ 0 \in 0..n
    BY <1>0 DEF Solves
  <2>2. Typed(<<>>)
    OBVIOUS
  <2> QED BY <2>1, <2>2
<1>2. ASSUME NEW i \in 1..n, i-1 \in typed PROVE i \in typed
  <2>1. Typed(kept[i-1]) /\ messages[i] \in M
    BY <1>2
  <2>2. kept[i] = Filter(kept[i-1], messages[i])
    BY <1>0 DEF Solves
  <2>3. Typed(Filter(kept[i-1], messages[i]))
    BY <2>1 DEF Filter
  <2> QED BY <2>2, <2>3
<1> HIDE DEF typed
<1>3. 0..n \subseteq typed
  BY <1>0, <1>1, <1>2, UpTo
<1> QED BY <1>3 DEF typed, kept

LEMMA UnheardType ==
  ASSUME NEW M, NEW messages \in Seq(M)
  PROVE  /\ Unheard(messages) \in Seq(M)
         /\ \A j \in 1..Len(Unheard(messages)) : NotOwn(Unheard(messages)[j])
  BY KeptType DEF Unheard

LEMMA UnheardEmpty == Unheard(<<>>) = <<>>
<1>1. <<>> \in Seq({}) /\ Len(<<>>) = 0
  OBVIOUS
<1>2. Solves(Kept(<<>>), <<>>, Len(<<>>))
  BY <1>1, KeptStep
<1> QED BY <1>1, <1>2 DEF Solves, Unheard

\* Histories are filtered message by message.
LEMMA UnheardConcat ==
  ASSUME NEW M, NEW a \in Seq(M), NEW b \in Seq(M)
  PROVE  Unheard(a \o b) = Unheard(a) \o Unheard(b)
<1> DEFINE both == Kept(a \o b)
           left == Kept(a)
           right == Kept(b)
           m == Len(a)
           n == Len(b)
           alike == {i \in 0..m : both[i] = left[i]}
           joined == {j \in 0..n : both[m+j] = left[m] \o right[j]}
<1>1. /\ m \in Nat /\ n \in Nat /\ a \o b \in Seq(M) /\ Len(a \o b) = m + n
      /\ \A i \in 1..m : (a \o b)[i] = a[i]
      /\ \A j \in 1..n : (a \o b)[m+j] = b[j]
  OBVIOUS
<1>2. Solves(both, a \o b, m + n) /\ Solves(left, a, m) /\ Solves(right, b, n)
  <2>1. Solves(both, a \o b, Len(a \o b))
    BY <1>1, KeptStep
  <2> QED BY <2>1, <1>1, KeptStep
<1>3. left[m] \in Seq(M) /\ \A j \in 0..n : right[j] \in Seq(M)
  <2>1. m \in 0..Len(a)
    BY <1>1
  <2>2. \A i \in 0..Len(a) : left[i] \in Seq(M)
    BY KeptType
  <2>3. \A j \in 0..Len(b) : right[j] \in Seq(M)
    BY KeptType
  <2> QED BY <2>1, <2>2, <2>3
<1> HIDE DEF both, left, right, m, n
<1>4. 0..m \subseteq alike
  <2>1. 0 \in alike
    BY <1>1, <1>2 DEF Solves
  <2>2. ASSUME NEW i \in 1..m, i-1 \in alike PROVE i \in alike
    <3>1. i \in 1..(m+n) /\ i \in 0..m
      BY <1>1
    <3>2. both[i] = Filter(both[i-1], a[i]) /\ left[i] = Filter(left[i-1], a[i])
      BY <3>1, <1>1, <1>2 DEF Solves
    <3> QED BY <3>1, <3>2, <2>2
  <2> HIDE DEF alike
  <2> QED BY <1>1, <2>1, <2>2, UpTo
<1>5. 0..n \subseteq joined
  <2>1. 0 \in joined
    <3>1. m \in 0..m /\ 0 \in 0..n /\ m + 0 = m
      BY <1>1
    <3>2. both[m] = left[m]
      BY <3>1, <1>4
    <3>3. right[0] = <<>> /\ left[m] \o <<>> = left[m]
      BY <1>2, <1>3 DEF Solves
    <3> QED BY <3>1, <3>2, <3>3
  <2>2. ASSUME NEW j \in 1..n, j-1 \in joined PROVE j \in joined
    <3>1. m+j \in 1..(m+n) /\ (m+j)-1 = m+(j-1) /\ j \in 0..n /\ j-1 \in 0..n
      BY <1>1
    <3>2. both[m+j] = Filter(both[m+(j-1)], b[j]) /\ right[j] = Filter(right[j-1], b[j])
      BY <3>1, <1>1, <1>2 DEF Solves
    <3>3. both[m+(j-1)] = left[m] \o right[j-1]
      BY <2>2
    <3>4. left[m] \in Seq(M) /\ right[j-1] \in Seq(M) /\ b[j] \in M
      BY <1>3, <3>1 DEF n
    <3>5. Append(left[m] \o right[j-1], b[j]) = left[m] \o Append(right[j-1], b[j])
      <4> DEFINE s == left[m]
                 t == right[j-1]
                 e == b[j]
                 one == <<e>>
      <4>1. s \in Seq(M) /\ t \in Seq(M) /\ e \in M
        BY <3>4
      <4>2. one \in Seq(M) /\ s \o t \in Seq(M)
        BY <4>1
      <4>3. Append(s \o t, e) = (s \o t) \o one /\ Append(t, e) = t \o one
        BY <4>1, <4>2, AppendIsConcat
      <4> HIDE DEF s, t, e, one
      <4>4. (s \o t) \o one = s \o (t \o one)
        BY <4>1, <4>2, ConcatAssociative
      <4>5. Append(s \o t, e) = s \o Append(t, e)
        BY <4>3, <4>4, Zenon
      <4> QED BY <4>5 DEF s, t, e
    <3>6. both[m+j] = left[m] \o right[j]
      BY <3>2, <3>3, <3>5 DEF Filter
    <3> QED BY <3>1, <3>6
  <2> HIDE DEF joined
  <2> QED BY <1>1, <2>1, <2>2, UpTo
<1>6. n \in 0..n
  BY <1>1
<1>7. n \in joined
  <2> HIDE DEF joined
  <2> QED BY <1>5, <1>6
<1> QED BY <1>1, <1>7 DEF Unheard, both, left, right, m, n

\* What was filtered stays as it is.
LEMMA UnheardPlain ==
  ASSUME NEW M, NEW messages \in Seq(M), \A i \in 1..Len(messages) : NotOwn(messages[i])
  PROVE  Unheard(messages) = messages
<1> DEFINE n == Len(messages)
           kept == Kept(messages)
           same == {i \in 0..n : kept[i] = SubSeq(messages, 1, i)}
<1>1. n \in Nat /\ Solves(kept, messages, n)
  BY KeptStep
<1> HIDE DEF kept
<1>2. 0 \in same
  BY <1>1 DEF Solves
<1>3. ASSUME NEW i \in 1..n, i-1 \in same PROVE i \in same
  <2>1. kept[i] = Append(SubSeq(messages, 1, i-1), messages[i])
    BY <1>1, <1>3 DEF Solves, Filter
  <2>2. Append(SubSeq(messages, 1, i-1), messages[i]) = SubSeq(messages, 1, i)
    OBVIOUS
  <2> QED BY <2>1, <2>2
<1> HIDE DEF same
<1>4. n \in same
  <2>1. n \in 0..n /\ 0..n \subseteq same
    BY <1>1, <1>2, <1>3, UpTo
  <2> QED BY <2>1
<1>5. SubSeq(messages, 1, n) = messages
  OBVIOUS
<1> QED BY <1>4, <1>5 DEF same, kept, Unheard

LEMMA UnheardTwice ==
  ASSUME NEW M, NEW messages \in Seq(M)
  PROVE  Unheard(Unheard(messages)) = Unheard(messages)
  BY UnheardType, UnheardPlain

\* A sequence is a prefix of it and the rest.
LEMMA PrefixAndRest ==
  ASSUME NEW M, NEW prefix \in Seq(M), NEW messages \in Seq(M), Len(prefix) <= Len(messages),
         \A i \in 1..Len(prefix) : messages[i] = prefix[i]
  PROVE  LET rest == SubSeq(messages, Len(prefix) + 1, Len(messages))
         IN  rest \in Seq(M) /\ messages = prefix \o rest
<1> DEFINE m == Len(prefix)
           n == Len(messages)
           rest == SubSeq(messages, m + 1, n)
<1>1. m \in Nat /\ n \in Nat /\ m <= n
  OBVIOUS
<1>2. rest \in Seq(M) /\ Len(rest) = n - m /\ \A i \in 1..(n - m) : rest[i] = messages[m + i]
  OBVIOUS
<1> HIDE DEF rest
<1>3. /\ prefix \o rest \in Seq(M) /\ Len(prefix \o rest) = m + (n - m)
      /\ \A i \in 1..(m + (n - m)) : (prefix \o rest)[i] = IF i <= m THEN prefix[i] ELSE rest[i - m]
  BY <1>2, ConcatProperties
<1>4. ASSUME NEW i \in 1..n PROVE (prefix \o rest)[i] = messages[i]
  <2>1. CASE i <= m
    BY <2>1, <1>1, <1>3
  <2>2. CASE ~(i <= m)
    <3>1. i - m \in 1..(n - m) /\ m + (i - m) = i /\ i \in 1..(m + (n - m))
      BY <2>2, <1>1
    <3> QED BY <3>1, <2>2, <1>2, <1>3
  <2> QED BY <2>1, <2>2
<1>5. Len(prefix \o rest) = n
  BY <1>1, <1>3
<1>6. messages = prefix \o rest
  <2> DEFINE both == prefix \o rest
  <2>1. both \in Seq(M) /\ Len(both) = Len(messages) /\ \A i \in 1..Len(both) : both[i] = messages[i]
    BY <1>3, <1>4, <1>5
  <2> HIDE DEF both
  <2>2. both = messages
    BY <2>1, SeqEqual
  <2> QED BY <2>2 DEF both
<1> QED BY <1>2, <1>6 DEF rest
=============================================================================
