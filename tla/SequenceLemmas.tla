----------------------------- MODULE SequenceLemmas -----------------------------
(***************************************************************************)
(* Lemmas on sequences and on the recursive functions over them.           *)
(***************************************************************************)
EXTENDS Integers, Sequences, Selections, SequenceTheorems, WellFoundedInduction, TLAPS

-----------------------------------------------------------------------------
(* Induction over the members of a set, and definition by recursion.       *)

LEMMA SetInduction ==
  ASSUME NEW S, 0 \in S, \A n \in Nat : n \in S => n + 1 \in S
  PROVE  Nat \subseteq S
<1>1. SUFFICES ASSUME Nat \ S # {} PROVE FALSE
  OBVIOUS
<1> DEFINE R == OpToRel(<, Nat)
<1>2. IsWellFoundedOn(R, Nat)
  BY NatLessThanWellFounded
<1>3. \A m, n \in Nat : m < n => <<m, n>> \in R
  BY DEF OpToRel
<1> HIDE DEF R
<1>4. PICK n \in Nat \ S : \A m \in Nat \ S : <<m, n>> \notin R
  BY <1>1, <1>2, WFMin
<1>5. n # 0 /\ n \in Nat /\ n \notin S
  BY <1>4
<1>6. n - 1 \in Nat /\ (n - 1) + 1 = n /\ n - 1 < n
  BY <1>5
<1>7. n - 1 \notin S
  BY <1>5, <1>6
<1>. QED  BY <1>3, <1>4, <1>5, <1>6, <1>7

\* Induction over sequences, one element at the end after the other.
LEMMA SequenceInduction ==
  ASSUME NEW T, NEW S, <<>> \in S,
         \A s \in Seq(T), x \in T : s \in S => Append(s, x) \in S
  PROVE  Seq(T) \subseteq S
<1> DEFINE Done == { n \in Nat : \A s \in Seq(T) : Len(s) = n => s \in S }
<1>1. 0 \in Done
  <2>1. \A s \in Seq(T) : Len(s) = 0 => s = <<>>
    OBVIOUS
  <2>. QED  BY <2>1
<1>2. ASSUME NEW n \in Nat, n \in Done PROVE n + 1 \in Done
  <2>1. SUFFICES ASSUME NEW s \in Seq(T), Len(s) = n + 1 PROVE s \in S
    BY <1>2
  <2> DEFINE front == SubSeq(s, 1, n)
  <2>2. front \in Seq(T) /\ Len(front) = n /\ s[n + 1] \in T
    BY <2>1
  <2>3. s = Append(front, s[n + 1])
    BY <2>1, <2>2
  <2>4. front \in S
    BY <1>2, <2>2
  <2> HIDE DEF front
  <2>. QED  BY <2>2, <2>3, <2>4
<1> HIDE DEF Done
<1>3. Nat \subseteq Done
  BY <1>1, <1>2, SetInduction
<1>4. \A s \in Seq(T) : Len(s) \in Nat
  OBVIOUS
<1>. QED  BY <1>3, <1>4 DEF Done

\* f runs from base through the values that g gives at 1 to N.
Runs(f, N, D, base, g) ==
  /\ f \in [0..N -> D]
  /\ f[0] = base
  /\ \A n \in 1..N : f[n] = g[<<n, f[n - 1]>>]

Steps(N, D, base, g) == N \in Nat /\ base \in D /\ g \in [(1..N) \X D -> D]

\* A function defined by recursion over 0..N exists.
LEMMA RecursionExists ==
  ASSUME NEW N, NEW D, NEW base, NEW g, Steps(N, D, base, g)
  PROVE  \E f : Runs(f, N, D, base, g)
<1>0. N \in Nat /\ base \in D /\ g \in [(1..N) \X D -> D]
  BY DEF Steps
<1> DEFINE Reached ==
      { m \in Nat : m > N \/ \E f \in [0..m -> D] : f[0] = base /\ \A n \in 1..m : f[n] = g[<<n, f[n - 1]>>] }
<1>1. 0 \in Reached
  <2> DEFINE h == [i \in 0..0 |-> base]
  <2>1. h \in [0..0 -> D] /\ h[0] = base
    BY <1>0
  <2>2. \A n \in 1..0 : h[n] = g[<<n, h[n - 1]>>]
    OBVIOUS
  <2> HIDE DEF h
  <2>3. \E f \in [0..0 -> D] : f[0] = base /\ \A n \in 1..0 : f[n] = g[<<n, f[n - 1]>>]
    BY <2>1, <2>2
  <2>. QED  BY <2>3
<1>2. ASSUME NEW m \in Nat, m \in Reached PROVE m + 1 \in Reached
  <2>1. CASE m + 1 > N
    BY <2>1
  <2>2. CASE m + 1 <= N
    <3>1. PICK f \in [0..m -> D] : f[0] = base /\ \A n \in 1..m : f[n] = g[<<n, f[n - 1]>>]
      BY <1>0, <1>2, <2>2
    <3> DEFINE h == [i \in 0..(m + 1) |-> IF i = m + 1 THEN g[<<m + 1, f[m]>>] ELSE f[i]]
    <3>2. g[<<m + 1, f[m]>>] \in D
      BY <1>0, <2>2
    <3>3. h \in [0..(m + 1) -> D]
      BY <3>2
    <3>4. h[0] = base
      BY <3>1
    <3>5. ASSUME NEW n \in 1..(m + 1) PROVE h[n] = g[<<n, h[n - 1]>>]
      <4>1. n - 1 \in 0..m /\ h[n - 1] = f[n - 1]
        OBVIOUS
      <4>2. CASE n = m + 1
        <5>1. n - 1 = m /\ h[m] = f[m] /\ h[m + 1] = g[<<m + 1, f[m]>>]
          BY <4>1, <4>2
        <5> HIDE DEF h
        <5>. QED  BY <4>2, <5>1
      <4>3. CASE n # m + 1
        BY <3>1, <4>1, <4>3
      <4>. QED  BY <4>2, <4>3
    <3> HIDE DEF h
    <3>. QED  BY <3>3, <3>4, <3>5
  <2>. QED  BY <1>0, <2>1, <2>2
<1> HIDE DEF Reached
<1>3. N \in Reached
  BY <1>0, <1>1, <1>2, SetInduction
<1>4. \E f \in [0..N -> D] : f[0] = base /\ \A n \in 1..N : f[n] = g[<<n, f[n - 1]>>]
  BY <1>0, <1>3 DEF Reached
<1>. QED  BY <1>4 DEF Runs

\* Two functions that start alike and go on alike are alike.
Alike(f, h, N) ==
  N \in Nat /\ f[0] = h[0] /\ \A n \in 1..N : f[n - 1] = h[n - 1] => f[n] = h[n]

LEMMA RecursionUnique ==
  ASSUME NEW N, NEW f, NEW h, Alike(f, h, N)
  PROVE  \A n \in 0..N : f[n] = h[n]
<1>0. N \in Nat /\ f[0] = h[0] /\ \A n \in 1..N : f[n - 1] = h[n - 1] => f[n] = h[n]
  BY DEF Alike
<1> DEFINE Same == { n \in Nat : n > N \/ f[n] = h[n] }
<1>1. 0 \in Same
  BY <1>0
<1>2. ASSUME NEW n \in Nat, n \in Same PROVE n + 1 \in Same
  <2>1. CASE n + 1 > N
    BY <2>1
  <2>2. CASE n + 1 <= N
    <3>1. f[n] = h[n] /\ (n + 1) - 1 = n /\ n + 1 \in 1..N
      BY <1>0, <1>2, <2>2
    <3>2. f[n + 1] = h[n + 1]
      BY <1>0, <3>1
    <3>. QED  BY <3>2
  <2>. QED  BY <1>0, <2>1, <2>2
<1> HIDE DEF Same
<1>3. Nat \subseteq Same
  BY <1>1, <1>2, SetInduction
<1>4. \A n \in 0..N : n \in Nat /\ ~(n > N)
  BY <1>0
<1>. QED  BY <1>3, <1>4 DEF Same

-----------------------------------------------------------------------------
(* Selections.                                                             *)

\* What the recursive function of Only is.
Selects(f, seq, S) ==
  /\ DOMAIN f = 0..Len(seq)
  /\ f[0] = <<>>
  /\ \A n \in 1..Len(seq) : f[n] = IF seq[n] \in S THEN Append(f[n - 1], seq[n]) ELSE f[n - 1]

LEMMA OnlyRecursion ==
  ASSUME NEW T, NEW seq \in Seq(T), NEW S
  PROVE  \E f : /\ f \in [0..Len(seq) -> Seq(T)] /\ Selects(f, seq, S) /\ Only(seq, S) = f[Len(seq)]
<1> DEFINE g == [p \in (1..Len(seq)) \X Seq(T) |-> IF seq[p[1]] \in S THEN Append(p[2], seq[p[1]]) ELSE p[2]]
           rec == CHOOSE only : only = [n \in 0..Len(seq) |-> IF n = 0 THEN <<>>
                                   ELSE IF seq[n] \in S THEN Append(only[n - 1], seq[n]) ELSE only[n - 1]]
<1>1. Len(seq) \in Nat /\ <<>> \in Seq(T)
  OBVIOUS
<1>2. Steps(Len(seq), Seq(T), <<>>, g)
  BY DEF Steps
<1>3. \A n \in 1..Len(seq), d \in Seq(T) : g[<<n, d>>] = IF seq[n] \in S THEN Append(d, seq[n]) ELSE d
  OBVIOUS
<1> HIDE DEF g
<1>4. PICK f : Runs(f, Len(seq), Seq(T), <<>>, g)
  BY <1>2, RecursionExists
<1>5. /\ f \in [0..Len(seq) -> Seq(T)] /\ f[0] = <<>>
      /\ \A n \in 1..Len(seq) : f[n] = g[<<n, f[n - 1]>>]
  BY <1>4 DEF Runs
<1>6. ASSUME NEW n \in 1..Len(seq)
      PROVE  f[n] = IF seq[n] \in S THEN Append(f[n - 1], seq[n]) ELSE f[n - 1]
  <2>1. n - 1 \in 0..Len(seq)
    BY <1>1
  <2>2. f[n - 1] \in Seq(T)
    BY <1>5, <2>1
  <2>. QED  BY <1>3, <1>5, <2>2
<1>7. f = [n \in 0..Len(seq) |-> IF n = 0 THEN <<>>
             ELSE IF seq[n] \in S THEN Append(f[n - 1], seq[n]) ELSE f[n - 1]]
  <2>1. \A n \in 0..Len(seq) : n # 0 => n \in 1..Len(seq)
    BY <1>1
  <2>. QED  BY <1>5, <1>6, <2>1
<1>8. rec = [n \in 0..Len(seq) |-> IF n = 0 THEN <<>>
               ELSE IF seq[n] \in S THEN Append(rec[n - 1], seq[n]) ELSE rec[n - 1]]
  BY <1>7
<1>9. Only(seq, S) = rec[Len(seq)]
  BY DEF Only
<1> HIDE DEF rec
<1>10. \A n \in 1..Len(seq) : rec[n] = IF seq[n] \in S THEN Append(rec[n - 1], seq[n]) ELSE rec[n - 1]
  <2>1. \A n \in 1..Len(seq) : n \in 0..Len(seq) /\ n # 0
    BY <1>1
  <2>. QED  BY <1>8, <2>1
<1>11. Alike(rec, f, Len(seq))
  <2>1. rec[0] = f[0]
    BY <1>1, <1>5, <1>8
  <2>2. \A n \in 1..Len(seq) : rec[n - 1] = f[n - 1] => rec[n] = f[n]
    BY <1>6, <1>10
  <2>. QED  BY <1>1, <2>1, <2>2 DEF Alike
<1>12. \A n \in 0..Len(seq) : rec[n] = f[n]
  BY <1>11, RecursionUnique
<1>13. Only(seq, S) = f[Len(seq)]
  BY <1>1, <1>9, <1>12
<1>. QED  BY <1>5, <1>6, <1>13 DEF Selects

LEMMA OnlyEmpty ==
  ASSUME NEW S
  PROVE  Only(<<>>, S) = <<>>
<1>1. <<>> \in Seq({}) /\ Len(<<>>) = 0
  OBVIOUS
<1>2. PICK f : Selects(f, <<>>, S) /\ Only(<<>>, S) = f[Len(<<>>)]
  BY <1>1, OnlyRecursion
<1>. QED  BY <1>1, <1>2 DEF Selects

LEMMA OnlyAppend ==
  ASSUME NEW T, NEW seq \in Seq(T), NEW x \in T, NEW S
  PROVE  Only(Append(seq, x), S) = IF x \in S THEN Append(Only(seq, S), x) ELSE Only(seq, S)
<1> DEFINE longer == Append(seq, x)
<1>1. /\ longer \in Seq(T) /\ Len(longer) = Len(seq) + 1 /\ Len(seq) \in Nat
      /\ longer[Len(seq) + 1] = x
      /\ \A n \in 1..Len(seq) : longer[n] = seq[n]
  OBVIOUS
<1> HIDE DEF longer
<1>2. PICK f : Selects(f, seq, S) /\ Only(seq, S) = f[Len(seq)]
  BY OnlyRecursion
<1>3. PICK h : Selects(h, longer, S) /\ Only(longer, S) = h[Len(longer)]
  BY <1>1, OnlyRecursion
<1>4. Alike(f, h, Len(seq))
  <2>1. f[0] = h[0]
    BY <1>2, <1>3 DEF Selects
  <2>2. ASSUME NEW n \in 1..Len(seq), f[n - 1] = h[n - 1] PROVE f[n] = h[n]
    <3>1. n \in 1..Len(longer) /\ longer[n] = seq[n]
      BY <1>1
    <3>2. f[n] = IF seq[n] \in S THEN Append(f[n - 1], seq[n]) ELSE f[n - 1]
      BY <1>2 DEF Selects
    <3>3. h[n] = IF longer[n] \in S THEN Append(h[n - 1], longer[n]) ELSE h[n - 1]
      BY <1>3, <3>1 DEF Selects
    <3>. QED  BY <2>2, <3>1, <3>2, <3>3
  <2>. QED  BY <1>1, <2>1, <2>2 DEF Alike
<1>5. f[Len(seq)] = h[Len(seq)]
  BY <1>1, <1>4, RecursionUnique
<1>6. Len(seq) + 1 \in 1..Len(longer) /\ (Len(seq) + 1) - 1 = Len(seq)
  BY <1>1
<1>7. h[Len(longer)] = IF x \in S THEN Append(h[Len(seq)], x) ELSE h[Len(seq)]
  BY <1>1, <1>3, <1>6 DEF Selects
<1>. QED  BY <1>2, <1>3, <1>5, <1>7 DEF longer
\* A selection is made of the sequence's elements that are in the set, and of
\* no others.
LEMMA OnlyType ==
  ASSUME NEW T, NEW seq \in Seq(T), NEW S
  PROVE  /\ Only(seq, S) \in Seq(T \cap S) /\ Only(seq, S) \in Seq(T)
         /\ Len(Only(seq, S)) <= Len(seq)
         /\ \A i \in 1..Len(seq) : seq[i] \in S => \E j \in 1..Len(Only(seq, S)) : Only(seq, S)[j] = seq[i]
<1> DEFINE Has(s, o) == \A i \in 1..Len(s) : s[i] \in S => \E j \in 1..Len(o) : o[j] = s[i]
           Good == { s \in Seq(T) : /\ Only(s, S) \in Seq(T \cap S) /\ Len(Only(s, S)) <= Len(s)
                                    /\ Has(s, Only(s, S)) }
<1>1. <<>> \in Good
  <2>1. <<>> \in Seq(T) /\ <<>> \in Seq(T \cap S) /\ Len(<<>>) = 0
    OBVIOUS
  <2>2. Has(<<>>, <<>>)
    OBVIOUS
  <2>3. Only(<<>>, S) = <<>> /\ 0 <= 0
    BY OnlyEmpty
  <2> HIDE DEF Has
  <2>4. Only(<<>>, S) \in Seq(T \cap S) /\ Len(Only(<<>>, S)) <= Len(<<>>) /\ Has(<<>>, Only(<<>>, S))
    BY <2>1, <2>2, <2>3
  <2>. QED  BY <2>1, <2>4
<1>2. ASSUME NEW s \in Seq(T), NEW x \in T, s \in Good PROVE Append(s, x) \in Good
  <2> DEFINE o == Only(s, S)
             p == Only(Append(s, x), S)
             t == Append(s, x)
  <2>1. o \in Seq(T \cap S) /\ Len(o) <= Len(s) /\ Has(s, o)
    BY <1>2
  <2>2. p = IF x \in S THEN Append(o, x) ELSE o
    BY OnlyAppend
  <2>3. t \in Seq(T) /\ Len(t) = Len(s) + 1 /\ t[Len(s) + 1] = x /\ \A i \in 1..Len(s) : t[i] = s[i]
    OBVIOUS
  <2> HIDE DEF o, p, t
  <2>4. Len(s) \in Nat /\ Len(o) \in Nat
    BY <2>1
  <2>5. CASE x \in S
    <3>1. /\ p \in Seq(T \cap S) /\ Len(p) = Len(o) + 1 /\ p[Len(o) + 1] = x
          /\ \A j \in 1..Len(o) : p[j] = o[j]
      BY <2>1, <2>2, <2>5
    <3>2. ASSUME NEW i \in 1..Len(t), t[i] \in S PROVE \E j \in 1..Len(p) : p[j] = t[i]
      <4>1. CASE i \in 1..Len(s)
        <5>1. PICK j \in 1..Len(o) : o[j] = s[i]
          BY <2>1, <2>3, <3>2, <4>1
        <5>2. j \in 1..Len(p) /\ p[j] = t[i]
          BY <2>3, <2>4, <3>1, <4>1, <5>1
        <5>. QED  BY <5>2
      <4>2. CASE i = Len(s) + 1
        <5>1. Len(o) + 1 \in 1..Len(p) /\ p[Len(o) + 1] = t[i]
          BY <2>3, <2>4, <3>1, <4>2
        <5>. QED  BY <5>1
      <4>. QED  BY <2>3, <2>4, <4>1, <4>2
    <3>3. Has(t, p) /\ Len(p) <= Len(t)
      BY <2>1, <2>3, <2>4, <3>1, <3>2
    <3> HIDE DEF Has
    <3>. QED  BY <2>3, <3>1, <3>3 DEF p, t
  <2>6. CASE x \notin S
    <3>1. ASSUME NEW i \in 1..Len(t), t[i] \in S PROVE \E j \in 1..Len(p) : p[j] = t[i]
      <4>1. i \in 1..Len(s) /\ t[i] = s[i]
        BY <2>3, <2>4, <2>6, <3>1
      <4>. QED  BY <2>1, <2>2, <2>6, <3>1, <4>1
    <3>2. p \in Seq(T \cap S) /\ Has(t, p) /\ Len(p) <= Len(t)
      BY <2>1, <2>2, <2>3, <2>4, <2>6, <3>1
    <3> HIDE DEF Has
    <3>. QED  BY <2>3, <3>2 DEF p, t
  <2>. QED  BY <2>5, <2>6
<1>3. seq \in Good
  <2> HIDE DEF Good
  <2>. QED  BY <1>1, <1>2, SequenceInduction
<1>4. \A s \in Seq(T \cap S) : s \in Seq(T)
  OBVIOUS
<1>. QED  BY <1>3, <1>4

ConcatAppends(T) == \A s, t \in Seq(T), x \in T : Append(s \o t, x) = s \o Append(t, x)

LEMMA ConcatToAppend == ASSUME NEW T PROVE ConcatAppends(T)
<1>1. ASSUME NEW s \in Seq(T), NEW t \in Seq(T), NEW x \in T
      PROVE  Append(s \o t, x) = s \o Append(t, x)
  OBVIOUS
<1>. QED  BY <1>1 DEF ConcatAppends

\* The selection of a sequence is the selections of its parts.
LEMMA OnlyConcat ==
  ASSUME NEW T, NEW s \in Seq(T), NEW t \in Seq(T), NEW S
  PROVE  Only(s \o t, S) = Only(s, S) \o Only(t, S)
<1> DEFINE Good == { r \in Seq(T) : Only(s \o r, S) = Only(s, S) \o Only(r, S) }
<1>0. Only(s, S) \in Seq(T)
  BY OnlyType
<1>a. ConcatAppends(T)
  BY ConcatToAppend
<1>1. <<>> \in Good
  <2>1. s \o <<>> = s /\ Only(s, S) \o <<>> = Only(s, S)
    BY <1>0
  <2>2. Only(s \o <<>>, S) = Only(s, S) \o Only(<<>>, S)
    BY <2>1, OnlyEmpty
  <2>3. <<>> \in Seq(T)
    OBVIOUS
  <2>. QED  BY <2>2, <2>3
<1>2. ASSUME NEW r \in Seq(T), NEW x \in T, r \in Good PROVE Append(r, x) \in Good
  <2>1. s \o Append(r, x) = Append(s \o r, x) /\ s \o r \in Seq(T) /\ Append(r, x) \in Seq(T)
    OBVIOUS
  <2>2. Only(Append(s \o r, x), S) = IF x \in S THEN Append(Only(s \o r, S), x) ELSE Only(s \o r, S)
    BY <2>1, OnlyAppend
  <2>3. Only(Append(r, x), S) = IF x \in S THEN Append(Only(r, S), x) ELSE Only(r, S)
    BY OnlyAppend
  <2>4. Only(r, S) \in Seq(T) /\ Only(s \o r, S) = Only(s, S) \o Only(r, S)
    BY <1>2, OnlyType
  <2>5. Append(Only(s, S) \o Only(r, S), x) = Only(s, S) \o Append(Only(r, S), x)
    <3> DEFINE a == Only(s, S)
               b == Only(r, S)
    <3>1. a \in Seq(T) /\ b \in Seq(T)
      BY <1>0, <2>4
    <3> HIDE DEF a, b
    <3>2. Append(a \o b, x) = a \o Append(b, x)
      BY <1>a, <3>1, Zenon DEF ConcatAppends
    <3>. QED  BY <3>2 DEF a, b
  <2>6. Only(s \o Append(r, x), S) = Only(s, S) \o Only(Append(r, x), S)
    <3>1. CASE x \in S
      BY <2>1, <2>2, <2>3, <2>4, <2>5, <3>1
    <3>2. CASE x \notin S
      BY <2>1, <2>2, <2>3, <2>4, <3>2
    <3>. QED  BY <3>1, <3>2
  <2>. QED  BY <2>1, <2>6
<1>3. t \in Good
  <2> HIDE DEF Good
  <2>. QED  BY <1>1, <1>2, SequenceInduction
<1>. QED  BY <1>3

\* All of it, or none of it.
LEMMA OnlyAllOrNone ==
  ASSUME NEW T, NEW seq \in Seq(T), NEW S
  PROVE  /\ (\A i \in 1..Len(seq) : seq[i] \in S) => Only(seq, S) = seq
         /\ (\A i \in 1..Len(seq) : seq[i] \notin S) => Only(seq, S) = <<>>
<1> DEFINE All(s) == \A i \in 1..Len(s) : s[i] \in S
           No(s) == \A i \in 1..Len(s) : s[i] \notin S
           Good == { s \in Seq(T) : (All(s) => Only(s, S) = s) /\ (No(s) => Only(s, S) = <<>>) }
<1>1. <<>> \in Good
  BY OnlyEmpty
<1>2. ASSUME NEW s \in Seq(T), NEW x \in T, s \in Good PROVE Append(s, x) \in Good
  <2>1. Only(Append(s, x), S) = IF x \in S THEN Append(Only(s, S), x) ELSE Only(s, S)
    BY OnlyAppend
  <2>2. /\ Append(s, x) \in Seq(T) /\ Len(Append(s, x)) = Len(s) + 1 /\ Len(s) \in Nat
        /\ Append(s, x)[Len(s) + 1] = x /\ \A i \in 1..Len(s) : Append(s, x)[i] = s[i]
    OBVIOUS
  <2>3. All(Append(s, x)) => All(s) /\ x \in S
    BY <2>2
  <2>4. No(Append(s, x)) => No(s) /\ x \notin S
    BY <2>2
  <2>5. (All(s) => Only(s, S) = s) /\ (No(s) => Only(s, S) = <<>>)
    BY <1>2
  <2> HIDE DEF All, No
  <2>. QED  BY <2>1, <2>2, <2>3, <2>4, <2>5
<1>3. seq \in Good
  <2> HIDE DEF Good
  <2>. QED  BY <1>1, <1>2, SequenceInduction
<1>. QED  BY <1>3
\* Sets that agree on the elements of a sequence select the same.
LEMMA OnlySame ==
  ASSUME NEW T, NEW seq \in Seq(T), NEW S, NEW S2, \A i \in 1..Len(seq) : seq[i] \in S <=> seq[i] \in S2
  PROVE  Only(seq, S) = Only(seq, S2)
<1> DEFINE Agree(s) == \A i \in 1..Len(s) : s[i] \in S <=> s[i] \in S2
           Good == { s \in Seq(T) : Agree(s) => Only(s, S) = Only(s, S2) }
<1>1. <<>> \in Good
  <2>1. <<>> \in Seq(T)
    OBVIOUS
  <2>2. Only(<<>>, S) = Only(<<>>, S2)
    BY OnlyEmpty
  <2> HIDE DEF Agree
  <2>. QED  BY <2>1, <2>2
<1>2. ASSUME NEW s \in Seq(T), NEW x \in T, s \in Good PROVE Append(s, x) \in Good
  <2> DEFINE t == Append(s, x)
  <2>1. /\ t \in Seq(T) /\ Len(t) = Len(s) + 1 /\ Len(s) \in Nat
        /\ t[Len(s) + 1] = x /\ \A i \in 1..Len(s) : t[i] = s[i]
    OBVIOUS
  <2>2. /\ Only(t, S) = IF x \in S THEN Append(Only(s, S), x) ELSE Only(s, S)
        /\ Only(t, S2) = IF x \in S2 THEN Append(Only(s, S2), x) ELSE Only(s, S2)
    BY OnlyAppend
  <2> HIDE DEF t
  <2>3. Agree(t) => Agree(s) /\ (x \in S <=> x \in S2)
    BY <2>1
  <2>4. Agree(s) => Only(s, S) = Only(s, S2)
    BY <1>2
  <2> HIDE DEF Agree
  <2>5. Agree(t) => Only(t, S) = Only(t, S2)
    BY <2>2, <2>3, <2>4
  <2>. QED  BY <2>1, <2>5 DEF t
<1>3. seq \in Good
  <2> HIDE DEF Good
  <2>. QED  BY <1>1, <1>2, SequenceInduction
<1>. QED  BY <1>3

\* A set that misses one element of a sequence at most selects all but one.
OneOut(seq, S) == \A i, j \in 1..Len(seq) : seq[i] \notin S /\ seq[j] \notin S => i = j

LEMMA OnlyAllButOne ==
  ASSUME NEW T, NEW seq \in Seq(T), NEW S, OneOut(seq, S)
  PROVE  Len(Only(seq, S)) >= Len(seq) - 1
<1> DEFINE Good == { s \in Seq(T) : OneOut(s, S) => Len(Only(s, S)) >= Len(s) - 1 }
<1>1. <<>> \in Good
  <2>1. <<>> \in Seq(T) /\ Len(<<>>) = 0 /\ Len(Only(<<>>, S)) = 0
    BY OnlyEmpty
  <2>. QED  BY <2>1
<1>2. ASSUME NEW s \in Seq(T), NEW x \in T, s \in Good PROVE Append(s, x) \in Good
  <2> DEFINE t == Append(s, x)
  <2>1. /\ t \in Seq(T) /\ Len(t) = Len(s) + 1 /\ Len(s) \in Nat
        /\ t[Len(s) + 1] = x /\ \A i \in 1..Len(s) : t[i] = s[i]
    OBVIOUS
  <2>2. Only(t, S) = IF x \in S THEN Append(Only(s, S), x) ELSE Only(s, S)
    BY OnlyAppend
  <2>3. Only(s, S) \in Seq(T)
    BY OnlyType
  <2> HIDE DEF t
  <2>4. SUFFICES ASSUME OneOut(t, S) PROVE Len(Only(t, S)) >= Len(t) - 1
    BY <2>1 DEF t
  <2>5. CASE x \in S
    <3>1. OneOut(s, S)
      <4>1. SUFFICES ASSUME NEW i \in 1..Len(s), NEW j \in 1..Len(s), s[i] \notin S, s[j] \notin S PROVE i = j
        BY DEF OneOut
      <4>2. i \in 1..Len(t) /\ j \in 1..Len(t) /\ t[i] \notin S /\ t[j] \notin S
        BY <2>1, <4>1
      <4>. QED  BY <2>4, <4>2 DEF OneOut
    <3>2. Len(Only(s, S)) >= Len(s) - 1
      BY <1>2, <3>1
    <3>3. Len(Only(t, S)) = Len(Only(s, S)) + 1 /\ Len(Only(s, S)) \in Nat
      BY <2>2, <2>3, <2>5
    <3>. QED  BY <2>1, <3>2, <3>3
  <2>6. CASE x \notin S
    <3>1. ASSUME NEW i \in 1..Len(s) PROVE s[i] \in S
      <4>1. i \in 1..Len(t) /\ Len(s) + 1 \in 1..Len(t) /\ i # Len(s) + 1 /\ t[i] = s[i]
        BY <2>1
      <4>2. t[Len(s) + 1] \notin S
        BY <2>1, <2>6
      <4>. QED  BY <2>4, <4>1, <4>2 DEF OneOut
    <3>2. Only(s, S) = s
      BY <3>1, OnlyAllOrNone
    <3>. QED  BY <2>1, <2>2, <2>6, <3>2
  <2>. QED  BY <2>5, <2>6
<1>3. seq \in Good
  <2> HIDE DEF Good
  <2>. QED  BY <1>1, <1>2, SequenceInduction
<1>. QED  BY <1>3

-----------------------------------------------------------------------------
(* Ascending sequences.                                                    *)

Ascending(seq) == \A i \in 1..Len(seq) : \A j \in 1..i : seq[j] <= seq[i]

\* A limit cuts an ascending sequence in two.
CutAt(seq, limit, k) ==
  /\ k \in 0..Len(seq)
  /\ \A i \in 1..k : seq[i] <= limit
  /\ \A i \in (k + 1)..Len(seq) : seq[i] > limit

LEMMA AscendingCut ==
  ASSUME NEW seq \in Seq(Nat), Ascending(seq), NEW limit \in Int
  PROVE  \E k : CutAt(seq, limit, k)
<1> DEFINE Good == { s \in Seq(Nat) : Ascending(s) => \E k : CutAt(s, limit, k) }
<1>1. <<>> \in Good
  <2>1. <<>> \in Seq(Nat) /\ CutAt(<<>>, limit, 0)
    BY DEF CutAt
  <2>. QED  BY <2>1
<1>2. ASSUME NEW s \in Seq(Nat), NEW x \in Nat, s \in Good PROVE Append(s, x) \in Good
  <2> DEFINE t == Append(s, x)
  <2>1. /\ t \in Seq(Nat) /\ Len(t) = Len(s) + 1 /\ Len(s) \in Nat /\ t[Len(s) + 1] = x
        /\ \A i \in 1..Len(s) : t[i] = s[i]
    OBVIOUS
  <2> HIDE DEF t
  <2>2. SUFFICES ASSUME Ascending(t) PROVE \E k : CutAt(t, limit, k)
    BY <2>1 DEF t
  <2>3. CASE x <= limit
    <3>1. ASSUME NEW i \in 1..Len(t) PROVE t[i] <= limit
      <4>0. Len(t) \in 1..Len(t) /\ i \in 1..Len(t) /\ t[Len(t)] = x
        BY <2>1
      <4>1. t[i] <= t[Len(t)] /\ t[Len(t)] = x
        BY <2>2, <4>0 DEF Ascending
      <4>2. t[i] \in Nat
        BY <2>1
      <4>. QED  BY <2>3, <4>1, <4>2
    <3>2. CutAt(t, limit, Len(t))
      BY <2>1, <3>1 DEF CutAt
    <3>. QED  BY <3>2
  <2>4. CASE x > limit
    <3>1. Ascending(s)
      <4>1. SUFFICES ASSUME NEW i \in 1..Len(s), NEW j \in 1..i PROVE s[j] <= s[i]
        BY DEF Ascending
      <4>2. i \in 1..Len(t) /\ j \in 1..Len(s) /\ t[i] = s[i] /\ t[j] = s[j]
        BY <2>1
      <4>. QED  BY <2>2, <4>2 DEF Ascending
    <3>2. PICK k : CutAt(s, limit, k)
      BY <1>2, <3>1
    <3>0. /\ k \in 0..Len(s) /\ \A i \in 1..k : s[i] <= limit
          /\ \A i \in (k + 1)..Len(s) : s[i] > limit
      BY <3>2 DEF CutAt
    <3>3. k \in 0..Len(t) /\ \A i \in 1..k : i \in 1..Len(s)
      BY <2>1, <3>0
    <3>4. \A i \in 1..k : t[i] <= limit
      BY <2>1, <3>0, <3>3
    <3>5. ASSUME NEW i \in (k + 1)..Len(t) PROVE t[i] > limit
      <4>1. CASE i = Len(s) + 1
        BY <2>1, <2>4, <4>1
      <4>2. CASE i # Len(s) + 1
        <5>1. i \in (k + 1)..Len(s) /\ i \in 1..Len(s)
          BY <2>1, <3>0, <4>2
        <5>. QED  BY <2>1, <3>0, <5>1
      <4>. QED  BY <4>1, <4>2
    <3>. QED  BY <3>3, <3>4, <3>5 DEF CutAt
  <2>. QED  BY <2>3, <2>4
<1>3. seq \in Good
  <2> HIDE DEF Good
  <2>. QED  BY <1>1, <1>2, SequenceInduction
<1>. QED  BY <1>3

\* What a limit leaves of the tail of an ascending sequence is a tail.
LEMMA AscendingTail ==
  ASSUME NEW seq \in Seq(Nat), Ascending(seq), NEW limit \in Int,
         NEW d \in 0..Len(seq), \A i \in 1..d : seq[i] <= limit
  PROVE  \E k \in d..Len(seq) :
           /\ CutAt(seq, limit, k)
           /\ Only(SubSeq(seq, d + 1, Len(seq)), { t \in Nat : t > limit }) = SubSeq(seq, k + 1, Len(seq))
<1>1. PICK k : CutAt(seq, limit, k)
  BY AscendingCut
<1>2. k \in d..Len(seq)
  <2>1. k \in 0..Len(seq) /\ Len(seq) \in Nat
    BY <1>1 DEF CutAt
  <2>2. ASSUME k < d PROVE FALSE
    <3>1. d \in (k + 1)..Len(seq) /\ d \in 1..d
      BY <2>1, <2>2
    <3>2. seq[d] > limit /\ seq[d] <= limit /\ seq[d] \in Nat
      BY <1>1, <2>1, <3>1 DEF CutAt
    <3>. QED  BY <3>2
  <2>. QED  BY <2>1, <2>2
<1> DEFINE S == { t \in Nat : t > limit }
           gone == SubSeq(seq, d + 1, k)
           left == SubSeq(seq, k + 1, Len(seq))
<1>3. /\ gone \in Seq(Nat) /\ left \in Seq(Nat)
      /\ SubSeq(seq, d + 1, Len(seq)) = gone \o left
  <2>1. Len(seq) \in Nat /\ d \in Nat /\ k \in Nat /\ d <= k /\ k <= Len(seq)
    BY <1>2
  <2>2. \A i \in (d + 1)..Len(seq) : seq[i] \in Nat
    BY <2>1
  <2>3. gone \in Seq(Nat) /\ left \in Seq(Nat)
    BY <2>1, <2>2, SubSeqProperties
  <2>4. d + 1 \in 1..(Len(seq) + 1) /\ k \in ((d + 1) - 1)..Len(seq) /\ Len(seq) \in k..Len(seq)
    BY <2>1
  <2>. QED  BY <2>3, <2>4, ConcatAdjacentSubSeq
<1>4. \A i \in 1..Len(gone) : gone[i] \notin S
  BY <1>1, <1>2 DEF CutAt
<1>5. \A i \in 1..Len(left) : left[i] \in S
  BY <1>1, <1>2 DEF CutAt
<1> HIDE DEF S, gone, left
<1>6. Only(gone, S) = <<>> /\ Only(left, S) = left
  BY <1>3, <1>4, <1>5, OnlyAllOrNone
<1>7. Only(gone \o left, S) = Only(gone, S) \o Only(left, S)
  BY <1>3, OnlyConcat
<1>8. Only(gone \o left, S) = left
  BY <1>3, <1>6, <1>7
<1>9. Only(SubSeq(seq, d + 1, Len(seq)), { t \in Nat : t > limit }) = SubSeq(seq, k + 1, Len(seq))
  BY <1>3, <1>8 DEF S, left
<1>. QED  BY <1>1, <1>2, <1>9
=============================================================================
