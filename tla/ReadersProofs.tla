------------------------------ MODULE ReadersProofs ------------------------------
(***************************************************************************)
(* The two readers of the stored rows, for any instance.  The AI context   *)
(* is the newest that fits, without the message being answered: from what  *)
(* the recursive functions of AIContext compute (SequenceLemmas).  The     *)
(* administrator's pages miss only what moved, and keep their promise:     *)
(* from the inductive invariant PagingInv.                                 *)
(***************************************************************************)
EXTENDS AIContext, AdminRead, SequenceLemmas, FiniteSetTheorems, TLAPS

-----------------------------------------------------------------------------
(* The end of a sequence.                                                  *)

\* A sequence is what comes before its last elements, and these.
LEMMA LastOfSplits ==
  ASSUME NEW T, NEW seq \in Seq(T), NEW n \in Nat
  PROVE  \E p \in Seq(T) :
           /\ seq = p \o LastOf(seq, n) /\ LastOf(seq, n) \in Seq(T)
           /\ Len(LastOf(seq, n)) = IF n <= Len(seq) THEN n ELSE Len(seq)
           /\ n >= Len(seq) => p = <<>> /\ LastOf(seq, n) = seq
<1>1. CASE Len(seq) > n
  <2> DEFINE k == Len(seq) - n
             p == SubSeq(seq, 1, k)
             q == SubSeq(seq, k + 1, Len(seq))
  <2>1. Len(seq) \in Nat /\ k \in Nat /\ k <= Len(seq) /\ k >= 1
    BY <1>1
  <2>2. p \in Seq(T) /\ q \in Seq(T) /\ Len(q) = n
    BY <1>1
  <2>3. p \o q = SubSeq(seq, 1, Len(seq))
    <3>1. 1 \in 1..(Len(seq) + 1) /\ k \in (1 - 1)..Len(seq) /\ Len(seq) \in k..Len(seq)
      BY <2>1
    <3> HIDE DEF k
    <3>. QED  BY <3>1, ConcatAdjacentSubSeq
  <2>4. LastOf(seq, n) = q
    BY <1>1 DEF LastOf
  <2>5. p \o q = seq
    BY <2>3, SubSeqFull
  <2>6. n <= Len(seq) /\ ~(n >= Len(seq))
    BY <1>1, <2>1
  <2> HIDE DEF p, q
  <2>7. /\ seq = p \o LastOf(seq, n) /\ LastOf(seq, n) \in Seq(T)
        /\ Len(LastOf(seq, n)) = IF n <= Len(seq) THEN n ELSE Len(seq)
        /\ n >= Len(seq) => p = <<>> /\ LastOf(seq, n) = seq
    BY <2>2, <2>4, <2>5, <2>6
  <2>. QED  BY <2>2, <2>7
<1>2. CASE Len(seq) <= n
  <2>0. ~(Len(seq) > n)
    BY <1>2
  <2>1. LastOf(seq, n) = SubSeq(seq, 1, Len(seq))
    BY <2>0, Zenon DEF LastOf
  <2>2. LastOf(seq, n) = seq
    BY <2>1, SubSeqFull
  <2>3. <<>> \in Seq(T) /\ <<>> \o seq = seq
    OBVIOUS
  <2>4. Len(LastOf(seq, n)) = IF n <= Len(seq) THEN n ELSE Len(seq)
    <3>1. Len(seq) \in Nat
      OBVIOUS
    <3>. QED  BY <1>2, <2>2, <3>1
  <2>5. seq = <<>> \o LastOf(seq, n) /\ LastOf(seq, n) \in Seq(T)
    BY <2>2, <2>3
  <2>. QED  BY <2>2, <2>3, <2>4, <2>5
<1>3. Len(seq) > n \/ Len(seq) <= n
  <2>1. Len(seq) \in Nat
    OBVIOUS
  <2>. QED  BY <2>1
<1>. QED  BY <1>1, <1>2, <1>3

\* The last elements of a concatenation are those of its end, while there are
\* enough of them.
LEMMA LastOfConcat ==
  ASSUME NEW T, NEW p \in Seq(T), NEW s \in Seq(T), NEW n \in 0..Len(s)
  PROVE  LastOf(p \o s, n) = LastOf(s, n)
<1> DEFINE whole == p \o s
           a == LastOf(whole, n)
           b == LastOf(s, n)
<1>1. /\ whole \in Seq(T) /\ Len(whole) = Len(p) + Len(s) /\ Len(p) \in Nat /\ Len(s) \in Nat
      /\ \A i \in 1..Len(s) : whole[Len(p) + i] = s[i]
  OBVIOUS
<1> HIDE DEF whole
<1>2. a \in Seq(T) /\ b \in Seq(T) /\ Len(a) = n /\ Len(b) = n
  <2>1. n \in Nat /\ n <= Len(whole) /\ n <= Len(s)
    BY <1>1
  <2>. QED  BY <1>1, <2>1, LastOfSplits
<1>3. ASSUME NEW i \in 1..n PROVE a[i] = b[i]
  <2>1. a[i] = whole[Len(whole) - n + i]
    BY <1>1 DEF LastOf
  <2>2. b[i] = s[Len(s) - n + i]
    BY <1>1 DEF LastOf
  <2>3. Len(s) - n + i \in 1..Len(s) /\ Len(whole) - n + i = Len(p) + (Len(s) - n + i)
    BY <1>1
  <2>. QED  BY <1>1, <2>1, <2>2, <2>3
<1> HIDE DEF a, b
<1>4. a = b
  BY <1>2, <1>3, SeqEqual
<1>. QED  BY <1>4 DEF a, b, whole

\* One element more.
LEMMA LastOfOneMore ==
  ASSUME NEW T, NEW seq \in Seq(T), NEW n \in Nat, n < Len(seq)
  PROVE  LastOf(seq, n + 1) = <<seq[Len(seq) - n]>> \o LastOf(seq, n)
<1> DEFINE x == seq[Len(seq) - n]
           a == LastOf(seq, n + 1)
           b == LastOf(seq, n)
           c == <<x>> \o b
<1>0. Len(seq) \in Nat /\ x \in T
  OBVIOUS
<1>1. a \in Seq(T) /\ Len(a) = n + 1 /\ b \in Seq(T) /\ Len(b) = n
  <2>1. n + 1 \in Nat /\ n + 1 <= Len(seq) /\ n <= Len(seq)
    BY <1>0
  <2>. QED  BY <2>1, LastOfSplits
<1>2. \A i \in 1..(n + 1) : a[i] = seq[Len(seq) - (n + 1) + i]
  BY <1>0 DEF LastOf
<1>3. \A i \in 1..n : b[i] = seq[Len(seq) - n + i]
  <2>1. n <= Len(seq)
    BY <1>0
  <2> HIDE DEF b
  <2>2. PICK p \in Seq(T) : seq = p \o b /\ b \in Seq(T) /\ Len(b) = n
    BY <2>1, LastOfSplits DEF b
  <2>3. Len(p) = Len(seq) - n /\ \A i \in 1..n : (p \o b)[Len(p) + i] = b[i]
    <3>1. /\ Len(p \o b) = Len(p) + Len(b) /\ Len(p) \in Nat
          /\ \A i \in 1..Len(b) : (p \o b)[Len(p) + i] = b[i]
      <4>1. p \in Seq(T) /\ b \in Seq(T)
        BY <2>2
      <4>. QED  BY <4>1
    <3>2. Len(p) = Len(seq) - n
      <4>1. Len(seq) = Len(p) + n
        BY <2>2, <3>1
      <4>. QED  BY <3>1, <4>1
    <3>. QED  BY <2>2, <3>1, <3>2
  <2>. QED  BY <2>2, <2>3
<1> HIDE DEF a, b, x
<1>4. c \in Seq(T) /\ Len(c) = n + 1 /\ c[1] = x /\ \A i \in 2..(n + 1) : c[i] = b[i - 1]
  BY <1>0, <1>1
<1> HIDE DEF c
<1>5. ASSUME NEW i \in 1..(n + 1) PROVE a[i] = c[i]
  <2>1. CASE i = 1
    <3>1. Len(seq) - (n + 1) + 1 = Len(seq) - n
      BY <1>0
    <3>. QED  BY <1>2, <1>4, <2>1, <3>1 DEF x
  <2>2. CASE i # 1
    <3>1. i \in 2..(n + 1) /\ i - 1 \in 1..n /\ Len(seq) - (n + 1) + i = Len(seq) - n + (i - 1)
      BY <1>0, <2>2
    <3>. QED  BY <1>2, <1>3, <1>4, <3>1
  <2>. QED  BY <2>1, <2>2
<1>6. a = c
  BY <1>1, <1>4, <1>5, SeqEqual
<1>. QED  BY <1>6 DEF a, b, c, x

-----------------------------------------------------------------------------
(* Characters.                                                             *)

LEMMA CharsOfMessage == \A m \in Message : m.chars \in Nat
BY ContextAssumption DEF Message, ContextAssumption

Totals(f, turns) ==
  /\ DOMAIN f = 0..Len(turns)
  /\ f[0] = 0
  /\ \A n \in 1..Len(turns) : f[n] = f[n - 1] + turns[n].chars

LEMMA CharsRecursion ==
  ASSUME NEW turns \in Seq(Message)
  PROVE  \E f : f \in [0..Len(turns) -> Nat] /\ Totals(f, turns) /\ Chars(turns) = f[Len(turns)]
<1> DEFINE g == [p \in (1..Len(turns)) \X Nat |-> p[2] + turns[p[1]].chars]
           rec == CHOOSE sum : sum = [n \in 0..Len(turns) |->
                                          IF n = 0 THEN 0 ELSE sum[n - 1] + turns[n].chars]
<1>1. Len(turns) \in Nat /\ \A n \in 1..Len(turns) : turns[n].chars \in Nat
  BY CharsOfMessage
<1>2. Steps(Len(turns), Nat, 0, g)
  BY <1>1 DEF Steps
<1>3. \A n \in 1..Len(turns), d \in Nat : g[<<n, d>>] = d + turns[n].chars
  OBVIOUS
<1> HIDE DEF g
<1>4. PICK f : Runs(f, Len(turns), Nat, 0, g)
  BY <1>2, RecursionExists
<1>5. f \in [0..Len(turns) -> Nat] /\ f[0] = 0 /\ \A n \in 1..Len(turns) : f[n] = g[<<n, f[n - 1]>>]
  BY <1>4 DEF Runs
<1>6. ASSUME NEW n \in 1..Len(turns) PROVE f[n] = f[n - 1] + turns[n].chars
  <2>1. n - 1 \in 0..Len(turns)
    BY <1>1
  <2>2. f[n - 1] \in Nat
    BY <1>5, <2>1
  <2>. QED  BY <1>3, <1>5, <2>2
<1>7. f = [n \in 0..Len(turns) |-> IF n = 0 THEN 0 ELSE f[n - 1] + turns[n].chars]
  <2>1. \A n \in 0..Len(turns) : n # 0 => n \in 1..Len(turns)
    BY <1>1
  <2>. QED  BY <1>5, <1>6, <2>1
<1>8. rec = [n \in 0..Len(turns) |-> IF n = 0 THEN 0 ELSE rec[n - 1] + turns[n].chars]
  BY <1>7
<1>9. Chars(turns) = rec[Len(turns)]
  BY DEF Chars
<1> HIDE DEF rec
<1>10. \A n \in 1..Len(turns) : rec[n] = rec[n - 1] + turns[n].chars
  <2>1. \A n \in 1..Len(turns) : n \in 0..Len(turns) /\ n # 0
    BY <1>1
  <2>. QED  BY <1>8, <2>1
<1>11. Alike(rec, f, Len(turns))
  <2>1. rec[0] = f[0]
    BY <1>1, <1>5, <1>8
  <2>2. \A n \in 1..Len(turns) : rec[n - 1] = f[n - 1] => rec[n] = f[n]
    BY <1>6, <1>10
  <2>. QED  BY <1>1, <2>1, <2>2 DEF Alike
<1>12. \A n \in 0..Len(turns) : rec[n] = f[n]
  BY <1>11, RecursionUnique
<1>13. Chars(turns) = f[Len(turns)]
  BY <1>1, <1>9, <1>12
<1>. QED  BY <1>5, <1>6, <1>13 DEF Totals

LEMMA CharsEmpty == Chars(<<>>) = 0
<1>1. <<>> \in Seq(Message) /\ Len(<<>>) = 0
  OBVIOUS
<1>2. PICK f : Totals(f, <<>>) /\ Chars(<<>>) = f[Len(<<>>)]
  BY <1>1, CharsRecursion
<1>. QED  BY <1>1, <1>2 DEF Totals

LEMMA CharsAppend ==
  ASSUME NEW turns \in Seq(Message), NEW m \in Message
  PROVE  Chars(Append(turns, m)) = Chars(turns) + m.chars /\ Chars(turns) \in Nat
<1> DEFINE longer == Append(turns, m)
<1>1. /\ longer \in Seq(Message) /\ Len(longer) = Len(turns) + 1 /\ Len(turns) \in Nat
      /\ longer[Len(turns) + 1] = m
      /\ \A n \in 1..Len(turns) : longer[n] = turns[n]
  OBVIOUS
<1> HIDE DEF longer
<1>2. PICK f : f \in [0..Len(turns) -> Nat] /\ Totals(f, turns) /\ Chars(turns) = f[Len(turns)]
  BY CharsRecursion
<1>3. PICK h : Totals(h, longer) /\ Chars(longer) = h[Len(longer)]
  BY <1>1, CharsRecursion
<1>4. Alike(f, h, Len(turns))
  <2>1. f[0] = h[0]
    BY <1>2, <1>3 DEF Totals
  <2>2. ASSUME NEW n \in 1..Len(turns), f[n - 1] = h[n - 1] PROVE f[n] = h[n]
    <3>1. n \in 1..Len(longer) /\ longer[n] = turns[n]
      BY <1>1
    <3>2. f[n] = f[n - 1] + turns[n].chars
      BY <1>2 DEF Totals
    <3>3. h[n] = h[n - 1] + longer[n].chars
      BY <1>3, <3>1 DEF Totals
    <3>. QED  BY <2>2, <3>1, <3>2, <3>3
  <2>. QED  BY <1>1, <2>1, <2>2 DEF Alike
<1>5. f[Len(turns)] = h[Len(turns)]
  BY <1>1, <1>4, RecursionUnique
<1>6. Len(turns) + 1 \in 1..Len(longer) /\ (Len(turns) + 1) - 1 = Len(turns)
  BY <1>1
<1>7. h[Len(longer)] = h[Len(turns)] + m.chars
  BY <1>1, <1>3, <1>6 DEF Totals
<1>8. f[Len(turns)] \in Nat
  BY <1>1, <1>2
<1>. QED  BY <1>2, <1>3, <1>5, <1>7, <1>8 DEF longer

LEMMA CharsConcat ==
  ASSUME NEW s \in Seq(Message), NEW t \in Seq(Message)
  PROVE  Chars(s \o t) = Chars(s) + Chars(t) /\ Chars(s) \in Nat /\ Chars(t) \in Nat
<1> DEFINE Good == { r \in Seq(Message) : /\ Chars(s \o r) = Chars(s) + Chars(r)
                                         /\ Chars(s) \in Nat /\ Chars(r) \in Nat }
<1>0. Chars(s) \in Nat
  BY CharsRecursion
<1>1. <<>> \in Good
  <2>1. s \o <<>> = s /\ <<>> \in Seq(Message)
    OBVIOUS
  <2>2. Chars(s) = Chars(s) + 0
    BY <1>0
  <2>. QED  BY <1>0, <2>1, <2>2, CharsEmpty
<1>2. ASSUME NEW r \in Seq(Message), NEW m \in Message, r \in Good PROVE Append(r, m) \in Good
  <2>1. s \o Append(r, m) = Append(s \o r, m) /\ s \o r \in Seq(Message) /\ Append(r, m) \in Seq(Message)
    OBVIOUS
  <2>2. Chars(Append(s \o r, m)) = Chars(s \o r) + m.chars /\ Chars(Append(r, m)) = Chars(r) + m.chars
    BY <2>1, CharsAppend
  <2>3. Chars(s \o r) = Chars(s) + Chars(r) /\ Chars(s) \in Nat /\ Chars(r) \in Nat /\ m.chars \in Nat
    BY <1>2, CharsOfMessage
  <2>4. Chars(s \o Append(r, m)) = Chars(s) + Chars(Append(r, m)) /\ Chars(Append(r, m)) \in Nat
    BY <2>1, <2>2, <2>3
  <2>. QED  BY <1>0, <2>1, <2>4
<1>3. t \in Good
  <2> HIDE DEF Good
  <2>. QED  BY <1>1, <1>2, SequenceInduction
<1>. QED  BY <1>3
-----------------------------------------------------------------------------
(* The budget.                                                             *)

Keeps(f, turns) ==
  /\ DOMAIN f = 0..Len(turns)
  /\ f[0] = <<>>
  /\ \A n \in 1..Len(turns) :
       f[n] = IF Len(f[n - 1]) = n - 1 /\ Fits(f[n - 1], turns[Len(turns) - n + 1])
              THEN <<turns[Len(turns) - n + 1]>> \o f[n - 1] ELSE f[n - 1]

LEMMA TruncatedRecursion ==
  ASSUME NEW turns \in Seq(Message)
  PROVE  \E f : Keeps(f, turns) /\ Truncated(turns) = f[Len(turns)]
<1> DEFINE turn(n) == turns[Len(turns) - n + 1]
           next(n, newer) == IF Len(newer) = n - 1 /\ Fits(newer, turn(n)) THEN <<turn(n)>> \o newer ELSE newer
           g == [p \in (1..Len(turns)) \X Seq(Message) |-> next(p[1], p[2])]
           rec == CHOOSE kept : kept = [n \in 0..Len(turns) |-> IF n = 0 THEN <<>> ELSE next(n, kept[n - 1])]
<1>1. Len(turns) \in Nat /\ \A n \in 1..Len(turns) : turn(n) \in Message
  OBVIOUS
<1>2. ASSUME NEW n \in 1..Len(turns), NEW newer \in Seq(Message) PROVE next(n, newer) \in Seq(Message)
  <2>1. <<turn(n)>> \o newer \in Seq(Message)
    BY <1>1
  <2>. QED  BY <2>1
<1>3. Steps(Len(turns), Seq(Message), <<>>, g)
  <2>1. <<>> \in Seq(Message)
    OBVIOUS
  <2>2. g \in [(1..Len(turns)) \X Seq(Message) -> Seq(Message)]
    <3> HIDE DEF next
    <3>. QED  BY <1>2
  <2>. QED  BY <1>1, <2>1, <2>2 DEF Steps
<1>4. \A n \in 1..Len(turns), d \in Seq(Message) : g[<<n, d>>] = next(n, d)
  <2> HIDE DEF next
  <2>. QED  OBVIOUS
<1> HIDE DEF g, next
<1>5. PICK f : Runs(f, Len(turns), Seq(Message), <<>>, g)
  BY <1>3, RecursionExists
<1>6. /\ f \in [0..Len(turns) -> Seq(Message)] /\ f[0] = <<>>
      /\ \A n \in 1..Len(turns) : f[n] = g[<<n, f[n - 1]>>]
  BY <1>5 DEF Runs
<1>7. ASSUME NEW n \in 1..Len(turns) PROVE f[n] = next(n, f[n - 1])
  <2>1. n - 1 \in 0..Len(turns)
    BY <1>1
  <2>2. f[n - 1] \in Seq(Message)
    BY <1>6, <2>1
  <2>. QED  BY <1>4, <1>6, <2>2
<1>8. f = [n \in 0..Len(turns) |-> IF n = 0 THEN <<>> ELSE next(n, f[n - 1])]
  <2>1. \A n \in 0..Len(turns) : n # 0 => n \in 1..Len(turns)
    BY <1>1
  <2>. QED  BY <1>6, <1>7, <2>1
<1>9. rec = [n \in 0..Len(turns) |-> IF n = 0 THEN <<>> ELSE next(n, rec[n - 1])]
  BY <1>8
<1>10. Truncated(turns) = rec[Len(turns)]
  BY DEF Truncated, next
<1> HIDE DEF rec
<1>11. \A n \in 1..Len(turns) : rec[n] = next(n, rec[n - 1])
  <2>1. \A n \in 1..Len(turns) : n \in 0..Len(turns) /\ n # 0
    BY <1>1
  <2>. QED  BY <1>9, <2>1
<1>12. rec[0] = <<>> /\ DOMAIN rec = 0..Len(turns)
  BY <1>1, <1>9
<1>13. Keeps(rec, turns)
  BY <1>11, <1>12 DEF Keeps, next
<1>. QED  BY <1>10, <1>13

\* What is kept is the newest turns, as many as fit.
NewestFitting(turns, n) ==
  /\ n \in 0..Len(turns)
  /\ Chars(LastOf(turns, n)) <= Budget
  /\ n = Len(turns) \/ Chars(LastOf(turns, n + 1)) > Budget

LEMMA TruncatedIsLastOf ==
  ASSUME NEW turns \in Seq(Message)
  PROVE  \E n : NewestFitting(turns, n) /\ Truncated(turns) = LastOf(turns, n)
<1>0. Len(turns) \in Nat /\ Budget \in Nat
  BY ContextAssumption DEF ContextAssumption
<1>1. PICK f : Keeps(f, turns) /\ Truncated(turns) = f[Len(turns)]
  BY TruncatedRecursion
<1> DEFINE Kept(n, m) == /\ f[n] = LastOf(turns, m) /\ m \in 0..n
                         /\ Chars(LastOf(turns, m)) <= Budget
                         /\ m = n \/ Chars(LastOf(turns, m + 1)) > Budget
           Good == { n \in Nat : n > Len(turns) \/ \E m : Kept(n, m) }
<1>2. 0 \in Good
  <2>1. LastOf(turns, 0) = <<>>
    <3>1. Len(LastOf(turns, 0)) = 0 /\ LastOf(turns, 0) \in Seq(Message)
      BY <1>0, LastOfSplits
    <3>. QED  BY <3>1
  <2>2. f[0] = <<>> /\ Chars(<<>>) <= Budget
    BY <1>0, <1>1, CharsEmpty DEF Keeps
  <2>3. Kept(0, 0)
    BY <2>1, <2>2
  <2> HIDE DEF Kept
  <2>. QED  BY <2>3
<1>3. ASSUME NEW k \in Nat, k \in Good PROVE k + 1 \in Good
  <2>1. SUFFICES ASSUME k + 1 <= Len(turns) PROVE \E m : Kept(k + 1, m)
    <3> HIDE DEF Kept
    <3>. QED  BY <1>0
  <2>2. PICK m : Kept(k, m)
    <3> HIDE DEF Kept
    <3>. QED  BY <1>0, <1>3, <2>1
  <2> DEFINE turn == turns[Len(turns) - (k + 1) + 1]
             last == LastOf(turns, m)
  <2>3. m \in Nat /\ m <= k /\ m <= Len(turns) /\ f[k] = last /\ Chars(last) <= Budget
    BY <1>0, <2>1, <2>2
  <2>4. last \in Seq(Message) /\ Len(last) = m
    BY <2>3, LastOfSplits
  <2>5. f[k + 1] = IF Len(last) = k /\ Fits(last, turn) THEN <<turn>> \o last ELSE last
    <3>1. k + 1 \in 1..Len(turns) /\ (k + 1) - 1 = k
      BY <1>0, <2>1
    <3>2. f[k + 1] = IF Len(f[k]) = k /\ Fits(f[k], turn) THEN <<turn>> \o f[k] ELSE f[k]
      BY <1>1, <3>1 DEF Keeps
    <3>. QED  BY <2>3, <3>2
  <2>6. turn \in Message /\ Len(turns) - (k + 1) + 1 = Len(turns) - k
    BY <1>0, <2>1
  <2> HIDE DEF last
  <2>7. CASE m < k
    <3>1. f[k + 1] = last /\ Chars(LastOf(turns, m + 1)) > Budget /\ m \in 0..(k + 1)
      BY <2>2, <2>3, <2>4, <2>5, <2>7
    <3>2. Kept(k + 1, m)
      BY <2>3, <3>1 DEF last
    <3> HIDE DEF Kept
    <3>. QED  BY <3>2
  <2>8. CASE m = k
    <3>1. LastOf(turns, k + 1) = <<turn>> \o last
      <4>1. LastOf(turns, k + 1) = <<turns[Len(turns) - k]>> \o LastOf(turns, k)
        <5>1. k < Len(turns)
          BY <1>0, <2>1
        <5>. QED  BY <5>1, LastOfOneMore
      <4>. QED  BY <2>6, <2>8, <4>1 DEF last
    <3>2. Chars(<<turn>> \o last) = Chars(last) + turn.chars
      <4>1. <<turn>> \in Seq(Message) /\ <<turn>> = Append(<<>>, turn) /\ <<>> \in Seq(Message)
        BY <2>6
      <4>2. Chars(<<turn>>) = 0 + turn.chars
        BY <2>6, <4>1, CharsAppend, CharsEmpty
      <4>3. Chars(<<turn>> \o last) = Chars(<<turn>>) + Chars(last) /\ Chars(last) \in Nat
        BY <2>4, <4>1, CharsConcat
      <4>4. turn.chars \in Nat
        BY <2>6, CharsOfMessage
      <4>. QED  BY <4>2, <4>3, <4>4
    <3>3. Fits(last, turn) <=> Chars(LastOf(turns, k + 1)) <= Budget
      BY <3>1, <3>2 DEF Fits
    <3>4. CASE Fits(last, turn)
      <4>1. f[k + 1] = LastOf(turns, k + 1) /\ k + 1 \in 0..(k + 1)
        BY <2>4, <2>5, <2>8, <3>1, <3>4
      <4>2. Kept(k + 1, k + 1)
        BY <3>3, <3>4, <4>1
      <4> HIDE DEF Kept
      <4>. QED  BY <4>2
    <3>5. CASE ~Fits(last, turn)
      <4>1. Chars(LastOf(turns, k + 1)) > Budget
        <5>1. Chars(last) + turn.chars \in Nat
          <6>1. Chars(last) \in Nat
            BY <2>4, CharsRecursion
          <6>. QED  BY <2>6, <6>1, CharsOfMessage
        <5>2. Chars(LastOf(turns, k + 1)) \in Nat
          BY <3>1, <3>2, <5>1
        <5>3. ~(Chars(LastOf(turns, k + 1)) <= Budget)
          BY <3>3, <3>5
        <5>. QED  BY <1>0, <5>2, <5>3
      <4>2. f[k + 1] = last /\ m \in 0..(k + 1)
        BY <2>3, <2>5, <3>5
      <4>3. Kept(k + 1, m)
        BY <2>3, <2>8, <4>1, <4>2 DEF last
      <4> HIDE DEF Kept
      <4>. QED  BY <4>3
    <3>. QED  BY <3>4, <3>5
  <2>. QED  BY <2>3, <2>7, <2>8
<1> HIDE DEF Good
<1>4. Nat \subseteq Good
  BY <1>2, <1>3, SetInduction
<1>5. PICK n : Kept(Len(turns), n)
  <2> HIDE DEF Kept
  <2>. QED  BY <1>0, <1>4 DEF Good
<1>6. NewestFitting(turns, n)
  BY <1>5 DEF NewestFitting
<1>. QED  BY <1>1, <1>5, <1>6

-----------------------------------------------------------------------------
(* The conversation.                                                       *)

\* The current message is stored once.
HistoryInv == history \in Seq(Message) /\ OneOut(history, Other)

THEOREM HistoryInvariant == Spec => []HistoryInv
<1>1. Init => HistoryInv
  BY DEF Init, HistoryInv, OneOut
<1>2. HistoryInv /\ [Next]_history => HistoryInv'
  <2>1. SUFFICES ASSUME HistoryInv, NEW m \in Message, Store(m) PROVE HistoryInv'
    BY DEF Next, Full, HistoryInv, OneOut
  <2> DEFINE longer == Append(history, m)
  <2>2. /\ history \in Seq(Message) /\ longer \in Seq(Message) /\ Len(history) \in Nat
        /\ Len(longer) = Len(history) + 1 /\ longer[Len(history) + 1] = m
        /\ \A i \in 1..Len(history) : longer[i] = history[i]
    BY <2>1 DEF HistoryInv
  <2>3. history' = longer /\ (m.wamid = "current" => \A i \in 1..Len(history) : history[i].wamid # "current")
    BY <2>1, <2>2 DEF Store
  <2> HIDE DEF longer
  <2>4. ASSUME NEW i \in 1..Len(longer), NEW j \in 1..Len(longer), longer[i] \notin Other, longer[j] \notin Other
        PROVE  i = j
    <3>1. longer[i] \in Message /\ longer[j] \in Message /\ longer[i].wamid = "current" /\ longer[j].wamid = "current"
      BY <2>2, <2>4 DEF Other
    <3>2. CASE i \in 1..Len(history) /\ j \in 1..Len(history)
      BY <2>1, <2>2, <2>4, <3>2 DEF HistoryInv, OneOut
    <3>3. CASE i \notin 1..Len(history)
      <4>1. i = Len(history) + 1 /\ m.wamid = "current"
        BY <2>2, <3>1, <3>3
      <4>2. j \notin 1..Len(history)
        BY <2>2, <2>3, <3>1, <4>1
      <4>. QED  BY <2>2, <4>1, <4>2
    <3>4. CASE j \notin 1..Len(history)
      <4>1. j = Len(history) + 1 /\ m.wamid = "current"
        BY <2>2, <3>1, <3>4
      <4>2. i \notin 1..Len(history)
        BY <2>2, <2>3, <3>1, <4>1
      <4>. QED  BY <2>2, <4>1, <4>2
    <3>. QED  BY <3>2, <3>3, <3>4
  <2>. QED  BY <2>2, <2>3, <2>4 DEF HistoryInv, OneOut
<1>. QED  BY <1>1, <1>2, PTL DEF Spec

\* The messages read, and what is left of them.
LEMMA TurnsTyped ==
  ASSUME HistoryInv
  PROVE  /\ Fetched \in Seq(Message) /\ Only(Fetched, Other \cap Spoken) \in Seq(Message)
         /\ Turns \in Seq(Message) /\ Limit \in Nat
         /\ \A i \in 1..Len(Turns) : Turns[i].wamid # "current"
<1>1. Limit \in Nat /\ Limit + 1 \in Nat /\ history \in Seq(Message)
  BY ContextAssumption DEF ContextAssumption, HistoryInv
<1>2. Fetched \in Seq(Message)
  BY <1>1, LastOfSplits DEF Fetched
<1>3. /\ Only(Fetched, Other \cap Spoken) \in Seq(Message)
      /\ Only(Fetched, Other \cap Spoken) \in Seq(Message \cap (Other \cap Spoken))
  BY <1>2, OnlyType
<1>4. /\ Turns \in Seq(Message) /\ Turns \in Seq(Message \cap (Other \cap Spoken))
  BY <1>1, <1>3, LastOfSplits DEF Turns
<1>5. ASSUME NEW i \in 1..Len(Turns) PROVE Turns[i].wamid # "current"
  <2>1. Turns[i] \in Message \cap (Other \cap Spoken)
    BY <1>4
  <2>. QED  BY <2>1 DEF Other
<1>. QED  BY <1>1, <1>2, <1>3, <1>4, <1>5

\* The text being answered is never sent a second time as history, wherever
\* in the conversation it is: for any limit, budget and conversation.
THEOREM CurrentIsExcluded == Spec => []CurrentExcluded
<1>1. ASSUME HistoryInv PROVE CurrentExcluded
  <2>1. PICK n : NewestFitting(Turns, n) /\ Truncated(Turns) = LastOf(Turns, n)
    BY <1>1, TurnsTyped, TruncatedIsLastOf
  <2>2. n \in Nat /\ n <= Len(Turns) /\ Turns \in Seq(Message)
    BY <1>1, <2>1, TurnsTyped DEF NewestFitting
  <2>3. PICK p \in Seq(Message) : Turns = p \o LastOf(Turns, n) /\ LastOf(Turns, n) \in Seq(Message)
    BY <2>2, LastOfSplits
  <2> DEFINE context == LastOf(Turns, n)
             turns == Turns
  <2>4. ASSUME NEW i \in 1..Len(context) PROVE context[i].wamid # "current"
    <3>1. turns = p \o context /\ context \in Seq(Message) /\ turns \in Seq(Message)
      BY <2>2, <2>3
    <3> HIDE DEF context, turns
    <3>2. context[i] = turns[Len(p) + i] /\ Len(p) + i \in 1..Len(turns)
      BY <2>4, <3>1
    <3>3. turns[Len(p) + i].wamid # "current"
      BY <1>1, <3>2, TurnsTyped DEF turns
    <3>. QED  BY <3>2, <3>3
  <2>5. DOMAIN context = 1..Len(context) /\ Context = context
    BY <2>1, <2>3 DEF Context
  <2>. QED  BY <2>4, <2>5 DEF CurrentExcluded
<1>. QED  BY <1>1, HistoryInvariant, PTL

\* When every message has a text, the turns are the last of the others.
LEMMA TurnsAreNewest ==
  ASSUME HistoryInv, \A i \in DOMAIN history : history[i].chars > 0
  PROVE  Turns = LastOf(Only(history, Other), Limit)
<1> DEFINE others == Only(history, Other)
           fetched == Fetched
           read == Only(fetched, Other)
<1>1. Limit \in Nat /\ history \in Seq(Message) /\ OneOut(history, Other)
  BY ContextAssumption DEF ContextAssumption, HistoryInv
<1>2. PICK p \in Seq(Message) :
         /\ history = p \o fetched /\ fetched \in Seq(Message)
         /\ Len(fetched) = IF Limit + 1 <= Len(history) THEN Limit + 1 ELSE Len(history)
         /\ Limit + 1 >= Len(history) => p = <<>> /\ fetched = history
  <2>1. Limit + 1 \in Nat
    BY <1>1
  <2>. QED  BY <1>1, <2>1, LastOfSplits DEF Fetched
<1> HIDE DEF fetched
<1>3. /\ Len(history) = Len(p) + Len(fetched) /\ Len(p) \in Nat /\ Len(fetched) \in Nat
      /\ \A i \in 1..Len(fetched) : history[Len(p) + i] = fetched[i]
  <2>1. /\ Len(p \o fetched) = Len(p) + Len(fetched) /\ Len(p) \in Nat /\ Len(fetched) \in Nat
        /\ \A i \in 1..Len(fetched) : (p \o fetched)[Len(p) + i] = fetched[i]
    <3>1. p \in Seq(Message) /\ fetched \in Seq(Message)
      BY <1>2
    <3>. QED  BY <3>1
  <2>2. history = p \o fetched
    BY <1>2
  <2>. QED  BY <2>1, <2>2
\* Every message has a text: only the current one is left out.
<1>4. Only(fetched, Other \cap Spoken) = read
  <2>1. ASSUME NEW i \in 1..Len(fetched) PROVE fetched[i] \in Other \cap Spoken <=> fetched[i] \in Other
    <3>1. Len(p) + i \in DOMAIN history
      BY <1>1, <1>3
    <3>2. fetched[i] \in Message /\ fetched[i].chars > 0
      <4>1. fetched \in Seq(Message) /\ fetched[i] = history[Len(p) + i]
        BY <1>2, <1>3
      <4>2. fetched[i] \in Message
        BY <4>1
      <4>. QED  BY <1>1, <3>1, <4>1, <4>2
    <3>. QED  BY <3>2 DEF Other, Spoken
  <2>. QED  BY <1>2, <2>1, OnlySame
<1>5. Only(p, Other) \in Seq(Message) /\ read \in Seq(Message) /\ others = Only(p, Other) \o read
  <2>1. Only(p \o fetched, Other) = Only(p, Other) \o Only(fetched, Other)
    BY <1>2, OnlyConcat
  <2>2. Only(p, Other) \in Seq(Message) /\ Only(fetched, Other) \in Seq(Message)
    BY <1>2, OnlyType
  <2>. QED  BY <1>2, <2>1, <2>2
<1>6. Len(read) >= Len(fetched) - 1
  <2>1. OneOut(fetched, Other)
    <3>1. SUFFICES ASSUME NEW i \in 1..Len(fetched), NEW j \in 1..Len(fetched),
                          fetched[i] \notin Other, fetched[j] \notin Other
                   PROVE  i = j
      BY DEF OneOut
    <3>2. /\ Len(p) + i \in 1..Len(history) /\ Len(p) + j \in 1..Len(history)
          /\ history[Len(p) + i] \notin Other /\ history[Len(p) + j] \notin Other
      BY <1>3, <3>1
    <3>3. Len(p) + i = Len(p) + j
      BY <1>1, <3>2 DEF OneOut
    <3>. QED  BY <1>3, <3>3
  <2>. QED  BY <1>2, <2>1, OnlyAllButOne
<1>7. Turns = LastOf(read, Limit)
  BY <1>4 DEF Turns, fetched
<1> HIDE DEF others, read
<1>8. CASE Len(read) >= Limit
  <2>1. Limit \in 0..Len(read)
    BY <1>1, <1>5, <1>8
  <2> DEFINE before == Only(p, Other)
  <2>2. before \in Seq(Message)
    BY <1>5
  <2>3. others = before \o read
    BY <1>5
  <2> HIDE DEF before
  <2>4. LastOf(before \o read, Limit) = LastOf(read, Limit)
    BY <1>5, <2>1, <2>2, LastOfConcat
  <2>. QED  BY <1>7, <2>3, <2>4 DEF others
<1>9. CASE Len(read) < Limit
  <2>1. Limit + 1 >= Len(history)
    <3>1. Len(read) \in Nat /\ Len(history) \in Nat
      BY <1>1, <1>5
    <3>. QED  BY <1>1, <1>2, <1>3, <1>6, <1>9, <3>1
  <2>2. read = others
    BY <1>2, <2>1 DEF read, others
  <2>. QED  BY <1>7, <2>2 DEF others
<1>10. Len(read) >= Limit \/ Len(read) < Limit
  BY <1>1, <1>5
<1>. QED  BY <1>8, <1>9, <1>10

\* The last few of a sequence, and the last few of these.
LEMMA LastOfLastOf ==
  ASSUME NEW seq \in Seq(Message), NEW m \in Nat, NEW n \in 0..Len(LastOf(seq, m))
  PROVE  LastOf(LastOf(seq, m), n) = LastOf(seq, n)
<1> DEFINE last == LastOf(seq, m)
<1>1. PICK p \in Seq(Message) : seq = p \o last /\ last \in Seq(Message)
  BY LastOfSplits
<1>2. n \in 0..Len(last)
  OBVIOUS
<1> HIDE DEF last
<1>3. LastOf(p \o last, n) = LastOf(last, n)
  BY <1>1, <1>2, LastOfConcat
<1>4. LastOf(seq, n) = LastOf(last, n)
  BY <1>1, <1>3
<1>. QED  BY <1>4 DEF last

\* More of a sequence has no fewer characters.
LEMMA CharsGrow ==
  ASSUME NEW seq \in Seq(Message), NEW m \in 0..Len(seq), NEW n \in 0..m
  PROVE  /\ Chars(LastOf(seq, n)) <= Chars(LastOf(seq, m))
         /\ Chars(LastOf(seq, n)) \in Nat /\ Chars(LastOf(seq, m)) \in Nat
<1> DEFINE last == LastOf(seq, m)
<1>1. m \in Nat /\ n \in Nat /\ m <= Len(seq) /\ n <= m
  OBVIOUS
<1>2. last \in Seq(Message) /\ Len(last) = m
  BY <1>1, LastOfSplits
<1>3. LastOf(last, n) = LastOf(seq, n)
  BY <1>1, <1>2, LastOfLastOf
<1> HIDE DEF last
<1>4. PICK p \in Seq(Message) : last = p \o LastOf(last, n) /\ LastOf(last, n) \in Seq(Message)
  BY <1>1, <1>2, LastOfSplits
<1> DEFINE few == LastOf(last, n)
<1>5. last = p \o few /\ few \in Seq(Message)
  BY <1>4
<1> HIDE DEF few
<1>6. Chars(p \o few) = Chars(p) + Chars(few) /\ Chars(p) \in Nat /\ Chars(few) \in Nat
  BY <1>5, CharsConcat
<1>7. Chars(few) <= Chars(last) /\ Chars(last) \in Nat
  BY <1>5, <1>6
<1>. QED  BY <1>3, <1>6, <1>7 DEF few, last

\* When every message has a text, the context is the longest run of the newest
\* other messages that the message limit and the character budget admit: for
\* any limit, budget and conversation.
THEOREM NewestThatFitIsSent == Spec => []NewestThatFit
<1>1. ASSUME HistoryInv, \A i \in DOMAIN history : history[i].chars > 0
      PROVE  LET others == Only(history, Other)
                 admitted(n) == n <= Limit /\ Chars(LastOf(others, n)) <= Budget
             IN  \E n \in 0..Len(others) :
                   /\ admitted(n) /\ Context = LastOf(others, n)
                   /\ \A m \in (n + 1)..Len(others) : ~admitted(m)
  <2> DEFINE others == Only(history, Other)
             admitted(n) == n <= Limit /\ Chars(LastOf(others, n)) <= Budget
             turns == LastOf(others, Limit)
  <2>1. others \in Seq(Message) /\ Limit \in Nat /\ Budget \in Nat
    BY <1>1, OnlyType, ContextAssumption DEF HistoryInv, ContextAssumption
  <2>2. Turns = turns
    BY <1>1, TurnsAreNewest
  <2> HIDE DEF others
  <2>3. turns \in Seq(Message) /\ Len(turns) = IF Limit <= Len(others) THEN Limit ELSE Len(others)
    BY <2>1, LastOfSplits
  <2>4. PICK n : NewestFitting(turns, n) /\ Truncated(turns) = LastOf(turns, n)
    BY <2>3, TruncatedIsLastOf
  <2>5. /\ n \in 0..Len(turns) /\ Chars(LastOf(turns, n)) <= Budget
        /\ n = Len(turns) \/ Chars(LastOf(turns, n + 1)) > Budget
    BY <2>4 DEF NewestFitting
  <2>6. \A k \in 0..Len(turns) : LastOf(turns, k) = LastOf(others, k)
    BY <2>1, LastOfLastOf
  <2>7. Context = LastOf(turns, n)
    BY <2>2, <2>4 DEF Context
  <2> HIDE DEF turns
  <2>8. Len(others) \in Nat /\ n \in 0..Len(others) /\ n <= Limit
    BY <2>1, <2>3, <2>5
  <2>9. admitted(n) /\ Context = LastOf(others, n)
    BY <2>5, <2>6, <2>7, <2>8
  <2>10. ASSUME NEW m \in (n + 1)..Len(others) PROVE ~admitted(m)
    <3>1. CASE m > Limit
      BY <2>1, <3>1
    <3>2. CASE m <= Limit
      <4>1. n < Len(turns) /\ n + 1 \in 0..Len(turns) /\ n # Len(turns)
        BY <2>1, <2>3, <2>8, <3>2
      <4>2. Chars(LastOf(others, n + 1)) > Budget
        BY <2>5, <2>6, <4>1
      <4>3. m \in 0..Len(others) /\ n + 1 \in 0..m
        BY <2>8
      <4>4. Chars(LastOf(others, n + 1)) <= Chars(LastOf(others, m)) /\ Chars(LastOf(others, m)) \in Nat
            /\ Chars(LastOf(others, n + 1)) \in Nat
        BY <2>1, <4>3, CharsGrow
      <4>. QED  BY <2>1, <4>2, <4>4
    <3>. QED  BY <2>1, <2>8, <3>1, <3>2
  <2> HIDE DEF admitted
  <2>11. \E k \in 0..Len(others) : /\ admitted(k) /\ Context = LastOf(others, k)
                                   /\ \A m \in (k + 1)..Len(others) : ~admitted(m)
    BY <2>8, <2>9, <2>10
  <2>. QED  BY <2>11 DEF admitted, others
<1>2. HistoryInv => NewestThatFit
  BY <1>1 DEF NewestThatFit
<1>. QED  BY <1>2, HistoryInvariant, PTL

-----------------------------------------------------------------------------
(* The listing.                                                            *)

LEMMA StatementOrder == Statements[1] = "count" /\ After("count") = "page" /\ After("page") = "answer"
BY DEF Statements, After

LEMMA ElementsFinite ==
  ASSUME NEW seq \in Seq(Row)
  PROVE  IsFiniteSet(ElementsOf(seq))
<1>1. Len(seq) \in Nat /\ DOMAIN seq = 1..Len(seq)
  OBVIOUS
<1>2. seq \in Surjection(1..Len(seq), ElementsOf(seq))
  BY <1>1 DEF Surjection, ElementsOf
<1>. QED  BY <1>1, <1>2, FS_NatSurjection DEF ExistsSurjection

(* Sets of rows that have slipped, and the counter that pays for them.     *)

LEMMA SlipsNone ==
  ASSUME NEW S, NEW T, NEW n \in Nat, IsFiniteSet(S), Cardinality(S) <= n, T \subseteq S
  PROVE  Cardinality(T) <= n
BY FS_Subset, FS_CardinalityType

LEMMA SlipsOne ==
  ASSUME NEW S, NEW T, NEW x, NEW n \in Nat, IsFiniteSet(S), Cardinality(S) <= n,
         T \subseteq S \cup {x}
  PROVE  Cardinality(T) <= n + 1
<1>1. IsFiniteSet(S \cup {x}) /\ Cardinality(S \cup {x}) <= n + 1
  <2>1. /\ IsFiniteSet(S \cup {x})
        /\ Cardinality(S \cup {x}) = IF x \in S THEN Cardinality(S) ELSE Cardinality(S) + 1
    BY FS_AddElement
  <2>2. Cardinality(S) \in Nat
    BY FS_CardinalityType
  <2>. QED  BY <2>1, <2>2
<1>2. Cardinality(T) <= Cardinality(S \cup {x}) /\ Cardinality(T) \in Nat /\ Cardinality(S \cup {x}) \in Nat
  BY <1>1, FS_Subset, FS_CardinalityType
<1>. QED  BY <1>1, <1>2

LEMMA SlippedFinite == PagingInv => IsFiniteSet(Slipped)
BY FS_Subset DEF PagingInv, Slipped

-----------------------------------------------------------------------------
(* Sequences of rows.                                                      *)

LEMMA PageRows ==
  ASSUME NEW seq \in Seq(Row), NEW from \in 0..Len(seq)
  PROVE  /\ PageOf(seq, from) \in Seq(Row)
         /\ Len(PageOf(seq, from)) = Least(PageLimit, Len(seq) - from)
         /\ \A i \in 1..Len(PageOf(seq, from)) : PageOf(seq, from)[i] = seq[from + i]
BY AdminAssumption DEF PageOf, Least, AdminAssumption

-----------------------------------------------------------------------------
LEMMA InitPagingInv == AdminInit => PagingInv
<1>. SUFFICES ASSUME AdminInit PROVE PagingInv
  OBVIOUS
<1>. USE AdminAssumption DEF AdminInit, AdminAssumption
<1>1. AdminTypeOK
  <2>1. list \in Seq(Row) /\ page \in Seq(Row)
    OBVIOUS
  <2>2. endpoint \in Endpoint /\ account \in Role \cup {"inactive"} /\ claim \in Role \cup {"none"}
    OBVIOUS
  <2>3. step \in AdminStep /\ offset \in Nat /\ skip \in Nat /\ total \in Nat /\ owed \subseteq Row
        /\ entitled \in BOOLEAN
    BY DEF AdminStep
  <2>4. crossed \in 0..moves /\ moves \in 0..MaxMoves
    OBVIOUS
  <2>. QED  BY <2>1, <2>2, <2>3, <2>4 DEF AdminTypeOK
<1>2. Slipped = {} /\ IsFiniteSet(owed) /\ Cardinality(Slipped) = 0
  BY FS_EmptySet DEF Slipped
<1>. QED  BY <1>1, <1>2 DEF PagingInv, ElementsOf, PageAsPromised, MissedPaidFor, RevocationHolds

LEMMA Arrives ==
  ASSUME PagingInv, NEW row \in Row, NEW at \in 1..(Len(list) + 1), Arrive(row, at)
  PROVE  PagingInv'
<1>. USE DEF PagingInv
<1>1. /\ list \in Seq(Row) /\ row \notin ElementsOf(list) /\ list' = Inserted(list, at, row)
      /\ UNCHANGED <<endpoint, moves, account, claim, offset, owed, crossed, skip, total, page, step, entitled>>
  BY DEF Arrive, access, paging, answer, AdminTypeOK
<1>2. /\ list' \in Seq(Row) /\ Len(list') = Len(list) + 1
      /\ \A i \in 1..(Len(list) + 1) :
           list'[i] = IF i < at THEN list[i] ELSE IF i = at THEN row ELSE list[i - 1]
  BY <1>1 DEF Inserted
<1>3. \A i \in 1..Len(list) : list[i] # row
  BY <1>1 DEF ElementsOf
<1>4. AdminTypeOK'
  BY <1>1, <1>2 DEF AdminTypeOK
<1>5. ASSUME NEW i \in DOMAIN list', NEW j \in DOMAIN list', list'[i] = list'[j] PROVE i = j
  <2>1. i \in 1..(Len(list) + 1) /\ j \in 1..(Len(list) + 1)
    BY <1>2
  <2>2. \A m, n \in 1..Len(list) : list[m] = list[n] => m = n
    BY <1>1
  <2>3. CASE i < at /\ j < at
    BY <1>2, <1>5, <2>1, <2>2, <2>3
  <2>4. CASE i > at /\ j > at
    <3>1. i - 1 \in 1..Len(list) /\ j - 1 \in 1..Len(list) /\ list[i - 1] = list[j - 1]
      BY <1>2, <1>5, <2>1, <2>4
    <3>. QED  BY <2>1, <2>2, <3>1
  <2>5. CASE i < at /\ j > at
    <3>1. i \in 1..Len(list) /\ j - 1 \in 1..Len(list) /\ list[i] = list[j - 1]
      BY <1>2, <1>5, <2>1, <2>5
    <3>. QED  BY <2>1, <2>2, <2>5, <3>1
  <2>6. CASE i > at /\ j < at
    <3>1. i - 1 \in 1..Len(list) /\ j \in 1..Len(list) /\ list[i - 1] = list[j]
      BY <1>2, <1>5, <2>1, <2>6
    <3>. QED  BY <2>1, <2>2, <2>6, <3>1
  <2>7. CASE i = at /\ j # at
    <3>1. IF j < at THEN j \in 1..Len(list) /\ list[j] = row
                    ELSE j - 1 \in 1..Len(list) /\ list[j - 1] = row
      BY <1>2, <1>5, <2>1, <2>7
    <3>. QED  BY <1>3, <3>1
  <2>8. CASE j = at /\ i # at
    <3>1. IF i < at THEN i \in 1..Len(list) /\ list[i] = row
                    ELSE i - 1 \in 1..Len(list) /\ list[i - 1] = row
      BY <1>2, <1>5, <2>1, <2>8
    <3>. QED  BY <1>3, <3>1
  <2>. QED  BY <2>1, <2>3, <2>4, <2>5, <2>6, <2>7, <2>8
<1>6. owed' \subseteq ElementsOf(list')
  <2>1. SUFFICES ASSUME NEW i \in 1..Len(list) PROVE list[i] \in ElementsOf(list')
    BY <1>1 DEF ElementsOf
  <2> DEFINE k == IF i < at THEN i ELSE i + 1
  <2>2. k \in 1..(Len(list) + 1) /\ k \in DOMAIN list' /\ list'[k] = list[i]
    BY <1>2
  <2> HIDE DEF k
  <2>. QED  BY <2>2, Zenon DEF ElementsOf
<1>7. Slipped' \subseteq Slipped
  <2>1. SUFFICES ASSUME NEW r \in owed, NEW i \in 1..(Len(list) + 1), i <= offset, list'[i] = r
                 PROVE  r \in Slipped
    BY <1>1, <1>2 DEF Slipped
  <2>2. r # row
    BY <1>1
  <2>3. CASE i < at
    BY <1>1, <1>2, <2>1, <2>3 DEF Slipped
  <2>4. CASE i > at
    <3>1. i - 1 \in 1..Len(list) /\ i - 1 <= offset /\ list[i - 1] = r
      BY <1>1, <1>2, <2>1, <2>4 DEF AdminTypeOK
    <3>. QED  BY <1>1, <3>1 DEF Slipped
  <2>. QED  BY <1>2, <2>1, <2>2, <2>3, <2>4
<1>8. Cardinality(Slipped') <= crossed'
  BY <1>1, <1>7, SlipsNone, SlippedFinite DEF AdminTypeOK
<1>9. offset' <= Len(list') /\ (step' \in {"page", "answer"} => total' <= Len(list'))
  BY <1>1, <1>2 DEF AdminTypeOK
<1>10. (PageAsPromised /\ MissedPaidFor /\ RevocationHolds)'
  BY <1>1 DEF PageAsPromised, MissedPaidFor, RevocationHolds
<1>. QED  BY <1>1, <1>4, <1>5, <1>6, <1>8, <1>9, <1>10

LEMMA Touches ==
  ASSUME PagingInv, NEW from \in DOMAIN list, NEW to \in DOMAIN list, Touch(from, to)
  PROVE  PagingInv'
<1>. USE DEF PagingInv
<1>1. /\ list \in Seq(Row) /\ list' = Moved(list, from, to) /\ offset \in Nat
      /\ from \in 1..Len(list) /\ to \in 1..Len(list)
      /\ UNCHANGED <<endpoint, account, claim, offset, owed, skip, total, page, step, entitled>>
      /\ crossed \in 0..moves /\ moves \in Nat /\ moves' = moves + 1 /\ moves' \in 0..MaxMoves
      /\ crossed' = IF (from <= offset) # (to <= offset) THEN crossed + 1 ELSE crossed
  BY AdminAssumption DEF Touch, access, answer, AdminTypeOK, AdminAssumption
<1>2. /\ list' \in Seq(Row) /\ Len(list') = Len(list)
      /\ \A i \in 1..Len(list) :
           list'[i] = IF i = to THEN list[from]
                      ELSE IF from <= i /\ i < to THEN list[i + 1]
                      ELSE IF to < i /\ i <= from THEN list[i - 1]
                      ELSE list[i]
  BY <1>1 DEF Moved
<1>3. crossed' \in 0..moves'
  BY <1>1
<1>4. AdminTypeOK'
  BY <1>1, <1>2, <1>3 DEF AdminTypeOK
<1>5. ASSUME NEW i \in DOMAIN list', NEW j \in DOMAIN list', list'[i] = list'[j] PROVE i = j
  <2>1. i \in 1..Len(list) /\ j \in 1..Len(list)
    BY <1>2
  <2>2. \A m, n \in 1..Len(list) : list[m] = list[n] => m = n
    BY <1>1
  <2> DEFINE source(k) == IF k = to THEN from ELSE IF from <= k /\ k < to THEN k + 1
                          ELSE IF to < k /\ k <= from THEN k - 1 ELSE k
  <2>3. \A k \in 1..Len(list) : source(k) \in 1..Len(list) /\ list'[k] = list[source(k)]
    BY <1>1, <1>2
  <2>4. \A m, n \in 1..Len(list) : source(m) = source(n) => m = n
    BY <1>1
  <2>5. source(i) \in 1..Len(list) /\ source(j) \in 1..Len(list) /\ list[source(i)] = list[source(j)]
    BY <1>5, <2>1, <2>3
  <2> HIDE DEF source
  <2>. QED  BY <2>1, <2>2, <2>4, <2>5
<1>6. owed' \subseteq ElementsOf(list')
  <2>1. SUFFICES ASSUME NEW i \in 1..Len(list) PROVE list[i] \in ElementsOf(list')
    BY <1>1 DEF ElementsOf
  <2>2. CASE i = from
    BY <1>1, <1>2, <2>2 DEF ElementsOf
  <2>3. CASE from < i /\ i <= to
    <3>1. /\ i - 1 \in 1..Len(list) /\ (i - 1) + 1 = i
          /\ i - 1 # to /\ from <= i - 1 /\ i - 1 < to
      BY <1>1, <2>3
    <3>2. list'[i - 1] = list[(i - 1) + 1]
      BY <1>2, <3>1
    <3>. QED  BY <1>2, <3>1, <3>2 DEF ElementsOf
  <2>4. CASE to <= i /\ i < from
    <3>1. i + 1 \in 1..Len(list) /\ list'[i + 1] = list[i]
      BY <1>1, <1>2, <2>4
    <3>. QED  BY <1>2, <3>1 DEF ElementsOf
  <2>5. CASE (i < from /\ i < to) \/ (i > from /\ i > to)
    BY <1>1, <1>2, <2>5 DEF ElementsOf
  <2>. QED  BY <1>1, <2>2, <2>3, <2>4, <2>5
<1>7. Cardinality(Slipped') <= crossed'
  <2>1. ASSUME NEW x,
               \A i \in 1..Len(list) : i <= offset =>
                 list'[i] = x \/ \E j \in 1..Len(list) : j <= offset /\ list'[i] = list[j]
        PROVE  Slipped' \subseteq Slipped \cup {x}
    <3>1. SUFFICES ASSUME NEW r \in owed, NEW i \in 1..Len(list), i <= offset, list'[i] = r, r # x
                   PROVE  r \in Slipped
      BY <1>1, <1>2 DEF Slipped
    <3>2. PICK j \in 1..Len(list) : j <= offset /\ list'[i] = list[j]
      BY <2>1, <3>1
    <3>. QED  BY <1>1, <3>1, <3>2 DEF Slipped
  <2>2. CASE (from <= offset) = (to <= offset)
    <3>1. \A i \in 1..Len(list) : i <= offset =>
            \E j \in 1..Len(list) : j <= offset /\ list'[i] = list[j]
      <4>1. SUFFICES ASSUME NEW i \in 1..Len(list), i <= offset
                     PROVE  \E j \in 1..Len(list) : j <= offset /\ list'[i] = list[j]
        OBVIOUS
      <4>2. CASE i = to
        BY <1>1, <1>2, <2>2, <4>1, <4>2
      <4>3. CASE i # to /\ from <= i /\ i < to
        <5>1. i + 1 \in 1..Len(list) /\ i + 1 <= offset /\ list'[i] = list[i + 1]
          BY <1>1, <1>2, <2>2, <4>1, <4>3
        <5>. QED  BY <5>1
      <4>4. CASE i # to /\ to < i /\ i <= from
        <5>1. i - 1 \in 1..Len(list) /\ i - 1 <= offset /\ list'[i] = list[i - 1]
          BY <1>1, <1>2, <4>1, <4>4
        <5>. QED  BY <5>1
      <4>5. CASE i # to /\ ~(from <= i /\ i < to) /\ ~(to < i /\ i <= from)
        BY <1>1, <1>2, <4>1, <4>5
      <4>. QED  BY <4>2, <4>3, <4>4, <4>5
    <3>2. Slipped' \subseteq Slipped
      <4>1. SUFFICES ASSUME NEW r \in owed, NEW i \in 1..Len(list), i <= offset, list'[i] = r
                     PROVE  r \in Slipped
        BY <1>1, <1>2 DEF Slipped
      <4>2. PICK j \in 1..Len(list) : j <= offset /\ list'[i] = list[j]
        BY <3>1, <4>1
      <4>. QED  BY <1>1, <4>1, <4>2 DEF Slipped
    <3>3. crossed \in Nat /\ crossed' = crossed /\ Cardinality(Slipped) <= crossed /\ IsFiniteSet(Slipped)
      BY <1>1, <2>2, SlippedFinite
    <3>. QED  BY <3>2, <3>3, SlipsNone
  <2>3. CASE to <= offset /\ offset < from
    <3>1. \A i \in 1..Len(list) : i <= offset =>
            list'[i] = list[from] \/ \E j \in 1..Len(list) : j <= offset /\ list'[i] = list[j]
      <4>1. SUFFICES ASSUME NEW i \in 1..Len(list), i <= offset, i # to
                     PROVE  \E j \in 1..Len(list) : j <= offset /\ list'[i] = list[j]
        BY <1>1, <1>2
      <4>2. CASE to < i
        <5>1. i - 1 \in 1..Len(list) /\ i - 1 <= offset /\ list'[i] = list[i - 1]
          BY <1>1, <1>2, <2>3, <4>1, <4>2
        <5>. QED  BY <5>1
      <4>3. CASE i < to
        BY <1>1, <1>2, <2>3, <4>1, <4>3
      <4>. QED  BY <1>1, <4>1, <4>2, <4>3
    <3>2. Slipped' \subseteq Slipped \cup {list[from]}
      BY <2>1, <3>1
    <3>3. crossed \in Nat /\ crossed' = crossed + 1 /\ Cardinality(Slipped) <= crossed /\ IsFiniteSet(Slipped)
      BY <1>1, <2>3, SlippedFinite
    <3>. QED  BY <3>2, <3>3, SlipsOne
  <2>4. CASE from <= offset /\ offset < to
    <3>1. \A i \in 1..Len(list) : i <= offset =>
            list'[i] = list[offset + 1] \/ \E j \in 1..Len(list) : j <= offset /\ list'[i] = list[j]
      <4>1. SUFFICES ASSUME NEW i \in 1..Len(list), i <= offset
                     PROVE  \/ list'[i] = list[offset + 1]
                            \/ \E j \in 1..Len(list) : j <= offset /\ list'[i] = list[j]
        OBVIOUS
      <4>2. CASE from <= i
        <5>1. i + 1 \in 1..Len(list) /\ i + 1 <= offset + 1 /\ list'[i] = list[i + 1]
          BY <1>1, <1>2, <2>4, <4>1, <4>2
        <5>2. i + 1 = offset + 1 \/ i + 1 <= offset
          BY <1>1, <5>1
        <5>. QED  BY <5>1, <5>2
      <4>3. CASE i < from
        BY <1>1, <1>2, <2>4, <4>1, <4>3
      <4>. QED  BY <1>1, <4>1, <4>2, <4>3
    <3>2. Slipped' \subseteq Slipped \cup {list[offset + 1]}
      BY <2>1, <3>1
    <3>3. crossed \in Nat /\ crossed' = crossed + 1 /\ Cardinality(Slipped) <= crossed /\ IsFiniteSet(Slipped)
      BY <1>1, <2>4, SlippedFinite
    <3>. QED  BY <3>2, <3>3, SlipsOne
  <2>. QED  BY <1>1, <2>2, <2>3, <2>4
<1>8. (MissedPaidFor)'
  <2>1. IsFiniteSet(owed) /\ Cardinality(owed) \in Nat
    BY FS_CardinalityType
  <2>. QED  BY <1>1, <2>1 DEF MissedPaidFor
<1>9. (PageAsPromised /\ RevocationHolds)'
  BY <1>1 DEF PageAsPromised, RevocationHolds
<1>. QED  BY <1>1, <1>2, <1>4, <1>5, <1>6, <1>7, <1>8, <1>9

LEMMA PageSelected ==
  ASSUME PagingInv, SelectPage
  PROVE  PagingInv'
<1>. USE AdminAssumption DEF PagingInv, AdminAssumption
<1>1. /\ list \in Seq(Row) /\ skip = offset /\ offset \in 0..Len(list) /\ total \in Nat /\ total <= Len(list)
      /\ page' = PageOf(list, skip) /\ owed' = owed \ ElementsOf(page')
      /\ offset' = IF Len(page') = PageLimit THEN skip + PageLimit ELSE skip
      /\ step = "page" /\ step' = "answer"
      /\ UNCHANGED <<endpoint, list, moves, account, claim, crossed, skip, total, entitled>>
  BY StatementOrder DEF SelectPage, rows, access, AdminTypeOK
<1>2. /\ page' \in Seq(Row) /\ Len(page') = Least(PageLimit, Len(list) - skip)
      /\ \A i \in 1..Len(page') : page'[i] = list[skip + i]
  BY <1>1, PageRows
<1>3. /\ Len(page') \in Nat /\ Len(page') <= PageLimit
      /\ Len(page') = PageLimit \/ skip + Len(page') = Len(list)
      /\ offset' \in Nat /\ offset' <= Len(list) /\ offset' <= skip + Len(page')
  BY <1>1, <1>2 DEF Least
<1>4. AdminTypeOK'
  BY <1>1, <1>2, <1>3 DEF AdminTypeOK, AdminStep
<1>5. owed' \subseteq owed /\ IsFiniteSet(owed')
  BY <1>1, FS_Difference
<1>6. \A i \in 1..Len(list) : i > skip /\ i <= skip + Len(page') => list[i] \in ElementsOf(page')
  <2>1. SUFFICES ASSUME NEW i \in 1..Len(list), i > skip, i <= skip + Len(page')
                 PROVE  list[i] \in ElementsOf(page')
    OBVIOUS
  <2>2. i - skip \in 1..Len(page') /\ skip + (i - skip) = i
    BY <1>1, <1>3, <2>1
  <2>3. page'[i - skip] = list[i]
    BY <1>2, <2>2
  <2>. QED  BY <1>2, <2>2, <2>3 DEF ElementsOf
<1>7. Slipped' \subseteq Slipped
  <2>1. SUFFICES ASSUME NEW r \in owed', NEW i \in 1..Len(list), i <= offset', list[i] = r
                 PROVE  r \in Slipped
    BY <1>1 DEF Slipped
  <2>2. ~(i > skip)
    BY <1>1, <1>3, <1>6, <2>1
  <2>. QED  BY <1>1, <1>5, <2>1, <2>2 DEF Slipped
<1>8. Cardinality(Slipped') <= crossed'
  BY <1>1, <1>7, SlipsNone, SlippedFinite DEF AdminTypeOK
<1>9. MissedPaidFor'
  <2>1. SUFFICES ASSUME Len(page') < PageLimit PROVE Cardinality(owed') <= crossed'
    BY DEF MissedPaidFor
  <2>2. skip + Len(page') = Len(list)
    BY <1>3, <2>1
  <2>3. ASSUME NEW r \in owed' PROVE r \in Slipped
    <3>1. PICK i \in 1..Len(list) : list[i] = r
      BY <1>1, <1>5 DEF ElementsOf
    <3>2. ~(i > skip)
      BY <1>1, <1>6, <2>2, <3>1
    <3>. QED  BY <1>1, <1>5, <3>1, <3>2 DEF Slipped
  <2>. QED  BY <1>1, <2>3, SlipsNone, SlippedFinite DEF AdminTypeOK
<1>10. PageAsPromised' /\ RevocationHolds'
  BY <1>1, <1>3 DEF PageAsPromised, RevocationHolds
<1>. QED  BY <1>1, <1>3, <1>4, <1>5, <1>8, <1>9, <1>10

\* Steps that leave rows and paging alone.
LEMMA OtherSteps ==
  ASSUME PagingInv, UNCHANGED <<rows, paging>>, AdminTypeOK',
         step' = "idle" \/ (step = "idle" /\ step' = "check") \/ step' = step
           \/ (step' \in {"lookup", "count"} /\ step \in {"check", "lookup"})
           \/ (step = "count" /\ step' = "page"),
         step' # "idle" => skip' = offset \/ (step' = step /\ skip' = skip),
         step' = "answer" => page' = page /\ skip' = skip /\ step = "answer",
         step' \in {"page", "answer"} => total' <= Len(list),
         step' = step => total' = total,
         step' # "idle" /\ Rights(account', claim') => entitled',
         RevocationHolds'
  PROVE  PagingInv'
<1>1. Slipped' = Slipped /\ owed' = owed /\ list' = list /\ offset' = offset /\ crossed' = crossed
  BY DEF Slipped, rows, paging
<1>2. MissedPaidFor' /\ PageAsPromised'
  BY <1>1 DEF PagingInv, MissedPaidFor, PageAsPromised
<1>. QED  BY <1>1, <1>2 DEF PagingInv

LEMMA StepPagingInv == PagingInv /\ [AdminNext]_adminVars => PagingInv'
<1>. SUFFICES ASSUME PagingInv, [AdminNext]_adminVars PROVE PagingInv'
  OBVIOUS
<1>1. ASSUME NEW row \in Row, NEW at \in 1..(Len(list) + 1), Arrive(row, at) PROVE PagingInv'
  BY <1>1, Arrives
<1>2. ASSUME NEW from \in DOMAIN list, NEW to \in DOMAIN list, Touch(from, to) PROVE PagingInv'
  BY <1>2, Touches
<1>3. ASSUME NEW to \in Role \cup {"inactive"}, ChangeAccount(to) PROVE PagingInv'
  <2>1. AdminTypeOK'
    BY <1>3 DEF PagingInv, ChangeAccount, AdminTypeOK, rows, paging, answer
  <2>. QED  BY <1>3, <2>1, OtherSteps DEF ChangeAccount, PagingInv, RevocationHolds, Rights, answer, rows
<1>4. CASE Login
  <2>1. AdminTypeOK'
    BY <1>4 DEF PagingInv, Login, AdminTypeOK, rows, paging, answer
  <2>. QED  BY <1>4, <2>1, OtherSteps DEF Login, PagingInv, RevocationHolds, Rights, answer, rows
<1>5. CASE ExpireToken
  <2>1. AdminTypeOK'
    BY <1>5 DEF PagingInv, ExpireToken, AdminTypeOK, rows, paging, answer
  <2>. QED  BY <1>5, <2>1, OtherSteps DEF ExpireToken, PagingInv, RevocationHolds, Rights, answer, rows, Role
<1>6. CASE StartPaging
  <2>1. /\ offset' = 0 /\ skip' = 0 /\ owed' = ElementsOf(list) /\ crossed' = 0 /\ step' = "check"
        /\ entitled' = Rights(account, claim)
        /\ UNCHANGED <<endpoint, list, moves, account, claim, total, page>>
    BY <1>6 DEF StartPaging, rows, access
  <2>2. AdminTypeOK'
    BY <2>1, AdminAssumption DEF PagingInv, AdminTypeOK, AdminStep, Rights, ElementsOf, AdminAssumption
  <2>3. Slipped' = {} /\ Cardinality(Slipped') = 0
    <3>1. \A i \in DOMAIN list : ~(i <= 0)
      BY DEF PagingInv, AdminTypeOK
    <3>. QED  BY <2>1, <3>1, FS_EmptySet DEF Slipped
  <2>4. IsFiniteSet(owed')
    BY <2>1, ElementsFinite DEF PagingInv, AdminTypeOK
  <2>5. (PageAsPromised /\ MissedPaidFor /\ RevocationHolds)'
    BY <2>1 DEF PageAsPromised, MissedPaidFor, RevocationHolds
  <2>6. /\ \A i, j \in DOMAIN list' : list'[i] = list'[j] => i = j
        /\ owed' \subseteq ElementsOf(list')
        /\ offset' <= Len(list') /\ Cardinality(Slipped') <= crossed' /\ skip' = offset'
    BY <2>1, <2>3 DEF PagingInv, AdminTypeOK, ElementsOf
  <2>7. /\ step' # "idle" /\ Rights(account, claim)' => entitled'
        /\ step' \notin {"page", "answer"}
    BY <2>1 DEF Rights
  <2>. QED  BY <2>2, <2>4, <2>5, <2>6, <2>7 DEF PagingInv
<1>7. CASE NextPage
  <2>1. AdminTypeOK'
    BY <1>7 DEF PagingInv, NextPage, AdminTypeOK, AdminStep, rows, access, paging, Rights
  <2>. QED  BY <1>7, <2>1, OtherSteps DEF NextPage, PagingInv, RevocationHolds, access
<1>8. CASE Check
  <2>1. /\ step = "check" /\ step' \in {"idle", "lookup", "count"}
        /\ step' # "idle" => Rights(account, claim)
        /\ UNCHANGED <<rows, access, paging, answer, entitled>>
    BY <1>8, StatementOrder DEF Check, Allowed, Rights, PagingInv, AdminTypeOK, Role
  <2>2. AdminTypeOK'
    BY <2>1 DEF PagingInv, AdminTypeOK, AdminStep, rows, access, paging, answer
  <2>. QED  BY <2>1, <2>2, OtherSteps DEF PagingInv, RevocationHolds, access, answer
<1>9. CASE Lookup
  <2>1. /\ step = "lookup" /\ step' \in {"idle", "count"}
        /\ UNCHANGED <<rows, access, paging, answer, entitled>>
    BY <1>9, StatementOrder DEF Lookup
  <2>2. AdminTypeOK'
    BY <2>1 DEF PagingInv, AdminTypeOK, AdminStep, rows, access, paging, answer
  <2>. QED  BY <2>1, <2>2, OtherSteps DEF PagingInv, RevocationHolds, access, answer
<1>10. CASE Count
  <2>1. /\ step = "count" /\ step' = "page" /\ total' = Len(list)
        /\ UNCHANGED <<rows, access, paging, skip, page, entitled>>
    BY <1>10, StatementOrder DEF Count
  <2>2. AdminTypeOK'
    BY <2>1 DEF PagingInv, AdminTypeOK, AdminStep, rows, access, paging
  <2>. QED  BY <2>1, <2>2, OtherSteps DEF PagingInv, RevocationHolds, access, AdminTypeOK
<1>11. CASE SelectPage
  BY <1>11, PageSelected
<1>12. CASE Answer
  <2>1. CASE Len(page) = PageLimit
    <3>1. AdminTypeOK'
      BY <1>12, <2>1 DEF Answer, PagingInv, AdminTypeOK, AdminStep, rows, access, paging, answer
    <3>. QED  BY <1>12, <2>1, <3>1, OtherSteps DEF Answer, PagingInv, RevocationHolds, access, answer
  <2>2. CASE Len(page) # PageLimit
    <3>1. /\ offset' = 0 /\ owed' = {} /\ crossed' = 0 /\ step' = "idle"
          /\ UNCHANGED <<endpoint, list, moves, account, claim, skip, total, page, entitled>>
      BY <1>12, <2>2 DEF Answer, rows, access, answer
    <3>2. AdminTypeOK'
      BY <3>1, AdminAssumption DEF PagingInv, AdminTypeOK, AdminStep, AdminAssumption
    <3>3. Slipped' = {} /\ Cardinality(Slipped') = 0 /\ IsFiniteSet(owed')
      BY <3>1, FS_EmptySet DEF Slipped
    <3>. QED  BY <3>1, <3>2, <3>3
              DEF PagingInv, PageAsPromised, MissedPaidFor, RevocationHolds, AdminTypeOK
  <2>. QED  BY <2>1, <2>2
<1>13. CASE UNCHANGED adminVars
  <2>1. AdminTypeOK'
    BY <1>13 DEF adminVars, PagingInv, AdminTypeOK, rows, access, paging, answer
  <2>. QED  BY <1>13, <2>1, OtherSteps DEF adminVars, PagingInv, RevocationHolds, Rights, access, answer, rows
<1>. QED  BY <1>1, <1>2, <1>3, <1>4, <1>5, <1>6, <1>7, <1>8, <1>9, <1>10, <1>11, <1>12, <1>13
          DEF AdminNext

-----------------------------------------------------------------------------
\* The reader's position, what it is still owed and what may have slipped
\* behind it agree in every execution (admin_read.py under inserts and moves).
THEOREM PagingInvariant == AdminSpec => []PagingInv
<1>. QED  BY InitPagingInv, StepPagingInv, PTL DEF AdminSpec

\* Nothing listed when paging began is missed, but for one row per update that
\* moved a row across the reader: for any number of rows, pages and moves.
THEOREM PagingMissesOnlyMoves == AdminSpec => []MissedPaidFor
<1>1. PagingInv => MissedPaidFor
  BY DEF PagingInv
<1>. QED  BY <1>1, PagingInvariant, PTL

\* The count of a listing precedes its page, so the page keeps what the total
\* promises whatever commits in between.
THEOREM TotalsKept == AdminSpec => []PageAsPromised
<1>1. PagingInv => PageAsPromised
  BY DEF PagingInv
<1>. QED  BY <1>1, PagingInvariant, PTL

\* No request reads data on the strength of its token alone.
THEOREM RevocationKept == AdminSpec => []RevocationHolds
<1>1. PagingInv => RevocationHolds
  BY DEF PagingInv
<1>. QED  BY <1>1, PagingInvariant, PTL
=============================================================================
