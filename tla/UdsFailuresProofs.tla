------------------------- MODULE UdsFailuresProofs --------------------------
(***************************************************************************)
(* Theorems about UdsClient: how many calls can fail for one answer or     *)
(* request that is lost, late or refused, or one "pending" too many, for   *)
(* any number of them.  A failed call leaves frames behind that the next   *)
(* call reads as its own, so the proof counts what the two queues hold.    *)
(***************************************************************************)
EXTENDS UdsClientProofs, SequencesExt, WellFoundedInduction

-----------------------------------------------------------------------------
(* Induction: the prover knows no predicates, so it goes by the set of the *)
(* numbers, or sequences, for which something holds.                       *)

(* A set of numbers has a least one.                                       *)
LEMMA LeastNumber ==
    ASSUME NEW T, T \subseteq Nat, T # {}
    PROVE  \E x \in T : \A y \in T : x <= y
<1> DEFINE R == OpToRel(<, Nat)
<1>1. IsWellFoundedOn(R, Nat)
  BY NatLessThanWellFounded
<1> HIDE DEF R
<1>2. PICK x \in T : \A y \in T : <<y, x>> \notin R
  BY <1>1, WFMin
<1>3. \A y \in T : ~(y < x)
  BY <1>2 DEF R, OpToRel
<1>4. QED
  BY <1>3

(* A set that has zero, and n + 1 with every n, has all the numbers.       *)
LEMMA AllNumbers ==
    ASSUME NEW T, 0 \in T, \A n \in Nat : n \in T => n + 1 \in T
    PROVE  Nat \subseteq T
<1>1. SUFFICES ASSUME Nat \ T # {} PROVE FALSE
  OBVIOUS
<1>2. PICK m \in Nat \ T : \A k \in Nat \ T : m <= k
  BY <1>1, LeastNumber
<1>3. m # 0
  BY <1>2
<1>4. m - 1 \in Nat /\ ~(m <= m - 1) /\ (m - 1) + 1 = m
  BY <1>2, <1>3
<1>5. m - 1 \in T
  BY <1>2, <1>4
<1>6. QED
  BY <1>2, <1>4, <1>5

(* A set that has the empty sequence, and every sequence whose tail it has,*)
(* has all the sequences.                                                  *)
LEMMA AllSequences ==
    ASSUME NEW A, NEW T, <<>> \in T,
           \A s \in Seq(A) : s # <<>> /\ Tail(s) \in T => s \in T
    PROVE  Seq(A) \subseteq T
<1> DEFINE L == {n \in Nat : \A s \in Seq(A) : Len(s) = n => s \in T}
<1>1. 0 \in L
  BY EmptySeq
<1>2. ASSUME NEW n \in Nat, n \in L PROVE n + 1 \in L
  <2>1. SUFFICES ASSUME NEW s \in Seq(A), Len(s) = n + 1 PROVE s \in T
    OBVIOUS
  <2>2. s # <<>>
    BY <2>1, EmptySeq
  <2>3. Tail(s) \in Seq(A) /\ Len(Tail(s)) = n
    BY <2>1, <2>2, HeadTailProperties
  <2>4. Tail(s) \in T
    BY <1>2, <2>3
  <2>5. QED
    BY <2>2, <2>4
<1> HIDE DEF L
<1>3. Nat \subseteq L
  BY <1>1, <1>2, AllNumbers
<1>4. ASSUME NEW s \in Seq(A) PROVE s \in T
  BY <1>3, LenProperties DEF L
<1>5. QED
  BY <1>4

-----------------------------------------------------------------------------
(* What a queue will cost: a machine M reads it, from state q, pays        *)
(* M.cost[a][q] for every element a and end[q] for the state q it stops in.*)
Ahead(s, M, end) ==
    LET t[k \in 0 .. Len(s)] ==
          [q \in M.states |-> IF k = 0 THEN end[q]
                       ELSE M.cost[s[Len(s) - k + 1]][q] + t[k - 1][M.next[s[Len(s) - k + 1]][q]]]
    IN  t[Len(s)]

(* t is how Ahead adds up, for the last m of the n elements of s.          *)
Tallied(t, m, n, s, M, end) ==
    t = [k \in 0 .. m |->
          [q \in M.states |-> IF k = 0 THEN end[q]
                       ELSE M.cost[s[n - k + 1]][q] + t[k - 1][M.next[s[n - k + 1]][q]]]]

(* Such a t exists: a recursive function over numbers is defined.          *)
LEMMA TallyExists ==
    ASSUME NEW n, NEW s, NEW M, NEW end, NEW m \in Nat
    PROVE  \E t : Tallied(t, m, n, s, M, end)
<1> DEFINE T == {i \in Nat : \E t : Tallied(t, i, n, s, M, end)}
<1>1. 0 \in T
  <2>1. PICK e : e = [q \in M.states |-> end[q]]
    OBVIOUS
  <2>2. PICK t : t = [k \in 0 .. 0 |-> e]
    OBVIOUS
  <2>3. t = [k \in 0 .. 0 |->
          [q \in M.states |-> IF k = 0 THEN end[q]
                       ELSE M.cost[s[n - k + 1]][q] + t[k - 1][M.next[s[n - k + 1]][q]]]]
    <3>1. ASSUME NEW k \in 0 .. 0 
          PROVE e = [q \in M.states |-> IF k = 0 THEN end[q]
                       ELSE M.cost[s[n - k + 1]][q] + t[k - 1][M.next[s[n - k + 1]][q]]]
      <4>1. k = 0
        OBVIOUS
      <4>2. QED
        BY <2>1, <4>1
    <3>2. QED
      BY <2>2, <3>1
  <2>4. QED
    BY <2>3 DEF Tallied
<1>2. ASSUME NEW i \in Nat, i \in T PROVE i + 1 \in T
  <2>1. PICK t : Tallied(t, i, n, s, M, end)
    BY <1>2
  <2>2. PICK last : last = [q \in M.states |-> M.cost[s[n - (i + 1) + 1]][q] + t[i][M.next[s[n - (i + 1) + 1]][q]]]
    OBVIOUS
  <2> DEFINE u == [k \in 0 .. i + 1 |-> IF k = i + 1 THEN last ELSE t[k]]
             Row(f, k) == [q \in M.states |-> IF k = 0 THEN end[q]
                       ELSE M.cost[s[n - k + 1]][q] + f[k - 1][M.next[s[n - k + 1]][q]]]
  <2>3. \A k \in 0 .. i : t[k] = Row(t, k)
    BY <2>1 DEF Tallied
  <2>4. ASSUME NEW k \in 0 .. i + 1
        PROVE  u[k] = Row(u, k)
    <3>1. CASE k = 0
      <4>1. 0 \in 0 .. i /\ 0 # i + 1
        BY <1>2
      <4>2. u[k] = t[0]
        BY <3>1, <4>1
      <4>3. t[0] = Row(t, 0)
        BY <2>3, <4>1
      <4>4. Row(t, 0) = [q \in M.states |-> end[q]] /\ Row(u, k) = [q \in M.states |-> end[q]]
        BY <3>1
      <4>5. QED
        BY <4>2, <4>3, <4>4
    <3>2. CASE k = i + 1
      <4>1. i \in 0 .. i + 1 /\ i # i + 1 /\ k - 1 = i /\ k # 0
        BY <1>2, <3>2
      <4>2. u[k - 1] = t[i] /\ u[k] = last
        BY <3>2, <4>1
      <4> HIDE DEF u
      <4>3. Row(u, k) = [q \in M.states |-> M.cost[s[n - k + 1]][q] + t[i][M.next[s[n - k + 1]][q]]]
        BY <4>1, <4>2
      <4>4. QED
        BY <2>2, <3>2, <4>2, <4>3
    <3>3. CASE k # 0 /\ k # i + 1
      <4>1. k \in 0 .. i /\ k - 1 \in 0 .. i + 1 /\ k - 1 # i + 1
        BY <1>2, <3>3
      <4>2. u[k] = t[k] /\ u[k - 1] = t[k - 1]
        BY <3>3, <4>1
      <4> HIDE DEF u
      <4>3. Row(u, k) = Row(t, k)
        BY <4>2
      <4>4. t[k] = Row(t, k)
        BY <2>3, <4>1
      <4>5. QED
        BY <4>2, <4>3, <4>4
    <3>4. QED
      BY <3>1, <3>2, <3>3
  <2>5. Tallied(u, i + 1, n, s, M, end)
    <3>1. u = [k \in 0 .. i + 1 |-> u[k]]
      OBVIOUS
    <3> HIDE DEF u
    <3>2. u = [k \in 0 .. i + 1 |-> Row(u, k)]
      BY <2>4, <3>1
    <3>3. QED
      BY <3>2 DEF Tallied
  <2>6. QED
    BY <1>2, <2>5
<1> HIDE DEF T
<1>3. m \in T
  BY <1>1, <1>2, AllNumbers
<1>4. QED
  BY <1>3 DEF T

(* What is ahead of an empty queue.                                        *)
LEMMA AheadTally ==
    ASSUME NEW A, NEW s \in Seq(A), NEW M, NEW end
    PROVE  \E t : /\ Tallied(t, Len(s), Len(s), s, M, end)
                  /\ Ahead(s, M, end) = t[Len(s)]
<1>1. Len(s) \in Nat
  BY LenProperties
<1>2. PICK f : Tallied(f, Len(s), Len(s), s, M, end)
  BY <1>1, TallyExists
<1> DEFINE t == CHOOSE t : t = [k \in 0 .. Len(s) |->
          [q \in M.states |-> IF k = 0 THEN end[q]
                       ELSE M.cost[s[Len(s) - k + 1]][q] + t[k - 1][M.next[s[Len(s) - k + 1]][q]]]]
<1>3. Tallied(t, Len(s), Len(s), s, M, end)
  BY <1>2 DEF Tallied
<1>4. Ahead(s, M, end) = t[Len(s)]
  BY DEF Ahead
<1>5. QED
  BY <1>3, <1>4

(* Nothing is paid for an empty queue but what is paid at the end.         *)
LEMMA AheadNone ==
    ASSUME NEW M, NEW end
    PROVE  Ahead(<<>>, M, end) = [q \in M.states |-> end[q]]
<1>1. <<>> \in Seq({}) /\ Len(<<>>) = 0
  BY EmptySeq
<1>2. PICK t : /\ Tallied(t, 0, 0, <<>>, M, end)
               /\ Ahead(<<>>, M, end) = t[0]
  BY <1>1, AheadTally
<1>3. t[0] = [q \in M.states |-> IF 0 = 0 THEN end[q]
                       ELSE M.cost[<<>>[0 - 0 + 1]][q] + t[0 - 1][M.next[<<>>[0 - 0 + 1]][q]]]
  BY <1>2 DEF Tallied
<1>4. QED
  BY <1>2, <1>3

(* The first element is paid for, and then the rest.                       *)
LEMMA AheadStep ==
    ASSUME NEW A, NEW s \in Seq(A), s # <<>>, NEW M, NEW end
    PROVE  Ahead(s, M, end) =
             [q \in M.states |-> M.cost[Head(s)][q] + Ahead(Tail(s), M, end)[M.next[Head(s)][q]]]
<1> DEFINE n == Len(s)
           r == Tail(s)
           Row(f, k, x, m) == [q \in M.states |-> IF k = 0 THEN end[q]
                       ELSE M.cost[x[m - k + 1]][q] + f[k - 1][M.next[x[m - k + 1]][q]]]
<1>1. n \in Nat /\ n >= 1 /\ Head(s) = s[1]
  BY LenProperties, EmptySeq
<1>2. r \in Seq(A) /\ Len(r) = n - 1 /\ \A i \in 1 .. n - 1 : r[i] = s[i + 1]
  <2>1. r \in Seq(A) /\ Len(r) = n - 1 /\ \A i \in 1 .. Len(r) : r[i] = s[i + 1]
    BY HeadTailProperties
  <2>2. QED
    BY <2>1
<1>3. PICK t : Tallied(t, n, n, s, M, end) /\ Ahead(s, M, end) = t[n]
  BY AheadTally
<1>4. PICK u : Tallied(u, n - 1, n - 1, r, M, end) /\ Ahead(r, M, end) = u[n - 1]
  BY <1>2, AheadTally
<1>5. \A k \in 0 .. n : t[k] = Row(t, k, s, n)
  BY <1>3 DEF Tallied
<1>6. \A k \in 0 .. n - 1 : u[k] = Row(u, k, r, n - 1)
  BY <1>4 DEF Tallied
<1> HIDE DEF n, r
<1> DEFINE T == {k \in Nat : k <= n - 1 => t[k] = u[k]}
<1>7. 0 \in T
  <2>1. 0 \in 0 .. n /\ 0 \in 0 .. n - 1
    BY <1>1
  <2>2. t[0] = [q \in M.states |-> end[q]] /\ u[0] = [q \in M.states |-> end[q]]
    BY <1>5, <1>6, <2>1
  <2>3. QED
    BY <2>2
<1>8. ASSUME NEW k \in Nat, k \in T PROVE k + 1 \in T
  <2>1. SUFFICES ASSUME k + 1 <= n - 1 PROVE t[k + 1] = u[k + 1]
    OBVIOUS
  <2>2. t[k] = u[k]
    BY <1>1, <1>8, <2>1
  <2>3. PICK j : j = k + 1
    OBVIOUS
  <2>4. j \in 0 .. n /\ j \in 0 .. n - 1 /\ j # 0 /\ j - 1 = k
    BY <1>1, <2>1, <2>3
  <2>5. r[n - 1 - j + 1] = s[n - j + 1]
    <3>1. n - 1 - j + 1 \in 1 .. n - 1 /\ (n - 1 - j + 1) + 1 = n - j + 1
      BY <1>1, <2>4, <2>3, <2>1
    <3>2. QED
      BY <1>2, <3>1
  <2>6. t[j] = Row(t, j, s, n) /\ u[j] = Row(u, j, r, n - 1)
    BY <1>5, <1>6, <2>4
  <2>7. Row(t, j, s, n) = Row(u, j, r, n - 1)
    BY <2>2, <2>4, <2>5
  <2>8. QED
    BY <2>3, <2>6, <2>7
<1> HIDE DEF T
<1>9. n - 1 \in T
  BY <1>1, <1>7, <1>8, AllNumbers
<1>10. t[n - 1] = u[n - 1]
  BY <1>1, <1>9 DEF T
<1>11. t[n] = [q \in M.states |-> M.cost[s[1]][q] + t[n - 1][M.next[s[1]][q]]]
  <2>1. n \in 0 .. n /\ n # 0 /\ n - n + 1 = 1
    BY <1>1
  <2>2. t[n] = Row(t, n, s, n)
    BY <1>5, <2>1
  <2>3. QED
    BY <2>1, <2>2
<1>12. QED
  BY <1>1, <1>3, <1>4, <1>10, <1>11 DEF r

-----------------------------------------------------------------------------
(* Queues put together.                                                    *)

(* The first of two sequences put together is the first of the one.        *)
LEMMA ConcatFirst ==
    ASSUME NEW A, NEW s \in Seq(A), s # <<>>, NEW t \in Seq(A)
    PROVE  /\ s \o t \in Seq(A) /\ s \o t # <<>>
           /\ Head(s \o t) = Head(s) /\ Tail(s \o t) = Tail(s) \o t
<1>1. Len(s) \in Nat /\ Len(s) >= 1 /\ Len(t) \in Nat
  BY LenProperties, EmptySeq
<1>2. PICK x : x = s \o t
  OBVIOUS
<1>3. /\ x \in Seq(A) /\ Len(x) = Len(s) + Len(t)
      /\ \A i \in 1 .. Len(s) + Len(t) : x[i] = IF i <= Len(s) THEN s[i] ELSE t[i - Len(s)]
  BY <1>2, ConcatProperties
<1>4. x # <<>>
  BY <1>1, <1>3, EmptySeq
<1>5. Head(x) = Head(s)
  <2>1. 1 \in 1 .. Len(s) + Len(t) /\ 1 <= Len(s)
    BY <1>1
  <2>2. x[1] = s[1]
    BY <1>3, <2>1
  <2>3. QED
    BY <2>2
<1>6. /\ Tail(x) \in Seq(A) /\ Len(Tail(x)) = Len(x) - 1
      /\ \A i \in 1 .. Len(Tail(x)) : Tail(x)[i] = x[i + 1]
  BY <1>3, <1>4, HeadTailProperties
<1>7. /\ Tail(s) \in Seq(A) /\ Len(Tail(s)) = Len(s) - 1
      /\ \A i \in 1 .. Len(Tail(s)) : Tail(s)[i] = s[i + 1]
  BY HeadTailProperties
<1>8. PICK y : y = Tail(s) \o t
  OBVIOUS
<1>9. /\ y \in Seq(A) /\ Len(y) = Len(Tail(s)) + Len(t)
      /\ \A i \in 1 .. Len(Tail(s)) + Len(t) :
            y[i] = IF i <= Len(Tail(s)) THEN Tail(s)[i] ELSE t[i - Len(Tail(s))]
  BY <1>7, <1>8, ConcatProperties
<1>10. ASSUME NEW i \in 1 .. Len(Tail(x)) PROVE Tail(x)[i] = y[i]
  <2>1. /\ i \in 1 .. Len(s) - 1 + Len(t) /\ i + 1 \in 1 .. Len(s) + Len(t)
        /\ i + 1 - Len(s) = i - (Len(s) - 1) /\ (i + 1 <= Len(s) <=> i <= Len(s) - 1)
    BY <1>1, <1>3, <1>6
  <2>2. Tail(x)[i] = IF i + 1 <= Len(s) THEN s[i + 1] ELSE t[i + 1 - Len(s)]
    BY <1>3, <1>6, <2>1
  <2>3. y[i] = IF i <= Len(s) - 1 THEN Tail(s)[i] ELSE t[i - (Len(s) - 1)]
    BY <1>7, <1>9, <2>1
  <2>4. i <= Len(s) - 1 => Tail(s)[i] = s[i + 1]
    BY <1>1, <1>7, <2>1
  <2>5. QED
    BY <2>1, <2>2, <2>3, <2>4
<1>11. Len(Tail(x)) = Len(y)
  BY <1>1, <1>3, <1>6, <1>7, <1>9
<1>12. Tail(x) = y
  BY <1>6, <1>9, <1>10, <1>11, SeqEqual
<1>13. QED
  BY <1>2, <1>3, <1>4, <1>5, <1>8, <1>12

(* What is left when one element is taken away.                            *)
LEMMA RemovedOne ==
    ASSUME NEW A, NEW s \in Seq(A), NEW j \in 1 .. Len(s)
    PROVE  /\ RemoveAt(s, j) \in Seq(A) /\ Len(RemoveAt(s, j)) = Len(s) - 1
           /\ \A i \in 1 .. Len(s) - 1 : RemoveAt(s, j)[i] = IF i < j THEN s[i] ELSE s[i + 1]
<1> DEFINE before == SubSeq(s, 1, j - 1)
           after == SubSeq(s, j + 1, Len(s))
<1>1. Len(s) \in Nat /\ j \in Int /\ \A i \in 1 .. Len(s) : s[i] \in A
  BY LenProperties, ElementOfSeq
<1>2. /\ before \in Seq(A) /\ Len(before) = j - 1
      /\ \A i \in 1 .. j - 1 : before[i] = s[i]
  BY <1>1, SubSeqProperties
<1>3. /\ after \in Seq(A) /\ Len(after) = Len(s) - j
      /\ \A i \in 1 .. Len(s) - j : after[i] = s[j + i]
  BY <1>1, SubSeqProperties
<1> HIDE DEF before, after
<1>4. /\ before \o after \in Seq(A) /\ Len(before \o after) = Len(before) + Len(after)
      /\ \A i \in 1 .. Len(before) + Len(after) :
            (before \o after)[i] = IF i <= Len(before) THEN before[i] ELSE after[i - Len(before)]
  BY <1>2, <1>3, ConcatProperties
<1>5. Len(before) + Len(after) = Len(s) - 1
  BY <1>1, <1>2, <1>3
<1>6. ASSUME NEW i \in 1 .. Len(s) - 1
      PROVE  (before \o after)[i] = IF i < j THEN s[i] ELSE s[i + 1]
  <2>1. (before \o after)[i] = IF i <= j - 1 THEN before[i] ELSE after[i - (j - 1)]
    BY <1>2, <1>4, <1>5
  <2>2. CASE i < j
    BY <1>1, <1>2, <2>1, <2>2
  <2>3. CASE ~(i < j)
    <3>1. i - (j - 1) \in 1 .. Len(s) - j /\ j + (i - (j - 1)) = i + 1 /\ ~(i <= j - 1)
      BY <1>1, <2>3
    <3>2. QED
      BY <1>3, <2>1, <2>3, <3>1
  <2>4. QED
    BY <2>2, <2>3
<1>7. QED
  BY <1>4, <1>5, <1>6 DEF RemoveAt, before, after

(* Taking the first away leaves the tail, taking another one away leaves   *)
(* the head.                                                               *)
LEMMA RemovedHead ==
    ASSUME NEW A, NEW s \in Seq(A), NEW j \in 1 .. Len(s)
    PROVE  /\ s # <<>> /\ Len(s) \in Nat /\ Head(s) = s[1] /\ Tail(s) \in Seq(A)
           /\ j = 1 => RemoveAt(s, j) = Tail(s)
           /\ j # 1 => /\ RemoveAt(s, j) \in Seq(A) /\ RemoveAt(s, j) # <<>>
                       /\ Head(RemoveAt(s, j)) = s[1]
                       /\ j - 1 \in 1 .. Len(Tail(s)) /\ Tail(s)[j - 1] = s[j]
                       /\ Tail(RemoveAt(s, j)) = RemoveAt(Tail(s), j - 1)
<1>1. s # <<>> /\ Len(s) \in Nat /\ Head(s) = s[1] /\ j \in Int
  BY LenProperties, EmptySeq
<1>2. /\ Tail(s) \in Seq(A) /\ Len(Tail(s)) = Len(s) - 1
      /\ \A i \in 1 .. Len(Tail(s)) : Tail(s)[i] = s[i + 1]
  BY <1>1, HeadTailProperties
<1>3. PICK r : r = RemoveAt(s, j)
  OBVIOUS
<1>4. /\ r \in Seq(A) /\ Len(r) = Len(s) - 1
      /\ \A i \in 1 .. Len(s) - 1 : r[i] = IF i < j THEN s[i] ELSE s[i + 1]
  BY <1>3, RemovedOne
<1>5. ASSUME j = 1 PROVE r = Tail(s)
  <2>1. ASSUME NEW i \in 1 .. Len(r) PROVE r[i] = Tail(s)[i]
    <3>1. i \in 1 .. Len(s) - 1 /\ ~(i < j) /\ i \in 1 .. Len(Tail(s))
      BY <1>1, <1>2, <1>4, <1>5
    <3>2. QED
      BY <1>2, <1>4, <3>1
  <2>2. QED
    BY <1>2, <1>4, <2>1, SeqEqual
<1>6. ASSUME j # 1
      PROVE  /\ r # <<>> /\ Head(r) = s[1] /\ j - 1 \in 1 .. Len(Tail(s)) /\ Tail(s)[j - 1] = s[j]
             /\ Tail(r) = RemoveAt(Tail(s), j - 1)
  <2>1. Len(s) >= 2 /\ 1 < j /\ j - 1 \in 1 .. Len(Tail(s)) /\ (j - 1) + 1 = j
    BY <1>1, <1>2, <1>6
  <2>2. Len(r) >= 1 /\ 1 \in 1 .. Len(s) - 1
    BY <1>1, <1>4, <2>1
  <2>3. r # <<>>
    BY <2>2, EmptySeq
  <2>4. r[1] = s[1]
    BY <1>4, <2>1, <2>2
  <2>5. Head(r) = s[1]
    BY <2>4
  <2>6. PICK u : u = RemoveAt(Tail(s), j - 1)
    OBVIOUS
  <2>7. /\ u \in Seq(A) /\ Len(u) = Len(s) - 2
        /\ \A i \in 1 .. Len(s) - 2 : u[i] = IF i < j - 1 THEN Tail(s)[i] ELSE Tail(s)[i + 1]
    <3>1. /\ u \in Seq(A) /\ Len(u) = Len(Tail(s)) - 1
          /\ \A i \in 1 .. Len(Tail(s)) - 1 : u[i] = IF i < j - 1 THEN Tail(s)[i] ELSE Tail(s)[i + 1]
      BY <1>2, <2>1, <2>6, RemovedOne
    <3>2. Len(Tail(s)) - 1 = Len(s) - 2
      BY <1>1, <1>2
    <3>3. QED
      BY <3>1, <3>2
  <2>8. /\ Tail(r) \in Seq(A) /\ Len(Tail(r)) = Len(s) - 2
        /\ \A i \in 1 .. Len(s) - 2 : Tail(r)[i] = r[i + 1]
    <3>1. /\ Tail(r) \in Seq(A) /\ Len(Tail(r)) = Len(r) - 1
          /\ \A i \in 1 .. Len(Tail(r)) : Tail(r)[i] = r[i + 1]
      BY <1>4, <2>3, HeadTailProperties
    <3>2. Len(r) - 1 = Len(s) - 2
      BY <1>1, <1>4
    <3>3. QED
      BY <3>1, <3>2
  <2>9. ASSUME NEW i \in 1 .. Len(s) - 2 PROVE Tail(r)[i] = u[i]
    <3>1. /\ i \in Int /\ i + 1 \in 1 .. Len(s) - 1 /\ i \in 1 .. Len(Tail(s)) /\ i + 1 \in 1 .. Len(Tail(s))
          /\ (i + 1 < j <=> i < j - 1)
      BY <1>1, <1>2
    <3>2. Tail(r)[i] = IF i + 1 < j THEN s[i + 1] ELSE s[i + 1 + 1]
      BY <1>4, <2>8, <3>1
    <3>3. Tail(s)[i] = s[i + 1] /\ Tail(s)[i + 1] = s[i + 1 + 1]
      BY <1>2, <3>1
    <3>4. QED
      BY <2>7, <3>1, <3>2, <3>3
  <2>10. Tail(r) = u
    BY <2>7, <2>8, <2>9, SeqEqual
  <2>11. Tail(s)[j - 1] = s[j]
    BY <1>2, <2>1
  <2>12. QED
    BY <2>1, <2>3, <2>5, <2>6, <2>10, <2>11
<1>7. QED
  BY <1>1, <1>2, <1>3, <1>4, <1>5, <1>6

(* The queues over A: Seq(A), with nothing more about them than what the   *)
(* next lemma says.                                                        *)
Queue(A) == Seq(A)

(* All that the proofs below use of a queue.                               *)
LEMMA Queues ==
    ASSUME NEW A
    PROVE  /\ <<>> \in Queue(A) /\ Len(<<>>) = 0 /\ 1 .. Len(<<>>) = {}
           /\ \A a \in A : <<a>> \in Queue(A) /\ <<a>> # <<>> /\ Head(<<a>>) = a /\ Tail(<<a>>) = <<>>
           /\ \A s \in Queue(A) : s \in Seq(A) /\ Len(s) \in Nat /\ DOMAIN s = 1 .. Len(s)
           /\ \A s \in Queue(A) : s # <<>> =>
                /\ Len(s) >= 1 /\ Head(s) = s[1] /\ Head(s) \in A /\ Tail(s) \in Queue(A)
                /\ Len(Tail(s)) = Len(s) - 1 /\ \A i \in 1 .. Len(s) - 1 : Tail(s)[i] = s[i + 1]
           /\ \A s \in Queue(A) : s \o <<>> = s /\ <<>> \o s = s
           /\ \A s \in Queue(A) : \A a \in A : Append(s, a) = s \o <<a>>
<1> USE DEF Queue
<1>1. <<>> \in Seq(A) /\ Len(<<>>) = 0 /\ 1 .. Len(<<>>) = {}
  BY EmptySeq
<1>2. \A a \in A : <<a>> \in Seq(A) /\ <<a>> # <<>> /\ Head(<<a>>) = a /\ Tail(<<a>>) = <<>>
  OBVIOUS
<1>3. \A s \in Seq(A) : Len(s) \in Nat /\ DOMAIN s = 1 .. Len(s)
  BY LenProperties
<1>4. ASSUME NEW s \in Seq(A), s # <<>>
      PROVE  /\ Len(s) >= 1 /\ Head(s) = s[1] /\ Head(s) \in A /\ Tail(s) \in Seq(A)
             /\ Len(Tail(s)) = Len(s) - 1 /\ \A i \in 1 .. Len(s) - 1 : Tail(s)[i] = s[i + 1]
  <2>1. Len(s) \in Nat /\ Len(s) >= 1
    BY <1>4, LenProperties, EmptySeq
  <2>2. /\ Head(s) \in A /\ Tail(s) \in Seq(A) /\ Len(Tail(s)) = Len(s) - 1
        /\ \A i \in 1 .. Len(Tail(s)) : Tail(s)[i] = s[i + 1]
    BY <1>4, HeadTailProperties
  <2>3. \A i \in 1 .. Len(s) - 1 : Tail(s)[i] = s[i + 1]
    BY <2>2
  <2>4. QED
    BY <2>1, <2>2, <2>3
<1>5. \A s \in Seq(A) : s \o <<>> = s /\ <<>> \o s = s
  BY ConcatEmptySeq
<1>6. \A s \in Seq(A) : \A a \in A : Append(s, a) = s \o <<a>>
  BY AppendIsConcat
<1>7. QED
  BY <1>1, <1>2, <1>3, <1>4, <1>5, <1>6

(* A machine reads elements, is in a state, pays Cost(M, a, q) for the     *)
(* element a in state q and goes on in state To(M, a, q).                  *)
States(M) == M.states
Reads(M) == M.reads
Cost(M, a, q) == M.cost[a][q]
To(M, a, q) == M.next[a][q]
Machine(M) ==
    /\ M.cost \in [M.reads -> [M.states -> Nat]]
    /\ M.next \in [M.reads -> [M.states -> M.states]]

(* What a machine in state q pays for the queue s; in the state it stops in*)
(* it pays what e says.                                                    *)
Total(s, M, e, q) == Ahead(s, M, e)[q]
Prices(M) == [M.states -> Nat]
At(e, q) == e[q]

(* d[p][q]: how much more than from q can come from p.                     *)
Far(d, p, q) == d[p][q]
Distance(M, d) ==
    /\ \A p, q \in States(M) : Far(d, p, q) \in Nat
    /\ \A a \in Reads(M) : \A p, q \in States(M) :
          Cost(M, a, p) + Far(d, To(M, a, p), To(M, a, q)) <= Cost(M, a, q) + Far(d, p, q)

(* A machine pays a number and stays among its states.                     *)
LEMMA Moves ==
    ASSUME NEW M, Machine(M), NEW a \in Reads(M), NEW q \in States(M)
    PROVE  Cost(M, a, q) \in Nat /\ To(M, a, q) \in States(M)
<1>1. M.cost[a] \in [M.states -> Nat] /\ M.next[a] \in [M.states -> M.states]
  BY DEF Machine, Reads
<1>2. QED
  BY <1>1 DEF Cost, To, States

(* What is paid at the end is a number.                                    *)
LEMMA Stops ==
    ASSUME NEW M, NEW e \in Prices(M), NEW q \in States(M)
    PROVE  At(e, q) \in Nat
BY DEF Prices, States, At

(* An empty queue costs what its end costs.                                *)
LEMMA TotalNone ==
    ASSUME NEW M, NEW e, NEW q \in States(M)
    PROVE  Total(<<>>, M, e, q) = At(e, q)
<1>1. Ahead(<<>>, M, e) = [p \in M.states |-> e[p]]
  BY AheadNone
<1>2. QED
  BY <1>1 DEF Total, At, States

(* What a queue costs is a number.                                         *)
LEMMA TotalTyped ==
    ASSUME NEW M, Machine(M), NEW e \in Prices(M), NEW s \in Queue(Reads(M)), NEW q \in States(M)
    PROVE  Total(s, M, e, q) \in Nat
<1> DEFINE T == {x \in Queue(M.reads) : Ahead(x, M, e) \in [M.states -> Nat]}
<1>1. <<>> \in T
  <2>1. Ahead(<<>>, M, e) = [p \in M.states |-> e[p]]
    BY AheadNone
  <2>2. QED
    BY <2>1, Queues DEF Prices
<1>2. ASSUME NEW x \in Queue(M.reads), x # <<>>, Tail(x) \in T PROVE x \in T
  <2>1. Head(x) \in M.reads
    BY <1>2, Queues
  <2>2. PICK v : v = Ahead(Tail(x), M, e)
    OBVIOUS
  <2>3. v \in [M.states -> Nat]
    BY <1>2, <2>2
  <2>4. Ahead(x, M, e) = [p \in M.states |-> M.cost[Head(x)][p] + v[M.next[Head(x)][p]]]
    BY <1>2, <2>2, AheadStep DEF Queue
  <2>5. M.cost[Head(x)] \in [M.states -> Nat] /\ M.next[Head(x)] \in [M.states -> M.states]
    BY <2>1 DEF Machine
  <2>6. Ahead(x, M, e) \in [M.states -> Nat]
    <3> HIDE DEF T
    <3>1. ASSUME NEW p \in M.states PROVE M.cost[Head(x)][p] + v[M.next[Head(x)][p]] \in Nat
      BY <2>3, <2>5
    <3>2. QED
      BY <2>4, <3>1
  <2>7. QED
    BY <2>6
<1> HIDE DEF T
<1>3. s \in T
  BY <1>1, <1>2, AllSequences DEF Queue, Reads
<1>4. QED
  BY <1>3 DEF T, Total, States

(* A queue costs its first element and the rest, read from where that      *)
(* leads.                                                                  *)
LEMMA TotalHead ==
    ASSUME NEW M, NEW e, NEW s \in Queue(Reads(M)), s # <<>>, NEW q \in States(M)
    PROVE  Total(s, M, e, q) = Cost(M, Head(s), q) + Total(Tail(s), M, e, To(M, Head(s), q))
<1>1. Ahead(s, M, e) =
        [p \in M.states |-> M.cost[Head(s)][p] + Ahead(Tail(s), M, e)[M.next[Head(s)][p]]]
  BY AheadStep DEF Queue
<1>2. QED
  BY <1>1 DEF Total, Cost, To, States

(* The cost of the first and of the rest.                                  *)
LEMMA TotalFirst ==
    ASSUME NEW M, Machine(M), NEW e \in Prices(M), NEW s \in Queue(Reads(M)), s # <<>>, NEW q \in States(M)
    PROVE  /\ Head(s) \in Reads(M) /\ Tail(s) \in Queue(Reads(M))
           /\ Cost(M, Head(s), q) \in Nat /\ To(M, Head(s), q) \in States(M)
           /\ Total(Tail(s), M, e, To(M, Head(s), q)) \in Nat
           /\ Total(s, M, e, q) = Cost(M, Head(s), q) + Total(Tail(s), M, e, To(M, Head(s), q))
<1>1. Head(s) \in Reads(M) /\ Tail(s) \in Queue(Reads(M))
  BY Queues
<1>2. Cost(M, Head(s), q) \in Nat /\ To(M, Head(s), q) \in States(M)
  BY <1>1, Moves
<1>3. QED
  BY <1>1, <1>2, TotalTyped, TotalHead

(* What one element costs.                                                 *)
LEMMA TotalOne ==
    ASSUME NEW M, Machine(M), NEW e, NEW a \in Reads(M), NEW q \in States(M)
    PROVE  Total(<<a>>, M, e, q) = Cost(M, a, q) + At(e, To(M, a, q))
<1>1. PICK s : s = <<a>>
  OBVIOUS
<1>2. s \in Queue(Reads(M)) /\ s # <<>> /\ Head(s) = a /\ Tail(s) = <<>>
  BY <1>1, Queues
<1>3. Total(s, M, e, q) = Cost(M, a, q) + Total(<<>>, M, e, To(M, a, q))
  BY <1>2, TotalHead
<1>4. Total(<<>>, M, e, To(M, a, q)) = At(e, To(M, a, q))
  BY Moves, TotalNone
<1>5. QED
  BY <1>1, <1>3, <1>4

(* What is ahead of s \o t, compared with what is ahead of s: it is enough *)
(* to compare at the end of s.                                             *)
LEMMA TotalMore ==
    ASSUME NEW M, Machine(M), NEW d, Distance(M, d),
           NEW e \in Prices(M), NEW f \in Prices(M), NEW t \in Queue(Reads(M)), NEW c \in Int,
           \A p, q \in States(M) : Total(t, M, f, p) <= At(e, q) + Far(d, p, q) + c,
           NEW s \in Queue(Reads(M)), NEW p \in States(M), NEW q \in States(M)
    PROVE  Total(s \o t, M, f, p) <= Total(s, M, e, q) + Far(d, p, q) + c
<1> DEFINE T == {x \in Queue(Reads(M)) : \A g, h \in States(M) :
                   Total(x \o t, M, f, g) <= Total(x, M, e, h) + Far(d, g, h) + c}
<1>1. <<>> \in T
  <2>1. \A h \in States(M) : Total(<<>>, M, e, h) = At(e, h)
    BY TotalNone
  <2>2. <<>> \o t = t /\ <<>> \in Queue(Reads(M))
    BY Queues
  <2>3. QED
    BY <2>1, <2>2
<1>2. ASSUME NEW x \in Queue(Reads(M)), x # <<>>, Tail(x) \in T PROVE x \in T
  <2>1. /\ x \o t \in Queue(Reads(M)) /\ x \o t # <<>>
        /\ Head(x \o t) = Head(x) /\ Tail(x \o t) = Tail(x) \o t
    BY <1>2, ConcatFirst DEF Queue
  <2>2. SUFFICES ASSUME NEW g \in States(M), NEW h \in States(M)
                 PROVE  Total(x \o t, M, f, g) <= Total(x, M, e, h) + Far(d, g, h) + c
    OBVIOUS
  <2> DEFINE a == Head(x)
             r == Tail(x)
             u == Total(r \o t, M, f, To(M, a, g))
             v == Total(r, M, e, To(M, a, h))
  <2>3. /\ a \in Reads(M) /\ Cost(M, a, h) \in Nat /\ To(M, a, h) \in States(M) /\ v \in Nat
        /\ Total(x, M, e, h) = Cost(M, a, h) + v
    BY <1>2, TotalFirst
  <2>4. /\ Cost(M, a, g) \in Nat /\ To(M, a, g) \in States(M) /\ u \in Nat
        /\ Total(x \o t, M, f, g) = Cost(M, a, g) + u
    <3>1. PICK y \in Queue(Reads(M)) : y = x \o t
      BY <2>1
    <3>2. y # <<>> /\ Head(y) = a /\ Tail(y) = r \o t
      BY <2>1, <3>1
    <3> HIDE DEF a, r, T
    <3>3. /\ Cost(M, Head(y), g) \in Nat /\ To(M, Head(y), g) \in States(M)
          /\ Total(Tail(y), M, f, To(M, Head(y), g)) \in Nat
          /\ Total(y, M, f, g) = Cost(M, Head(y), g) + Total(Tail(y), M, f, To(M, Head(y), g))
      BY <3>2, TotalFirst
    <3>4. QED
      BY <3>1, <3>2, <3>3
  <2>5. u <= v + Far(d, To(M, a, g), To(M, a, h)) + c
    BY <1>2, <2>3, <2>4
  <2>6. /\ Far(d, g, h) \in Nat /\ Far(d, To(M, a, g), To(M, a, h)) \in Nat
        /\ Cost(M, a, g) + Far(d, To(M, a, g), To(M, a, h)) <= Cost(M, a, h) + Far(d, g, h)
    BY <2>3, <2>4 DEF Distance
  <2> HIDE DEF a, r, u, v, T
  <2>7. QED
    BY ONLY c \in Int, <2>3, <2>4, <2>5, <2>6
<1> HIDE DEF T
<1>3. s \in T
  BY <1>1, <1>2, AllSequences DEF Queue
<1>4. QED
  BY <1>3 DEF T

(* The end changes.                                                        *)
LEMMA TotalEnd ==
    ASSUME NEW M, Machine(M), NEW d, Distance(M, d),
           NEW e \in Prices(M), NEW f \in Prices(M), NEW c \in Int,
           \A p, q \in States(M) : At(f, p) <= At(e, q) + Far(d, p, q) + c,
           NEW s \in Queue(Reads(M)), NEW p \in States(M), NEW q \in States(M)
    PROVE  Total(s, M, f, p) <= Total(s, M, e, q) + Far(d, p, q) + c
<1>1. \A h \in States(M) : Total(<<>>, M, f, h) = At(f, h)
  BY TotalNone
<1>2. <<>> \in Queue(Reads(M)) /\ s \o <<>> = s
  BY Queues
<1>3. \A g, h \in States(M) : Total(<<>>, M, f, g) <= At(e, h) + Far(d, g, h) + c
  BY <1>1
<1>4. Total(s \o <<>>, M, f, p) <= Total(s, M, e, q) + Far(d, p, q) + c
  BY <1>2, <1>3, TotalMore
<1>5. QED
  BY <1>2, <1>4

(* One element more.                                                       *)
LEMMA TotalAppended ==
    ASSUME NEW M, Machine(M), NEW d, Distance(M, d),
           NEW e \in Prices(M), NEW f \in Prices(M), NEW a \in Reads(M), NEW c \in Int,
           \A p, q \in States(M) : Cost(M, a, p) + At(f, To(M, a, p)) <= At(e, q) + Far(d, p, q) + c,
           NEW s \in Queue(Reads(M)), NEW p \in States(M), NEW q \in States(M)
    PROVE  Total(Append(s, a), M, f, p) <= Total(s, M, e, q) + Far(d, p, q) + c
<1>1. PICK t : t = <<a>>
  OBVIOUS
<1>2. t \in Queue(Reads(M)) /\ Append(s, a) = s \o t
  BY <1>1, Queues
<1>3. \A g \in States(M) : Total(t, M, f, g) = Cost(M, a, g) + At(f, To(M, a, g))
  BY <1>1, TotalOne
<1>4. \A g, h \in States(M) : Total(t, M, f, g) <= At(e, h) + Far(d, g, h) + c
  BY <1>3
<1>5. Total(s \o t, M, f, p) <= Total(s, M, e, q) + Far(d, p, q) + c
  BY <1>2, <1>4, TotalMore
<1>6. QED
  BY <1>2, <1>5

(* One element less.                                                       *)
LEMMA TotalRemoved ==
    ASSUME NEW M, Machine(M), NEW d, Distance(M, d),
           NEW e \in Prices(M), \A p, q \in States(M) : At(e, p) <= At(e, q) + Far(d, p, q),
           NEW s \in Queue(Reads(M)), NEW i \in 1 .. Len(s), NEW c \in Int,
           \A q \in States(M) : Far(d, q, To(M, s[i], q)) <= Cost(M, s[i], q) + c,
           NEW q \in States(M)
    PROVE  Total(RemoveAt(s, i), M, e, q) <= Total(s, M, e, q) + c
<1> DEFINE Fits(a) == \A g \in States(M) : Far(d, g, To(M, a, g)) <= Cost(M, a, g) + c
           T == {x \in Queue(Reads(M)) : \A j \in 1 .. Len(x) : Fits(x[j])
                   => \A g \in States(M) : Total(RemoveAt(x, j), M, e, g) <= Total(x, M, e, g) + c}
<1>1. <<>> \in T
  BY Queues
<1>2. ASSUME NEW x \in Queue(Reads(M)), x # <<>>, Tail(x) \in T PROVE x \in T
  <2>1. SUFFICES ASSUME NEW j \in 1 .. Len(x), NEW g \in States(M), Fits(x[j])
                 PROVE  Total(RemoveAt(x, j), M, e, g) <= Total(x, M, e, g) + c
    OBVIOUS
  <2> DEFINE a == Head(x)
             r == Tail(x)
             v == Total(r, M, e, To(M, a, g))
  <2>2. /\ a \in Reads(M) /\ Cost(M, a, g) \in Nat /\ To(M, a, g) \in States(M) /\ v \in Nat
        /\ r \in Queue(Reads(M))
        /\ Total(x, M, e, g) = Cost(M, a, g) + v
    BY <1>2, TotalFirst
  <2>3. a = x[1] /\ Len(x) \in Nat
    BY <1>2, Queues
  <2>4. CASE j = 1
    <3>1. RemoveAt(x, j) = r
      BY <2>4, RemovedHead DEF Queue
    <3>2. \A p, h \in States(M) : At(e, p) <= At(e, h) + Far(d, p, h) + 0
      <4>1. SUFFICES ASSUME NEW p \in States(M), NEW h \in States(M) PROVE At(e, p) <= At(e, h) + Far(d, p, h) + 0
        OBVIOUS
      <4>2. At(e, p) <= At(e, h) + Far(d, p, h) /\ At(e, h) \in Nat /\ Far(d, p, h) \in Nat
        BY Stops DEF Distance
      <4>3. QED
        BY <4>2
    <3>3. Total(r, M, e, g) <= v + Far(d, g, To(M, a, g)) + 0
      <4> HIDE DEF T, Fits
      <4>1. \A y \in Queue(Reads(M)) : \A p, h \in States(M) : Total(y, M, e, p) <= Total(y, M, e, h) + Far(d, p, h) + 0
        BY ONLY <3>2, Machine(M), Distance(M, d), e \in Prices(M), TotalEnd
      <4>2. QED
        BY <2>2, <4>1
    <3>4. Far(d, g, To(M, a, g)) <= Cost(M, a, g) + c /\ Far(d, g, To(M, a, g)) \in Nat
      BY <2>1, <2>2, <2>3, <2>4 DEF Distance
    <3>5. Total(r, M, e, g) \in Nat
      BY <2>2, TotalTyped
    <3> HIDE DEF a, r, v, T, Fits
    <3>6. QED
      BY ONLY <2>2, <3>1, <3>3, <3>4, <3>5, c \in Int
  <2>5. CASE j # 1
    <3> DEFINE y == RemoveAt(x, j)
               u == Total(Tail(y), M, e, To(M, a, g))
    <3>1. /\ j - 1 \in 1 .. Len(r) /\ r[j - 1] = x[j]
          /\ y \in Queue(Reads(M)) /\ y # <<>> /\ Head(y) = a /\ Tail(y) = RemoveAt(r, j - 1)
      BY <2>3, <2>5, RemovedHead DEF Queue
    <3>2. u \in Nat /\ Total(y, M, e, g) = Cost(M, a, g) + u
      <4> HIDE DEF y, u, T, Fits
      <4>1. Total(Tail(y), M, e, To(M, Head(y), g)) \in Nat /\ Total(y, M, e, g) = Cost(M, Head(y), g) + Total(Tail(y), M, e, To(M, Head(y), g))
        BY <3>1, TotalFirst
      <4>2. QED
        BY <3>1, <4>1 DEF u
    <3>3. u <= v + c
      BY <1>2, <2>1, <2>2, <3>1
    <3> HIDE DEF a, r, v, T, Fits, u
    <3>4. QED
      BY ONLY <2>2, <3>2, <3>3, c \in Int
  <2>6. QED
    BY <2>4, <2>5
<1> HIDE DEF T
<1>3. s \in T
  BY <1>1, <1>2, AllSequences DEF Queue
<1>4. QED
  BY <1>3 DEF T

(* At least what l says, and m more if an element takes it.                *)
LEMMA TotalAtLeast ==
    ASSUME NEW M, Machine(M), NEW e \in Prices(M),
           NEW l \in Prices(M), \A q \in States(M) : At(l, q) <= At(e, q),
           \A a \in Reads(M) : \A q \in States(M) : At(l, q) <= Cost(M, a, q) + At(l, To(M, a, q)),
           NEW m \in Nat, NEW s \in Queue(Reads(M)), NEW q \in States(M)
    PROVE  /\ At(l, q) <= Total(s, M, e, q)
           /\ (\E i \in 1 .. Len(s) : \A g \in States(M) : At(l, g) + m <= Cost(M, s[i], g) + At(l, To(M, s[i], g)))
              => At(l, q) + m <= Total(s, M, e, q)
<1> DEFINE Takes(a) == \A g \in States(M) : At(l, g) + m <= Cost(M, a, g) + At(l, To(M, a, g))
           T == {x \in Queue(Reads(M)) :
                   /\ \A g \in States(M) : At(l, g) <= Total(x, M, e, g)
                   /\ (\E i \in 1 .. Len(x) : Takes(x[i])) => \A g \in States(M) : At(l, g) + m <= Total(x, M, e, g)}
<1>1. <<>> \in T
  <2>1. \A h \in States(M) : Total(<<>>, M, e, h) = At(e, h)
    BY TotalNone
  <2>2. QED
    BY <2>1, Queues
<1>2. ASSUME NEW x \in Queue(Reads(M)), x # <<>>, Tail(x) \in T PROVE x \in T
  <2>1. ASSUME NEW g \in States(M)
        PROVE  /\ Head(x) \in Reads(M) /\ Cost(M, Head(x), g) \in Nat /\ To(M, Head(x), g) \in States(M)
               /\ Total(x, M, e, g) = Cost(M, Head(x), g) + Total(Tail(x), M, e, To(M, Head(x), g))
               /\ Total(Tail(x), M, e, To(M, Head(x), g)) \in Nat
               /\ At(l, g) \in Nat /\ At(l, To(M, Head(x), g)) \in Nat
               /\ At(l, g) <= Cost(M, Head(x), g) + At(l, To(M, Head(x), g))
    BY <1>2, TotalFirst, Stops
  <2>2. /\ Len(x) \in Nat /\ Head(x) = x[1] /\ Len(Tail(x)) = Len(x) - 1
        /\ \A k \in 1 .. Len(Tail(x)) : Tail(x)[k] = x[k + 1]
    BY <1>2, Queues
  <2>3. \A g \in States(M) : At(l, g) <= Total(Tail(x), M, e, g)
    BY <1>2
  <2>4. (\E i \in 1 .. Len(Tail(x)) : Takes(Tail(x)[i])) => \A g \in States(M) : At(l, g) + m <= Total(Tail(x), M, e, g)
    BY <1>2
  <2>5. ASSUME NEW g \in States(M) PROVE At(l, g) <= Total(x, M, e, g)
    <3> HIDE DEF T, Takes
    <3>1. At(l, To(M, Head(x), g)) <= Total(Tail(x), M, e, To(M, Head(x), g))
      BY <2>1, <2>3
    <3>2. QED
      BY <2>1, <3>1
  <2>6. ASSUME NEW i \in 1 .. Len(x), Takes(x[i]), NEW g \in States(M)
        PROVE  At(l, g) + m <= Total(x, M, e, g)
    <3>1. CASE i = 1
      <4>1. At(l, g) + m <= Cost(M, Head(x), g) + At(l, To(M, Head(x), g))
        BY <2>2, <2>6, <3>1
      <4> HIDE DEF T, Takes
      <4>2. At(l, To(M, Head(x), g)) <= Total(Tail(x), M, e, To(M, Head(x), g))
        BY <2>1, <2>3
      <4>3. QED
        BY <2>1, <4>1, <4>2
    <3>2. CASE i # 1
      <4>1. i - 1 \in 1 .. Len(Tail(x)) /\ (i - 1) + 1 = i
        BY <2>2, <3>2
      <4>2. Takes(Tail(x)[i - 1])
        BY <2>2, <2>6, <4>1
      <4> HIDE DEF T, Takes
      <4>3. At(l, To(M, Head(x), g)) + m <= Total(Tail(x), M, e, To(M, Head(x), g))
        BY <2>1, <2>4, <4>1, <4>2
      <4>4. QED
        BY <2>1, <4>3
    <3>3. QED
      BY <3>1, <3>2
  <2>7. QED
    BY <2>5, <2>6
<1> HIDE DEF T
<1>3. s \in T
  BY <1>1, <1>2, AllSequences DEF Queue
<1>4. QED
  BY <1>3 DEF T

-----------------------------------------------------------------------------
(* What is in the queues can still make calls fail.  Three machines read   *)
(* the queues and count it, at two for a failed call and its answer.       *)

(* What a lost version answer can cost: two for each consecutive frame.    *)
Group == 2 * VersionFrames
After == VersionFrames + 1
Skip == -1
Middle == 2 .. VersionFrames
Place == Skip .. After

(* One if b holds.                                                         *)
N(b) == IF b THEN 1 ELSE 0

(* Groups reads the answers, and is at the number of the consecutive frame *)
(* that would be the next: After an answer's first frame, 0 when none is   *)
(* waited for, Skip when the frames are collected for another service.     *)
OnFirst(g) == IF g = 0 \/ g \in Middle THEN After ELSE g
Awaited(g) == IF g = After THEN 1 ELSE g
Follows(f, g) == g > 0 /\ f.sn = Awaited(g)

GroupCost(f, g) ==
    CASE f.kind = "pending" -> 0
      [] f.kind = "negative" -> 2
      [] f.kind = "positive" -> IF f.sid = "0x10" THEN 1 ELSE 2
      [] f.kind = "first" -> IF g \in Middle THEN Group ELSE 0
      [] f.kind = "consecutive" -> IF g > 0 /\ ~Follows(f, g) THEN 2 + Group ELSE 2

GroupTo(f, g) ==
    CASE f.kind \in {"pending", "negative", "positive"} -> g
      [] f.kind = "first" -> OnFirst(g)
      [] f.kind = "consecutive" -> IF Follows(f, g) /\ f.sn < VersionFrames THEN f.sn + 1 ELSE 0

Groups ==
    [states |-> Place, reads |-> Frame,
     cost |-> [f \in Frame |-> [g \in Place |-> GroupCost(f, g)]],
     next |-> [f \in Frame |-> [g \in Place |-> GroupTo(f, g)]]]

(* GroupGap: how much more the frames ahead can cost from p than from q. x *)
(* is what Awaiting the first frame costs more than having it.             *)
Nearer(p, q) == p = q \/ p = Skip \/ (p = 0 /\ q # Skip) \/ (p = After /\ q = 1)
GroupGap(x, p, q) ==
    IF Nearer(p, q) THEN 0
    ELSE IF p = 1 /\ q = After THEN x
    ELSE IF p \in Middle /\ q = Skip THEN 2 * Group
    ELSE Group
GroupFar(x) == [p \in Place |-> [q \in Place |-> GroupGap(x, p, q)]]

(* Runs counts the "pending" answers that follow each other: one too many  *)
(* makes a call fail.                                                      *)
Run == 0 .. MaxPending
RunCost(f, x) == IF f.kind = "pending" /\ x = MaxPending THEN 2 ELSE 0
RunTo(f, x) == IF f.kind = "pending" /\ x < MaxPending THEN x + 1 ELSE 0

Runs ==
    [states |-> Run, reads |-> Frame,
     cost |-> [f \in Frame |-> [x \in Run |-> RunCost(f, x)]],
     next |-> [f \in Frame |-> [x \in Run |-> RunTo(f, x)]]]

RunEnd(h) == [x \in Run |-> IF x > h THEN 2 ELSE 0]
RunFar == [x \in Run |-> [y \in Run |-> IF x <= y THEN 0 ELSE 2]]

(* Owed reads the requests: what their answers will cost.  <<b, o>>: b is  *)
(* 1 if the first consecutive frame is awaited, o is 1 if the ECU owes     *)
(* consecutive frames.                                                     *)
Standing == (0 .. 1) \X (0 .. 1)
OwedCost(r, z) ==
    CASE r.sid = "flow_control" -> IF z[2] = 1 THEN Group ELSE 0
      [] r.sid = "0x22" -> 0
      [] r.sid = "0x10" -> 1
      [] OTHER -> 2
OwedTo(r, z) ==
    CASE r.sid = "flow_control" -> IF z[2] = 1 THEN <<0, 0>> ELSE z
      [] r.sid = "0x22" -> <<z[1], 1>>
      [] OTHER -> <<z[1], 0>>

Owed ==
    [states |-> Standing, reads |-> Message,
     cost |-> [r \in Message |-> [z \in Standing |-> OwedCost(r, z)]],
     next |-> [r \in Message |-> [z \in Standing |-> OwedTo(r, z)]]]

OwedEnd(n) == [z \in Standing |-> IF z[1] = 1 THEN Group ELSE IF z[2] = 1 THEN n ELSE 0]
OwedFar == [y \in Standing |-> [z \in Standing |-> IF y[1] <= z[1] /\ y[2] <= z[2] THEN 0 ELSE Group]]

(* What Groups ends with: the answers that are still owed.                 *)
GroupEnd(s, o, n) ==
    [g \in Place |-> Total(s, Owed, OwedEnd(n), <<N(g = 1), o>>) + (IF g \in Middle THEN Group ELSE 0)]

(* What the answers gw and the requests s are worth to a client that has   *)
(* had x "pending" answers and is at g, while the ECU has given h of them; *)
(* o and n say what the ECU owes, now and to flow control yet to be sent.  *)
Weight(gw, x, g, h, s, o, n) ==
    Total(gw, Runs, RunEnd(h), x) + Total(gw, Groups, GroupEnd(s, o, n), g)

-----------------------------------------------------------------------------
(* The sizes, as numbers.                                                  *)
LEMMA Sizes ==
    /\ VersionFrames \in Nat /\ VersionFrames >= 1 /\ MaxPending \in Nat /\ MaxPending >= 1
    /\ Group \in Nat /\ Group = 2 * VersionFrames /\ Group >= 2
    /\ After \in Nat /\ After = VersionFrames + 1
BY Bounds, UdsAssumption DEF Group, After

(* The kinds of answers, and their numbers.                                *)
LEMMA Kinds ==
    ASSUME NEW f \in Frame
    PROVE  /\ f.kind \in {"pending", "positive", "negative", "first", "consecutive"}
           /\ f.kind = "consecutive" => f.sn \in 1 .. VersionFrames
BY DEF Frame, Reply, First, Consecutive

(* Where a client can be, and where a first frame leads from there.        *)
LEMMA Places ==
    ASSUME NEW g \in Place
    PROVE  /\ g \in Int /\ g >= -1 /\ g <= After
           /\ OnFirst(g) \in Place
BY Sizes DEF Place, Skip, OnFirst, Middle

(* Groups pays a number and goes on to a place.                            *)
LEMMA GroupTyped ==
    ASSUME NEW f \in Frame, NEW g \in Place
    PROVE  GroupCost(f, g) \in Nat /\ GroupTo(f, g) \in Place
<1>1. f.kind \in {"pending", "positive", "negative", "first", "consecutive"}
  BY Kinds
<1>2. 0 \in Place
  BY Sizes DEF Place, Skip
<1>3. GroupCost(f, g) \in Nat
  BY <1>1, Sizes DEF GroupCost
<1>4. GroupTo(f, g) \in Place
  <2>1. CASE f.kind = "consecutive"
    <3>1. PICK k \in 1 .. VersionFrames : k = f.sn
      BY <2>1, Kinds
    <3>2. k < VersionFrames => k + 1 \in Place
      BY Sizes DEF Place, Skip
    <3>3. QED
      BY <1>2, <2>1, <3>1, <3>2 DEF GroupTo
  <2>2. CASE f.kind = "first"
    BY <2>2, Places DEF GroupTo
  <2>3. CASE f.kind \in {"pending", "negative", "positive"}
    BY <2>3 DEF GroupTo
  <2>4. QED
    BY <1>1, <2>1, <2>2, <2>3
<1>5. QED
  BY <1>3, <1>4

(* Groups is a machine, and reads answers as described.                    *)
LEMMA GroupsRead ==
    /\ States(Groups) = Place /\ Reads(Groups) = Frame /\ Machine(Groups)
    /\ \A f \in Frame : \A g \in Place :
          Cost(Groups, f, g) = GroupCost(f, g) /\ To(Groups, f, g) = GroupTo(f, g)
<1>1. /\ Groups.states = Place /\ Groups.reads = Frame
      /\ Groups.cost = [f \in Frame |-> [g \in Place |-> GroupCost(f, g)]]
      /\ Groups.next = [f \in Frame |-> [g \in Place |-> GroupTo(f, g)]]
  BY DEF Groups
<1>2. Groups.cost \in [Frame -> [Place -> Nat]] /\ Groups.next \in [Frame -> [Place -> Place]]
  BY <1>1, GroupTyped
<1>3. QED
  BY <1>1, <1>2 DEF States, Reads, Machine, Cost, To

(* Runs is a machine, and reads answers as described.                      *)
LEMMA RunsRead ==
    /\ States(Runs) = Run /\ Reads(Runs) = Frame /\ Machine(Runs)
    /\ \A f \in Frame : \A x \in Run :
          Cost(Runs, f, x) = RunCost(f, x) /\ To(Runs, f, x) = RunTo(f, x)
<1>1. /\ Runs.states = Run /\ Runs.reads = Frame
      /\ Runs.cost = [f \in Frame |-> [x \in Run |-> RunCost(f, x)]]
      /\ Runs.next = [f \in Frame |-> [x \in Run |-> RunTo(f, x)]]
  BY DEF Runs
<1>2. \A f \in Frame : \A x \in Run : RunCost(f, x) \in Nat /\ RunTo(f, x) \in Run
  BY Sizes DEF RunCost, RunTo, Run
<1>3. Runs.cost \in [Frame -> [Run -> Nat]] /\ Runs.next \in [Frame -> [Run -> Run]]
  BY <1>1, <1>2
<1>4. QED
  BY <1>1, <1>3 DEF States, Reads, Machine, Cost, To

(* The four standings of the ECU are pairs.                                *)
LEMMA Standings ==
    /\ \A b, o \in 0 .. 1 : <<b, o>> \in Standing /\ <<b, o>>[1] = b /\ <<b, o>>[2] = o
    /\ \A z \in Standing : z[1] \in 0 .. 1 /\ z[2] \in 0 .. 1 /\ z = <<z[1], z[2]>>
BY DEF Standing

(* Owed pays a number and goes on to a standing.                           *)
LEMMA OwedTyped ==
    ASSUME NEW r \in Message, NEW z \in Standing
    PROVE  OwedTo(r, z) \in Standing /\ OwedCost(r, z) \in Nat
<1>1. OwedCost(r, z) \in Nat
  BY Sizes DEF OwedCost
<1>2. PICK b \in 0 .. 1, o \in 0 .. 1 : z[1] = b /\ z[2] = o
  BY Standings
<1>3. <<0, 0>> \in Standing /\ <<b, 1>> \in Standing /\ <<b, 0>> \in Standing
  BY Standings
<1>4. OwedTo(r, z) \in {<<0, 0>>, z, <<b, 1>>, <<b, 0>>}
  BY <1>2 DEF OwedTo
<1>5. QED
  BY <1>1, <1>3, <1>4

(* Owed is a machine, and reads requests as described.                     *)
LEMMA OwedRead ==
    /\ States(Owed) = Standing /\ Reads(Owed) = Message /\ Machine(Owed)
    /\ \A r \in Message : \A z \in Standing :
          Cost(Owed, r, z) = OwedCost(r, z) /\ To(Owed, r, z) = OwedTo(r, z)
<1>1. /\ Owed.states = Standing /\ Owed.reads = Message
      /\ Owed.cost = [r \in Message |-> [z \in Standing |-> OwedCost(r, z)]]
      /\ Owed.next = [r \in Message |-> [z \in Standing |-> OwedTo(r, z)]]
  BY DEF Owed
<1>2. Owed.cost \in [Message -> [Standing -> Nat]] /\ Owed.next \in [Message -> [Standing -> Standing]]
  BY <1>1, OwedTyped
<1>3. QED
  BY <1>1, <1>2 DEF States, Reads, Machine, Cost, To

(* GroupFar bounds what two places can differ by: no frame widens it.      *)
LEMMA GroupsFar ==
    ASSUME NEW x \in {0, Group}
    PROVE  /\ Distance(Groups, GroupFar(x))
           /\ \A p, q \in Place : Far(GroupFar(x), p, q) = GroupGap(x, p, q) /\ GroupGap(x, p, q) \in Nat
<1>1. \A p, q \in Place : Far(GroupFar(x), p, q) = GroupGap(x, p, q)
  BY DEF Far, GroupFar
<1>2. \A p, q \in Place : GroupGap(x, p, q) \in Nat
  BY Sizes DEF GroupGap
<1>3. ASSUME NEW f \in Frame, NEW p \in Place, NEW q \in Place
      PROVE  GroupCost(f, p) + GroupGap(x, GroupTo(f, p), GroupTo(f, q)) <= GroupCost(f, q) + GroupGap(x, p, q)
  <2>1. CASE f.kind \in {"pending", "negative", "positive"}
    <3>1. GroupTo(f, p) = p /\ GroupTo(f, q) = q /\ GroupCost(f, p) = GroupCost(f, q)
      BY <2>1 DEF GroupTo, GroupCost
    <3>2. GroupCost(f, q) \in Nat /\ GroupGap(x, p, q) \in Nat
      BY <1>2, GroupTyped
    <3>3. QED
      BY <3>1, <3>2
  <2>2. CASE f.kind = "first"
    <3>1. /\ GroupTo(f, p) = OnFirst(p) /\ GroupTo(f, q) = OnFirst(q)
          /\ GroupCost(f, p) = IF p \in Middle THEN Group ELSE 0
          /\ GroupCost(f, q) = IF q \in Middle THEN Group ELSE 0
      BY <2>2 DEF GroupTo, GroupCost
    <3>2. (IF p \in Middle THEN Group ELSE 0) + GroupGap(x, OnFirst(p), OnFirst(q))
            <= (IF q \in Middle THEN Group ELSE 0) + GroupGap(x, p, q)
      BY Sizes, Places DEF GroupGap, Nearer, OnFirst, Middle, Skip, Place
    <3>3. QED
      BY <3>1, <3>2
  <2>3. CASE f.kind = "consecutive"
    <3>1. PICK k \in 1 .. VersionFrames : k = f.sn
      BY <2>3, Kinds
    <3> DEFINE C(g) == IF g > 0 /\ ~(k = Awaited(g)) THEN 2 + Group ELSE 2
               W(g) == IF g > 0 /\ k = Awaited(g) /\ k < VersionFrames THEN k + 1 ELSE 0
    <3>2. \A g \in Place : GroupCost(f, g) = C(g) /\ GroupTo(f, g) = W(g)
      BY <2>3, <3>1 DEF GroupTo, GroupCost, Follows
    <3>3. C(p) + GroupGap(x, W(p), W(q)) <= C(q) + GroupGap(x, p, q)
      BY Sizes, Places DEF GroupGap, Nearer, Awaited, Middle, Skip, Place
    <3>4. QED
      BY <3>2, <3>3
  <2>4. QED
    BY <2>1, <2>2, <2>3, Kinds
<1>4. ASSUME NEW f \in Frame, NEW p \in Place, NEW q \in Place
      PROVE  Cost(Groups, f, p) + Far(GroupFar(x), To(Groups, f, p), To(Groups, f, q))
               <= Cost(Groups, f, q) + Far(GroupFar(x), p, q)
  BY <1>1, <1>3, GroupsRead, GroupTyped
<1>5. QED
  BY <1>1, <1>2, <1>4, GroupsRead DEF Distance

(* RunFar bounds what two counts of "pending" can differ by.               *)
LEMMA RunsFar ==
    /\ Distance(Runs, RunFar)
    /\ \A x, y \in Run : Far(RunFar, x, y) = IF x <= y THEN 0 ELSE 2
<1>1. \A x, y \in Run : Far(RunFar, x, y) = IF x <= y THEN 0 ELSE 2
  BY DEF Far, RunFar
<1>2. ASSUME NEW f \in Frame, NEW x \in Run, NEW y \in Run
      PROVE  RunCost(f, x) + (IF RunTo(f, x) <= RunTo(f, y) THEN 0 ELSE 2) <= RunCost(f, y) + (IF x <= y THEN 0 ELSE 2)
  BY Sizes DEF RunCost, RunTo, Run
<1>3. \A f \in Frame : \A x \in Run : RunTo(f, x) \in Run
  BY Sizes DEF RunTo, Run
<1>4. QED
  BY <1>1, <1>2, <1>3, RunsRead DEF Distance

(* OwedFar bounds what two standings can differ by.                        *)
LEMMA OwedsFar ==
    /\ Distance(Owed, OwedFar)
    /\ \A y, z \in Standing : Far(OwedFar, y, z) = IF y[1] <= z[1] /\ y[2] <= z[2] THEN 0 ELSE Group
<1>1. \A y, z \in Standing : Far(OwedFar, y, z) = IF y[1] <= z[1] /\ y[2] <= z[2] THEN 0 ELSE Group
  BY DEF Far, OwedFar
<1>2. ASSUME NEW r \in Message, NEW y \in Standing, NEW z \in Standing
      PROVE  Cost(Owed, r, y) + Far(OwedFar, To(Owed, r, y), To(Owed, r, z)) <= Cost(Owed, r, z) + Far(OwedFar, y, z)
  <2>1. PICK b \in 0 .. 1, o \in 0 .. 1 : y[1] = b /\ y[2] = o /\ y = <<b, o>>
    BY Standings
  <2>2. PICK c \in 0 .. 1, p \in 0 .. 1 : z[1] = c /\ z[2] = p /\ z = <<c, p>>
    BY Standings
  <2> DEFINE Gap(b1, o1, b2, o2) == IF b1 <= b2 /\ o1 <= o2 THEN 0 ELSE Group
  <2>3. \A b1, o1, b2, o2 \in 0 .. 1 : Far(OwedFar, <<b1, o1>>, <<b2, o2>>) = Gap(b1, o1, b2, o2)
    BY <1>1, Standings
  <2>4. Cost(Owed, r, y) = OwedCost(r, y) /\ Cost(Owed, r, z) = OwedCost(r, z)
    BY OwedRead
  <2>5. To(Owed, r, y) = OwedTo(r, y) /\ To(Owed, r, z) = OwedTo(r, z)
    BY OwedRead
  <2>6. Far(OwedFar, y, z) = Gap(b, o, c, p)
    BY <2>1, <2>2, <2>3
  <2>7. CASE r.sid = "flow_control"
    <3>1. /\ OwedCost(r, y) = IF o = 1 THEN Group ELSE 0
          /\ OwedCost(r, z) = IF p = 1 THEN Group ELSE 0
      BY <2>1, <2>2, <2>7 DEF OwedCost
    <3>2. /\ OwedTo(r, y) = IF o = 1 THEN <<0, 0>> ELSE <<b, o>>
          /\ OwedTo(r, z) = IF p = 1 THEN <<0, 0>> ELSE <<c, p>>
      BY <2>1, <2>2, <2>7 DEF OwedTo
    <3>3. Far(OwedFar, OwedTo(r, y), OwedTo(r, z)) =
            Gap(IF o = 1 THEN 0 ELSE b, IF o = 1 THEN 0 ELSE o, IF p = 1 THEN 0 ELSE c, IF p = 1 THEN 0 ELSE p)
      BY <2>3, <3>2
    <3>4. QED
      BY <2>4, <2>5, <2>6, <3>1, <3>3, Sizes
  <2>8. CASE r.sid # "flow_control"
    <3>1. OwedCost(r, y) = OwedCost(r, z) /\ OwedCost(r, z) \in Nat
      BY <2>8, OwedTyped DEF OwedCost
    <3>2. PICK i \in 0 .. 1 : i = IF r.sid = "0x22" THEN 1 ELSE 0
      OBVIOUS
    <3>5. OwedTo(r, y) = <<b, i>> /\ OwedTo(r, z) = <<c, i>>
      BY <2>1, <2>2, <2>8, <3>2 DEF OwedTo
    <3>3. Far(OwedFar, OwedTo(r, y), OwedTo(r, z)) = Gap(b, i, c, i)
      BY <2>3, <3>5
    <3>4. QED
      BY <2>4, <2>5, <2>6, <3>1, <3>3, Sizes
  <2>9. QED
    BY <2>7, <2>8
<1>3. \A y, z \in Standing : Far(OwedFar, y, z) \in Nat
  BY <1>1, Sizes
<1>4. QED
  BY <1>1, <1>2, <1>3, OwedRead DEF Distance

-----------------------------------------------------------------------------
(* The three totals.                                                       *)
Owing(s, n, b, o) == Total(s, Owed, OwedEnd(n), <<b, o>>)
InRuns(gw, h, x) == Total(gw, Runs, RunEnd(h), x)
InGroups(gw, e, g) == Total(gw, Groups, e, g)
Smooth(e) ==
    /\ e \in Prices(Groups)
    /\ \A p, q \in Place : At(e, p) <= At(e, q) + GroupGap(Group, p, q)

(* What Owed pays at the end of the requests.                              *)
LEMMA OwedEnds ==
    ASSUME NEW n \in {0, Group}
    PROVE  /\ OwedEnd(n) \in Prices(Owed)
           /\ \A b, o \in 0 .. 1 :
                At(OwedEnd(n), <<b, o>>) = IF b = 1 THEN Group ELSE IF o = 1 THEN n ELSE 0
<1>1. OwedEnd(n) \in [Standing -> Nat]
  BY Sizes DEF OwedEnd
<1>2. \A b, o \in 0 .. 1 : OwedEnd(n)[<<b, o>>] = IF b = 1 THEN Group ELSE IF o = 1 THEN n ELSE 0
  BY Standings DEF OwedEnd
<1>3. QED
  BY <1>1, <1>2, OwedRead DEF Prices, At, States

(* What Runs pays at the end of the answers.                               *)
LEMMA RunEnds ==
    ASSUME NEW h \in Run
    PROVE  /\ RunEnd(h) \in Prices(Runs)
           /\ \A x \in Run : At(RunEnd(h), x) = IF x > h THEN 2 ELSE 0
<1>1. RunEnd(h) \in [Run -> Nat]
  BY DEF RunEnd
<1>2. \A x \in Run : RunEnd(h)[x] = IF x > h THEN 2 ELSE 0
  BY DEF RunEnd
<1>3. QED
  BY <1>1, <1>2, RunsRead DEF Prices, At, States

(* What the requests cost is a number.                                     *)
LEMMA OwingTyped ==
    ASSUME NEW s \in Queue(Message), NEW n \in {0, Group}, NEW b \in 0 .. 1, NEW o \in 0 .. 1
    PROVE  Owing(s, n, b, o) \in Nat
BY Standings, OwedRead, OwedEnds, TotalTyped DEF Owing

(* What the "pending" answers cost is a number.                            *)
LEMMA RunsTyped ==
    ASSUME NEW gw \in Queue(Frame), NEW h \in Run, NEW x \in Run
    PROVE  InRuns(gw, h, x) \in Nat
BY RunsRead, RunEnds, TotalTyped DEF InRuns

(* What the other answers cost is a number.                                *)
LEMMA GroupsTyped ==
    ASSUME NEW gw \in Queue(Frame), NEW e \in Prices(Groups), NEW g \in Place
    PROVE  InGroups(gw, e, g) \in Nat
BY GroupsRead, TotalTyped DEF InGroups

(* An answer is read.                                                      *)
LEMMA AnswerRead ==
    ASSUME NEW gw \in Queue(Frame), gw # <<>>, NEW h \in Run, NEW x \in Run,
           NEW e \in Prices(Groups), NEW g \in Place
    PROVE  /\ Head(gw) \in Frame /\ Tail(gw) \in Queue(Frame)
           /\ RunTo(Head(gw), x) \in Run /\ GroupTo(Head(gw), g) \in Place
           /\ InRuns(gw, h, x) = RunCost(Head(gw), x) + InRuns(Tail(gw), h, RunTo(Head(gw), x))
           /\ InGroups(gw, e, g) = GroupCost(Head(gw), g) + InGroups(Tail(gw), e, GroupTo(Head(gw), g))
<1>1. Head(gw) \in Frame /\ Tail(gw) \in Queue(Frame)
  BY Queues
<1>2. RunTo(Head(gw), x) \in Run /\ GroupTo(Head(gw), g) \in Place
  BY <1>1, GroupTyped, Sizes DEF RunTo, Run
<1>3. InRuns(gw, h, x) = Cost(Runs, Head(gw), x) + InRuns(Tail(gw), h, To(Runs, Head(gw), x))
  BY RunsRead, TotalHead DEF InRuns
<1>4. InGroups(gw, e, g) = Cost(Groups, Head(gw), g) + InGroups(Tail(gw), e, To(Groups, Head(gw), g))
  BY GroupsRead, TotalHead DEF InGroups
<1>5. QED
  BY <1>1, <1>2, <1>3, <1>4, RunsRead, GroupsRead

(* A request is read.                                                      *)
LEMMA RequestRead ==
    ASSUME NEW s \in Queue(Message), s # <<>>, NEW n \in {0, Group}, NEW b \in 0 .. 1, NEW o \in 0 .. 1
    PROVE  /\ Head(s) \in Message /\ Tail(s) \in Queue(Message)
           /\ Head(s).sid = "flow_control" => Owing(s, n, b, o) =
                IF o = 1 THEN Group + Owing(Tail(s), n, 0, 0) ELSE Owing(Tail(s), n, b, o)
           /\ Head(s).sid = "0x22" => Owing(s, n, b, o) = Owing(Tail(s), n, b, 1)
           /\ Head(s).sid = "0x10" => Owing(s, n, b, o) = 1 + Owing(Tail(s), n, b, 0)
           /\ Head(s).sid \notin {"flow_control", "0x22", "0x10"} =>
                Owing(s, n, b, o) = 2 + Owing(Tail(s), n, b, 0)
<1>1. Head(s) \in Message /\ Tail(s) \in Queue(Message)
  BY Queues
<1>2. <<b, o>> \in Standing /\ <<b, o>>[1] = b /\ <<b, o>>[2] = o
  BY Standings
<1>3. Owing(s, n, b, o) = OwedCost(Head(s), <<b, o>>)
                            + Total(Tail(s), Owed, OwedEnd(n), OwedTo(Head(s), <<b, o>>))
  <2>1. Total(s, Owed, OwedEnd(n), <<b, o>>) = Cost(Owed, Head(s), <<b, o>>)
                            + Total(Tail(s), Owed, OwedEnd(n), To(Owed, Head(s), <<b, o>>))
    BY <1>2, OwedRead, TotalHead
  <2>2. QED
    BY <1>1, <1>2, <2>1, OwedRead DEF Owing
<1>4. /\ Owing(Tail(s), n, b, 0) \in Nat /\ Owing(Tail(s), n, b, 1) \in Nat
      /\ Owing(Tail(s), n, 0, 0) \in Nat /\ Owing(Tail(s), n, b, o) \in Nat
  <2>1. 0 \in 0 .. 1 /\ 1 \in 0 .. 1
    OBVIOUS
  <2>2. PICK r \in Queue(Message) : r = Tail(s)
    BY <1>1
  <2>3. QED
    BY <2>1, <2>2, OwingTyped
<1>5. ASSUME Head(s).sid = "flow_control"
      PROVE  Owing(s, n, b, o) = IF o = 1 THEN Group + Owing(Tail(s), n, 0, 0) ELSE Owing(Tail(s), n, b, o)
  <2>1. /\ OwedCost(Head(s), <<b, o>>) = IF o = 1 THEN Group ELSE 0
        /\ OwedTo(Head(s), <<b, o>>) = IF o = 1 THEN <<0, 0>> ELSE <<b, o>>
    BY <1>2, <1>5 DEF OwedCost, OwedTo
  <2>2. QED
    BY <1>3, <1>4, <2>1 DEF Owing
<1>6. ASSUME Head(s).sid = "0x22"
      PROVE  Owing(s, n, b, o) = Owing(Tail(s), n, b, 1)
  <2>1. OwedCost(Head(s), <<b, o>>) = 0 /\ OwedTo(Head(s), <<b, o>>) = <<b, 1>>
    BY <1>2, <1>6 DEF OwedCost, OwedTo
  <2>2. QED
    BY <1>3, <1>4, <2>1 DEF Owing
<1>7. ASSUME Head(s).sid \notin {"flow_control", "0x22"}
      PROVE  Owing(s, n, b, o) = (IF Head(s).sid = "0x10" THEN 1 ELSE 2) + Owing(Tail(s), n, b, 0)
  <2>1. /\ OwedCost(Head(s), <<b, o>>) = IF Head(s).sid = "0x10" THEN 1 ELSE 2
        /\ OwedTo(Head(s), <<b, o>>) = <<b, 0>>
    BY <1>2, <1>7 DEF OwedCost, OwedTo
  <2>2. QED
    BY <1>3, <1>4, <2>1 DEF Owing
<1>8. QED
  BY <1>1, <1>5, <1>6, <1>7

(* The less is awaited and owed, the less it costs.                        *)
LEMMA OwingLess ==
    ASSUME NEW s \in Queue(Message), NEW n \in {0, Group}, NEW b \in 0 .. 1, NEW o \in 0 .. 1
    PROVE  /\ Owing(s, n, 0, o) <= Owing(s, n, b, o) /\ Owing(s, n, b, 0) <= Owing(s, n, b, o)
           /\ Owing(s, n, b, o) <= Owing(s, n, 0, o) + Group
           /\ Owing(s, 0, b, o) <= Owing(s, n, b, o)
<1> DEFINE Gap(b1, o1, b2, o2) == IF b1 <= b2 /\ o1 <= o2 THEN 0 ELSE Group
           e == OwedEnd(n)
<1>1. \A b1, o1, b2, o2 \in 0 .. 1 : Far(OwedFar, <<b1, o1>>, <<b2, o2>>) = Gap(b1, o1, b2, o2)
  BY OwedsFar, Standings
<1>2. \A b1, o1, b2, o2 \in 0 .. 1 : At(OwedEnd(n), <<b1, o1>>) <= At(e, <<b2, o2>>) + Gap(b1, o1, b2, o2) + 0
  BY OwedEnds, Sizes
<1>3. \A b1, o1, b2, o2 \in 0 .. 1 : At(OwedEnd(0), <<b1, o1>>) <= At(e, <<b2, o2>>) + Gap(b1, o1, b2, o2) + 0
  BY OwedEnds, Sizes
<1>4. ASSUME NEW f \in {OwedEnd(n), OwedEnd(0)}, NEW b1 \in 0 .. 1, NEW o1 \in 0 .. 1, NEW b2 \in 0 .. 1, NEW o2 \in 0 .. 1
      PROVE  Total(s, Owed, f, <<b1, o1>>) <= Total(s, Owed, e, <<b2, o2>>) + Gap(b1, o1, b2, o2) + 0
  <2>1. f \in Prices(Owed) /\ e \in Prices(Owed)
    BY OwedEnds
  <2>2. \A y, z \in Standing : At(f, y) <= At(e, z) + Far(OwedFar, y, z) + 0
    <3>1. SUFFICES ASSUME NEW y \in Standing, NEW z \in Standing PROVE At(f, y) <= At(e, z) + Far(OwedFar, y, z) + 0
      OBVIOUS
    <3>2. PICK b3 \in 0 .. 1, o3 \in 0 .. 1 : y = <<b3, o3>>
      BY Standings
    <3>3. PICK b4 \in 0 .. 1, o4 \in 0 .. 1 : z = <<b4, o4>>
      BY Standings
    <3> HIDE DEF Gap, e
    <3>4. QED
      BY <1>1, <1>2, <1>3, <3>2, <3>3
  <2> HIDE DEF Gap, e
  <2>3. \A y, z \in Standing : Total(s, Owed, f, y) <= Total(s, Owed, e, z) + Far(OwedFar, y, z) + 0
    BY <2>1, <2>2, OwedRead, OwedsFar, TotalEnd
  <2>4. QED
    BY <1>1, <2>3, Standings
<1>5. /\ Owing(s, n, 0, o) <= Owing(s, n, b, o) + Gap(0, o, b, o) + 0
      /\ Owing(s, n, b, 0) <= Owing(s, n, b, o) + Gap(b, 0, b, o) + 0
      /\ Owing(s, n, b, o) <= Owing(s, n, 0, o) + Gap(b, o, 0, o) + 0
      /\ Owing(s, 0, b, o) <= Owing(s, n, b, o) + Gap(b, o, b, o) + 0
  BY <1>4 DEF Owing
<1>6. /\ Owing(s, n, 0, o) \in Nat /\ Owing(s, n, b, o) \in Nat
      /\ Owing(s, n, b, 0) \in Nat /\ Owing(s, 0, b, o) \in Nat
  BY OwingTyped
<1>7. QED
  BY <1>5, <1>6, Sizes

(* A request is sent.                                                      *)
LEMMA RequestSent ==
    ASSUME NEW s \in Queue(Message), NEW r \in Message, NEW n \in {0, Group}, NEW m \in {0, Group},
           NEW c \in Int,
           \A b, o \in 0 .. 1 :
              OwedCost(r, <<b, o>>) + At(OwedEnd(m), OwedTo(r, <<b, o>>)) <= At(OwedEnd(n), <<b, o>>) + c,
           NEW b \in 0 .. 1, NEW o \in 0 .. 1
    PROVE  Append(s, r) \in Queue(Message) /\ Owing(Append(s, r), m, b, o) <= Owing(s, n, b, o) + c
<1>1. Append(s, r) \in Queue(Message)
  BY AppendProperties DEF Queue
<1>2. ASSUME NEW y \in Standing, NEW z \in Standing
      PROVE  Cost(Owed, r, y) + At(OwedEnd(m), To(Owed, r, y)) <= At(OwedEnd(n), z) + Far(OwedFar, y, z) + c
  <2>1. PICK b1 \in 0 .. 1, o1 \in 0 .. 1 : y = <<b1, o1>>
    BY Standings
  <2>2. PICK b2 \in 0 .. 1, o2 \in 0 .. 1 : z = <<b2, o2>>
    BY Standings
  <2>3. OwedCost(r, y) + At(OwedEnd(m), OwedTo(r, y)) <= At(OwedEnd(n), y) + c
    BY <2>1
  <2>4. At(OwedEnd(n), y) <= At(OwedEnd(n), z) + Far(OwedFar, y, z)
    <3>1. Far(OwedFar, y, z) = IF b1 <= b2 /\ o1 <= o2 THEN 0 ELSE Group
      BY <2>1, <2>2, OwedsFar, Standings
    <3>2. /\ At(OwedEnd(n), y) = IF b1 = 1 THEN Group ELSE IF o1 = 1 THEN n ELSE 0
          /\ At(OwedEnd(n), z) = IF b2 = 1 THEN Group ELSE IF o2 = 1 THEN n ELSE 0
      BY <2>1, <2>2, OwedEnds
    <3>3. QED
      BY <3>1, <3>2, Sizes
  <2>5. OwedCost(r, y) \in Nat /\ OwedTo(r, y) \in Standing
    BY OwedTyped
  <2>6. At(OwedEnd(m), OwedTo(r, y)) \in Nat /\ At(OwedEnd(n), y) \in Nat /\ At(OwedEnd(n), z) \in Nat
    BY <2>5, OwedEnds, OwedRead, Stops
  <2>7. Far(OwedFar, y, z) \in Nat
    BY OwedsFar, OwedRead DEF Distance
  <2>8. QED
    BY <2>3, <2>4, <2>5, <2>6, <2>7, OwedRead
<1>3. <<b, o>> \in Standing
  BY Standings
<1>4. Total(Append(s, r), Owed, OwedEnd(m), <<b, o>>)
         <= Total(s, Owed, OwedEnd(n), <<b, o>>) + Far(OwedFar, <<b, o>>, <<b, o>>) + c
  BY <1>2, <1>3, OwedRead, OwedsFar, OwedEnds, TotalAppended
<1>5. Far(OwedFar, <<b, o>>, <<b, o>>) = 0
  BY <1>3, OwedsFar
<1>6. Owing(Append(s, r), m, b, o) <= Owing(s, n, b, o) + 0 + c
  BY <1>4, <1>5 DEF Owing
<1>7. Owing(s, n, b, o) \in Nat /\ Owing(Append(s, r), m, b, o) \in Nat
  BY <1>1, OwingTyped
<1>8. QED
  BY <1>1, <1>6, <1>7

(* What sending each request costs.                                        *)
LEMMA SendingCosts ==
    ASSUME NEW s \in Queue(Message), NEW r \in Message, NEW n \in {0, Group}, NEW m \in {0, Group},
           NEW b \in 0 .. 1, NEW o \in 0 .. 1
    PROVE  /\ r.sid = "0x10" => Owing(Append(s, r), m, b, o) <= Owing(s, n, b, o) + 1
           /\ r.sid = "0x22" /\ m = 0 => Owing(Append(s, r), m, b, o) <= Owing(s, n, b, o)
           /\ r.sid \notin {"0x10", "0x22", "flow_control"} =>
                Owing(Append(s, r), m, b, o) <= Owing(s, n, b, o) + 2
           /\ r.sid = "flow_control" /\ m = 0 /\ n = Group =>
                Owing(Append(s, r), m, b, o) <= Owing(s, n, b, o)
           /\ r.sid = "flow_control" /\ m = 0 =>
                Owing(Append(s, r), m, b, o) <= Owing(s, n, b, o) + Group
<1> DEFINE Due(k, b1, o1) == IF b1 = 1 THEN Group ELSE IF o1 = 1 THEN k ELSE 0
<1>1. \A k \in {0, Group} : \A b1, o1 \in 0 .. 1 : At(OwedEnd(k), <<b1, o1>>) = Due(k, b1, o1)
  BY OwedEnds
<1>2. \A b1, o1 \in 0 .. 1 : <<b1, o1>>[1] = b1 /\ <<b1, o1>>[2] = o1
  OBVIOUS
<1>3. CASE r.sid = "0x10"
  <2>1. \A b1, o1 \in 0 .. 1 : OwedCost(r, <<b1, o1>>) = 1 /\ OwedTo(r, <<b1, o1>>) = <<b1, 0>>
    BY <1>2, <1>3 DEF OwedCost, OwedTo
  <2>2. \A b1, o1 \in 0 .. 1 :
          OwedCost(r, <<b1, o1>>) + At(OwedEnd(m), OwedTo(r, <<b1, o1>>)) <= At(OwedEnd(n), <<b1, o1>>) + 1
    BY <1>1, <2>1, Sizes
  <2>3. QED
    BY <1>3, <2>2, RequestSent
<1>4. CASE r.sid = "0x22"
  <2>1. \A b1, o1 \in 0 .. 1 : OwedCost(r, <<b1, o1>>) = 0 /\ OwedTo(r, <<b1, o1>>) = <<b1, 1>>
    BY <1>2, <1>4 DEF OwedCost, OwedTo
  <2>2. m = 0 => \A b1, o1 \in 0 .. 1 :
          OwedCost(r, <<b1, o1>>) + At(OwedEnd(m), OwedTo(r, <<b1, o1>>)) <= At(OwedEnd(n), <<b1, o1>>) + 0
    BY <1>1, <2>1, Sizes
  <2>3. m = 0 => Owing(Append(s, r), m, b, o) <= Owing(s, n, b, o) + 0
    BY <2>2, RequestSent
  <2>4. QED
    BY <1>4, <2>3, OwingTyped
<1>5. CASE r.sid \notin {"0x10", "0x22", "flow_control"}
  <2>1. \A b1, o1 \in 0 .. 1 : OwedCost(r, <<b1, o1>>) = 2 /\ OwedTo(r, <<b1, o1>>) = <<b1, 0>>
    BY <1>2, <1>5 DEF OwedCost, OwedTo
  <2>2. \A b1, o1 \in 0 .. 1 :
          OwedCost(r, <<b1, o1>>) + At(OwedEnd(m), OwedTo(r, <<b1, o1>>)) <= At(OwedEnd(n), <<b1, o1>>) + 2
    BY <1>1, <2>1, Sizes
  <2>3. 2 \in Int
    OBVIOUS
  <2> HIDE DEF Due
  <2>4. Owing(Append(s, r), m, b, o) <= Owing(s, n, b, o) + 2
    BY <2>2, <2>3, RequestSent
  <2>5. QED
    BY <1>5, <2>4
<1>6. CASE r.sid = "flow_control"
  <2>1. \A b1, o1 \in 0 .. 1 :
          /\ OwedCost(r, <<b1, o1>>) = IF o1 = 1 THEN Group ELSE 0
          /\ OwedTo(r, <<b1, o1>>) = IF o1 = 1 THEN <<0, 0>> ELSE <<b1, o1>>
    BY <1>2, <1>6 DEF OwedCost, OwedTo
  <2>2. m = 0 /\ n = Group => \A b1, o1 \in 0 .. 1 :
          OwedCost(r, <<b1, o1>>) + At(OwedEnd(m), OwedTo(r, <<b1, o1>>)) <= At(OwedEnd(n), <<b1, o1>>) + 0
    BY <1>1, <2>1, Sizes
  <2>3. m = 0 => \A b1, o1 \in 0 .. 1 :
          OwedCost(r, <<b1, o1>>) + At(OwedEnd(m), OwedTo(r, <<b1, o1>>)) <= At(OwedEnd(n), <<b1, o1>>) + Group
    BY <1>1, <2>1, Sizes
  <2>4. m = 0 /\ n = Group => Owing(Append(s, r), m, b, o) <= Owing(s, n, b, o) + 0
    BY <2>2, RequestSent
  <2>5. m = 0 => Owing(Append(s, r), m, b, o) <= Owing(s, n, b, o) + Group
    BY <2>3, RequestSent, Sizes
  <2>6. Owing(s, n, b, o) \in Nat /\ Owing(Append(s, r), m, b, o) \in Nat
    <3>1. Append(s, r) \in Queue(Message)
      BY AppendProperties DEF Queue
    <3>2. QED
      BY <3>1, OwingTyped
  <2>7. m = 0 /\ n = Group => Owing(Append(s, r), m, b, o) <= Owing(s, n, b, o)
    BY <2>4, <2>6
  <2>8. QED
    BY <1>6, <2>5, <2>7
<1>7. QED
  BY <1>3, <1>4, <1>5, <1>6

(* What losing a request costs.                                            *)
LEMMA OwedSmooth ==
    ASSUME NEW n \in {0, Group}, NEW y \in Standing, NEW z \in Standing
    PROVE  At(OwedEnd(n), y) <= At(OwedEnd(n), z) + Far(OwedFar, y, z)
<1>2. PICK b1 \in 0 .. 1, o1 \in 0 .. 1 : y = <<b1, o1>>
  BY Standings
<1>3. PICK b2 \in 0 .. 1, o2 \in 0 .. 1 : z = <<b2, o2>>
  BY Standings
<1>4. Far(OwedFar, y, z) = IF b1 <= b2 /\ o1 <= o2 THEN 0 ELSE Group
  BY <1>2, <1>3, OwedsFar, Standings
<1>5. /\ At(OwedEnd(n), y) = IF b1 = 1 THEN Group ELSE IF o1 = 1 THEN n ELSE 0
      /\ At(OwedEnd(n), z) = IF b2 = 1 THEN Group ELSE IF o2 = 1 THEN n ELSE 0
  BY <1>2, <1>3, OwedEnds
<1>6. QED
  BY <1>4, <1>5, Sizes

(* What a request paid for covers, all but one, what can differ without    *)
(* it.                                                                     *)
LEMMA LosingGap ==
    ASSUME NEW r \in Message, NEW z \in Standing
    PROVE  /\ Far(OwedFar, z, OwedTo(r, z)) <= OwedCost(r, z) + (Group - 1)
           /\ r.sid \in {"0x22", "flow_control"} => Far(OwedFar, z, OwedTo(r, z)) <= OwedCost(r, z) + 0
<1>2. PICK b1 \in 0 .. 1, o1 \in 0 .. 1 : z = <<b1, o1>> /\ z[1] = b1 /\ z[2] = o1
  BY Standings
<1>3. \A b2, o2 \in 0 .. 1 : Far(OwedFar, z, <<b2, o2>>) = IF b1 <= b2 /\ o1 <= o2 THEN 0 ELSE Group
  BY <1>2, OwedsFar, Standings
<1>7. 0 \in 0 .. 1 /\ 1 \in 0 .. 1
  OBVIOUS
<1>4. CASE r.sid = "flow_control"
  <2>1. /\ OwedCost(r, z) = IF o1 = 1 THEN Group ELSE 0
        /\ OwedTo(r, z) = IF o1 = 1 THEN <<0, 0>> ELSE <<b1, o1>>
    BY <1>2, <1>4 DEF OwedCost, OwedTo
  <2>2. Far(OwedFar, z, OwedTo(r, z)) = IF o1 = 1 THEN Group ELSE 0
    BY <1>3, <1>7, <2>1, Sizes
  <2>3. Far(OwedFar, z, OwedTo(r, z)) <= OwedCost(r, z) + (Group - 1)
    BY <2>1, <2>2, Sizes
  <2>4. Far(OwedFar, z, OwedTo(r, z)) <= OwedCost(r, z) + 0
    BY <2>1, <2>2, Sizes
  <2>5. QED
    BY <2>3, <2>4
<1>5. CASE r.sid = "0x22"
  <2>1. OwedCost(r, z) = 0 /\ OwedTo(r, z) = <<b1, 1>>
    BY <1>2, <1>5 DEF OwedCost, OwedTo
  <2>2. Far(OwedFar, z, OwedTo(r, z)) = 0
    BY <1>3, <1>7, <2>1
  <2>3. QED
    BY <2>1, <2>2, Sizes
<1>6. CASE r.sid \notin {"flow_control", "0x22"}
  <2>1. OwedCost(r, z) = IF r.sid = "0x10" THEN 1 ELSE 2
    BY <1>6 DEF OwedCost
  <2>2. OwedTo(r, z) = <<b1, 0>>
    BY <1>2, <1>6 DEF OwedTo
  <2>3. Far(OwedFar, z, OwedTo(r, z)) = IF o1 = 1 THEN Group ELSE 0
    BY <1>3, <1>7, <2>2
  <2>4. Far(OwedFar, z, OwedTo(r, z)) <= OwedCost(r, z) + (Group - 1)
    BY <2>1, <2>3, Sizes
  <2>5. QED
    BY <1>6, <2>4
<1>8. QED
  BY <1>4, <1>5, <1>6

(* So without one request the others cost no more than that.               *)
LEMMA LosingOne ==
    ASSUME NEW s \in Queue(Message), NEW i \in 1 .. Len(s), NEW r \in Message, r = s[i],
           NEW n \in {0, Group}, NEW c \in Int,
           \A z \in Standing : Far(OwedFar, z, OwedTo(r, z)) <= OwedCost(r, z) + c,
           NEW b \in 0 .. 1, NEW o \in 0 .. 1
    PROVE  Owing(RemoveAt(s, i), n, b, o) <= Owing(s, n, b, o) + c
<1>1. \A y, z \in Standing : At(OwedEnd(n), y) <= At(OwedEnd(n), z) + Far(OwedFar, y, z)
  BY OwedSmooth
<1>2. <<b, o>> \in Standing
  BY Standings
<1>3. \A z \in States(Owed) : Far(OwedFar, z, To(Owed, s[i], z)) <= Cost(Owed, s[i], z) + c
  BY OwedRead
<1>4. Total(RemoveAt(s, i), Owed, OwedEnd(n), <<b, o>>) <= Total(s, Owed, OwedEnd(n), <<b, o>>) + c
  BY <1>1, <1>2, <1>3, OwedRead, OwedsFar, OwedEnds, TotalRemoved
<1>5. QED
  BY <1>4 DEF Owing

(* A lost request makes the answers to the others cost less than Group     *)
(* more; a version request or flow control, nothing.                       *)
LEMMA LosingCosts ==
    ASSUME NEW s \in Queue(Message), NEW i \in 1 .. Len(s), NEW n \in {0, Group},
           NEW b \in 0 .. 1, NEW o \in 0 .. 1
    PROVE  /\ s[i] \in Message /\ RemoveAt(s, i) \in Queue(Message)
           /\ Owing(RemoveAt(s, i), n, b, o) <= Owing(s, n, b, o) + (Group - 1)
           /\ s[i].sid \in {"0x22", "flow_control"} => Owing(RemoveAt(s, i), n, b, o) <= Owing(s, n, b, o)
<1>1. s[i] \in Message /\ RemoveAt(s, i) \in Queue(Message)
  BY ElementOfSeq, RemovedOne DEF Queue
<1>2. PICK r \in Message : r = s[i]
  BY <1>1
<1>3. Group - 1 \in Int /\ 0 \in Int
  BY Sizes
<1>4. Owing(RemoveAt(s, i), n, b, o) <= Owing(s, n, b, o) + (Group - 1)
  BY <1>2, <1>3, LosingGap, LosingOne
<1>6. Owing(s, n, b, o) \in Nat
  BY OwingTyped
<1>5. ASSUME r.sid \in {"0x22", "flow_control"}
      PROVE  Owing(RemoveAt(s, i), n, b, o) <= Owing(s, n, b, o)
  <2>1. \A z \in Standing : Far(OwedFar, z, OwedTo(r, z)) <= OwedCost(r, z) + 0
    BY <1>5, LosingGap
  <2>2. Owing(RemoveAt(s, i), n, b, o) <= Owing(s, n, b, o) + 0
    BY <1>2, <1>3, <2>1, LosingOne
  <2>3. QED
    BY <1>6, <2>2
<1>7. QED
  BY <1>1, <1>2, <1>4, <1>5

(* A first consecutive frame that is awaited, and a request of another     *)
(* kind, cost something.                                                   *)
LEMMA OwingAtLeast ==
    ASSUME NEW s \in Queue(Message), NEW n \in {0, Group}, NEW b \in 0 .. 1, NEW o \in 0 .. 1
    PROVE  /\ Owing(s, n, b, o) >= b * Group
           /\ (\E i \in 1 .. Len(s) : s[i].sid \notin {"0x22", "flow_control"})
              => Owing(s, n, b, o) >= b * Group + 1
<1> DEFINE l == [z \in Standing |-> IF z[1] = 1 THEN Group ELSE 0]
<1>1. l \in Prices(Owed) /\ \A b1, o1 \in 0 .. 1 : At(l, <<b1, o1>>) = IF b1 = 1 THEN Group ELSE 0
  <2>1. l \in [Standing -> Nat]
    BY Sizes
  <2>2. \A b1, o1 \in 0 .. 1 : l[<<b1, o1>>] = IF b1 = 1 THEN Group ELSE 0
    BY Standings
  <2>3. QED
    BY <2>1, <2>2, OwedRead DEF Prices, At, States
<1> HIDE DEF l
<1>2. \A z \in Standing : At(l, z) <= At(OwedEnd(n), z)
  <2>1. SUFFICES ASSUME NEW z \in Standing PROVE At(l, z) <= At(OwedEnd(n), z)
    OBVIOUS
  <2>2. PICK b1 \in 0 .. 1, o1 \in 0 .. 1 : z = <<b1, o1>>
    BY Standings
  <2>3. At(OwedEnd(n), z) = IF b1 = 1 THEN Group ELSE IF o1 = 1 THEN n ELSE 0
    BY <2>2, OwedEnds
  <2>4. At(l, z) = IF b1 = 1 THEN Group ELSE 0
    BY <1>1, <2>2
  <2>5. QED
    BY <2>3, <2>4, Sizes
<1>3. ASSUME NEW r \in Message, NEW z \in Standing
      PROVE  /\ At(l, z) <= OwedCost(r, z) + At(l, OwedTo(r, z))
             /\ r.sid \notin {"0x22", "flow_control"} => At(l, z) + 1 <= OwedCost(r, z) + At(l, OwedTo(r, z))
  <2>1. PICK b1 \in 0 .. 1, o1 \in 0 .. 1 : z = <<b1, o1>> /\ z[1] = b1 /\ z[2] = o1
    BY Standings
  <2>2. At(l, z) = IF b1 = 1 THEN Group ELSE 0
    BY <1>1, <2>1
  <2>7. /\ \A o2 \in 0 .. 1 : At(l, <<b1, o2>>) = IF b1 = 1 THEN Group ELSE 0
        /\ At(l, <<0, 0>>) = 0 /\ 0 \in 0 .. 1 /\ 1 \in 0 .. 1
    BY <1>1
  <2>3. CASE r.sid = "flow_control"
    <3>1. /\ OwedCost(r, z) = IF o1 = 1 THEN Group ELSE 0
          /\ OwedTo(r, z) = IF o1 = 1 THEN <<0, 0>> ELSE <<b1, o1>>
      BY <2>1, <2>3 DEF OwedCost, OwedTo
    <3>2. At(l, OwedTo(r, z)) = IF o1 = 1 THEN 0 ELSE IF b1 = 1 THEN Group ELSE 0
      BY <2>7, <3>1
    <3>3. At(l, z) <= OwedCost(r, z) + At(l, OwedTo(r, z))
      BY <2>2, <3>1, <3>2, Sizes
    <3>4. QED
      BY <2>3, <3>3
  <2>4. CASE r.sid = "0x22"
    <3>1. OwedCost(r, z) = 0 /\ OwedTo(r, z) = <<b1, 1>>
      BY <2>1, <2>4 DEF OwedCost, OwedTo
    <3>2. At(l, OwedTo(r, z)) = IF b1 = 1 THEN Group ELSE 0
      BY <2>7, <3>1
    <3>3. At(l, z) <= OwedCost(r, z) + At(l, OwedTo(r, z))
      BY <2>2, <3>1, <3>2, Sizes
    <3>4. QED
      BY <2>4, <3>3
  <2>5. CASE r.sid \notin {"flow_control", "0x22"}
    <3>1. OwedCost(r, z) = IF r.sid = "0x10" THEN 1 ELSE 2
      BY <2>5 DEF OwedCost
    <3>2. OwedTo(r, z) = <<b1, 0>>
      BY <2>1, <2>5 DEF OwedTo
    <3>3. At(l, OwedTo(r, z)) = IF b1 = 1 THEN Group ELSE 0
      BY <2>7, <3>2
    <3>4. /\ At(l, z) + 1 <= OwedCost(r, z) + At(l, OwedTo(r, z))
          /\ At(l, z) <= OwedCost(r, z) + At(l, OwedTo(r, z))
      BY <2>2, <3>1, <3>3, Sizes
    <3>5. QED
      BY <2>5, <3>4
  <2>6. QED
    BY <2>3, <2>4, <2>5
<1>4. ASSUME NEW r \in Message, NEW z \in Standing
      PROVE  /\ At(l, z) <= Cost(Owed, r, z) + At(l, To(Owed, r, z))
             /\ r.sid \notin {"0x22", "flow_control"} => At(l, z) + 1 <= Cost(Owed, r, z) + At(l, To(Owed, r, z))
  BY <1>3, OwedRead
<1>5. <<b, o>> \in Standing
  BY Standings
<1>6. \A r \in Reads(Owed) : \A z \in States(Owed) : At(l, z) <= Cost(Owed, r, z) + At(l, To(Owed, r, z))
  BY <1>4, OwedRead
<1>7. \A i \in 1 .. Len(s) : s[i] \in Message
  BY ElementOfSeq DEF Queue
<1>8. /\ At(l, <<b, o>>) <= Total(s, Owed, OwedEnd(n), <<b, o>>)
      /\ (\E i \in 1 .. Len(s) : \A z \in States(Owed) : At(l, z) + 1 <= Cost(Owed, s[i], z) + At(l, To(Owed, s[i], z)))
           => At(l, <<b, o>>) + 1 <= Total(s, Owed, OwedEnd(n), <<b, o>>)
  BY <1>1, <1>2, <1>5, <1>6, OwedRead, OwedEnds, TotalAtLeast
<1>9. At(l, <<b, o>>) = b * Group
  BY <1>1, Sizes
<1>10. ASSUME NEW i \in 1 .. Len(s), s[i].sid \notin {"0x22", "flow_control"}
       PROVE  \A z \in States(Owed) : At(l, z) + 1 <= Cost(Owed, s[i], z) + At(l, To(Owed, s[i], z))
  BY <1>4, <1>7, <1>10, OwedRead
<1>11. Owing(s, n, b, o) \in Nat
  BY OwingTyped
<1>12. b * Group \in Nat
  BY Sizes
<1>13. QED
  BY <1>8, <1>9, <1>10, <1>11, <1>12 DEF Owing

-----------------------------------------------------------------------------
(* How the costs change when the ends or the queues do.                    *)

(* The "pending" answers at the end change.                                *)
LEMMA RunsEnd ==
    ASSUME NEW gw \in Queue(Frame), NEW h \in Run, NEW i \in Run, NEW x \in Run, NEW y \in Run
    PROVE  /\ InRuns(gw, i, x) <= InRuns(gw, h, y) + 4
           /\ h <= i => InRuns(gw, i, x) <= InRuns(gw, h, y) + 2
           /\ x <= y => InRuns(gw, i, x) <= InRuns(gw, h, y) + 2
           /\ h <= i /\ x <= y => InRuns(gw, i, x) <= InRuns(gw, h, y)
<1> DEFINE Gap(j, k) == IF j <= k THEN 0 ELSE 2
<1>1. \A j, k \in Run : Far(RunFar, j, k) = Gap(j, k) /\ Gap(j, k) \in 0 .. 2
  BY RunsFar
<1>2. \A j, k \in Run : At(RunEnd(i), j) <= At(RunEnd(h), k) + Gap(j, k) + Gap(h, i)
  <2>1. SUFFICES ASSUME NEW j \in Run, NEW k \in Run
                 PROVE  At(RunEnd(i), j) <= At(RunEnd(h), k) + Gap(j, k) + Gap(h, i)
    OBVIOUS
  <2>2. /\ At(RunEnd(i), j) = IF j > i THEN 2 ELSE 0
        /\ At(RunEnd(h), k) = IF k > h THEN 2 ELSE 0
    BY RunEnds
  <2>3. QED
    BY <2>2, Sizes DEF Run
<1>3. Gap(h, i) \in Int
  OBVIOUS
<1>4. Total(gw, Runs, RunEnd(i), x) <= Total(gw, Runs, RunEnd(h), y) + Gap(x, y) + Gap(h, i)
  <2> HIDE DEF Gap
  <2>1. \A j, k \in States(Runs) : At(RunEnd(i), j) <= At(RunEnd(h), k) + Far(RunFar, j, k) + Gap(h, i)
    BY <1>1, <1>2, RunsRead
  <2>2. Total(gw, Runs, RunEnd(i), x) <= Total(gw, Runs, RunEnd(h), y) + Far(RunFar, x, y) + Gap(h, i)
    BY <1>3, <2>1, RunsRead, RunsFar, RunEnds, TotalEnd
  <2>3. QED
    BY <1>1, <2>2
<1>5. InRuns(gw, i, x) \in Nat /\ InRuns(gw, h, y) \in Nat
  BY RunsTyped
<1>6. InRuns(gw, i, x) <= InRuns(gw, h, y) + Gap(x, y) + Gap(h, i)
  BY <1>4 DEF InRuns
<1>7. QED
  BY <1>5, <1>6

(* An answer more.                                                         *)
LEMMA RunsAppended ==
    ASSUME NEW gw \in Queue(Frame), NEW f \in Frame, NEW h \in Run, NEW i \in Run, NEW x \in Run
    PROVE  /\ Append(gw, f) \in Queue(Frame)
           /\ f.kind # "pending" => InRuns(Append(gw, f), i, x) <= InRuns(gw, h, x)
           /\ f.kind = "pending" /\ i = h + 1 => InRuns(Append(gw, f), i, x) <= InRuns(gw, h, x)
           /\ f.kind = "pending" /\ i = h => InRuns(Append(gw, f), i, x) <= InRuns(gw, h, x) + 2
<1>1. Append(gw, f) \in Queue(Frame)
  BY AppendProperties DEF Queue
<1> DEFINE Fits(c) == \A p, q \in Run :
             RunCost(f, p) + At(RunEnd(i), RunTo(f, p)) <= At(RunEnd(h), q) + Far(RunFar, p, q) + c
<1>2. ASSUME NEW c \in Int, Fits(c) PROVE InRuns(Append(gw, f), i, x) <= InRuns(gw, h, x) + c
  <2>1. \A p, q \in States(Runs) :
          Cost(Runs, f, p) + At(RunEnd(i), To(Runs, f, p)) <= At(RunEnd(h), q) + Far(RunFar, p, q) + c
    BY <1>2, RunsRead
  <2> HIDE DEF Fits
  <2>2. Total(Append(gw, f), Runs, RunEnd(i), x) <= Total(gw, Runs, RunEnd(h), x) + Far(RunFar, x, x) + c
    BY <2>1, RunsRead, RunsFar, RunEnds, TotalAppended
  <2>3. Far(RunFar, x, x) = 0
    BY RunsFar, Sizes DEF Run
  <2>4. Total(gw, Runs, RunEnd(h), x) \in Nat
    BY RunsTyped DEF InRuns
  <2>5. QED
    BY <2>2, <2>3, <2>4 DEF InRuns
<1>3. ASSUME f.kind # "pending" PROVE Fits(0)
  <2>1. SUFFICES ASSUME NEW p \in Run, NEW q \in Run
                 PROVE RunCost(f, p) + At(RunEnd(i), RunTo(f, p)) <= At(RunEnd(h), q) + Far(RunFar, p, q) + 0
    OBVIOUS
  <2>2. RunCost(f, p) = 0 /\ RunTo(f, p) = 0 /\ 0 \in Run
    BY <1>3, Sizes DEF RunCost, RunTo, Run
  <2>3. /\ At(RunEnd(i), 0) = IF 0 > i THEN 2 ELSE 0
        /\ At(RunEnd(h), q) = IF q > h THEN 2 ELSE 0
        /\ Far(RunFar, p, q) = IF p <= q THEN 0 ELSE 2
    BY <2>2, RunEnds, RunsFar
  <2>4. QED
    BY <2>2, <2>3, Sizes DEF Run
<1>4. ASSUME f.kind = "pending", NEW p \in Run, NEW q \in Run
      PROVE  /\ RunCost(f, p) = IF p = MaxPending THEN 2 ELSE 0
             /\ At(RunEnd(i), RunTo(f, p)) = IF p < MaxPending /\ p + 1 > i THEN 2 ELSE 0
             /\ At(RunEnd(h), q) = IF q > h THEN 2 ELSE 0
             /\ Far(RunFar, p, q) = IF p <= q THEN 0 ELSE 2
  <2>1. RunCost(f, p) = (IF p = MaxPending THEN 2 ELSE 0) /\ RunTo(f, p) = (IF p < MaxPending THEN p + 1 ELSE 0)
    BY <1>4 DEF RunCost, RunTo
  <2>2. RunTo(f, p) \in Run
    BY <2>1, Sizes DEF Run
  <2>3. At(RunEnd(i), RunTo(f, p)) = IF RunTo(f, p) > i THEN 2 ELSE 0
    BY <2>2, RunEnds
  <2>4. At(RunEnd(i), RunTo(f, p)) = IF p < MaxPending /\ p + 1 > i THEN 2 ELSE 0
    BY <2>1, <2>3, Sizes DEF Run
  <2>5. QED
    BY <2>1, <2>4, RunEnds, RunsFar
<1>5. ASSUME f.kind = "pending", i = h + 1 PROVE Fits(0)
  <2>1. SUFFICES ASSUME NEW p \in Run, NEW q \in Run
                 PROVE RunCost(f, p) + At(RunEnd(i), RunTo(f, p)) <= At(RunEnd(h), q) + Far(RunFar, p, q) + 0
    OBVIOUS
  <2>2. QED
    BY <1>4, <1>5, Sizes DEF Run
<1>6. ASSUME f.kind = "pending", i = h PROVE Fits(2)
  <2>1. SUFFICES ASSUME NEW p \in Run, NEW q \in Run
                 PROVE RunCost(f, p) + At(RunEnd(i), RunTo(f, p)) <= At(RunEnd(h), q) + Far(RunFar, p, q) + 2
    OBVIOUS
  <2>2. QED
    BY <1>4, <1>6, Sizes DEF Run
<1>7. InRuns(gw, h, x) \in Nat /\ InRuns(Append(gw, f), i, x) \in Nat
  <2>1. PICK y \in Queue(Frame) : y = Append(gw, f)
    BY <1>1
  <2>2. QED
    BY <2>1, RunsTyped
<1> HIDE DEF Fits
<1>8. f.kind # "pending" => InRuns(Append(gw, f), i, x) <= InRuns(gw, h, x) + 0
  BY <1>2, <1>3
<1>9. f.kind = "pending" /\ i = h + 1 => InRuns(Append(gw, f), i, x) <= InRuns(gw, h, x) + 0
  BY <1>2, <1>5
<1>10. f.kind = "pending" /\ i = h => InRuns(Append(gw, f), i, x) <= InRuns(gw, h, x) + 2
  BY <1>2, <1>6
<1>11. QED
  BY <1>1, <1>7, <1>8, <1>9, <1>10

(* An answer less.                                                         *)
LEMMA RunsRemoved ==
    ASSUME NEW gw \in Queue(Frame), NEW i \in 1 .. Len(gw), NEW h \in Run, NEW x \in Run
    PROVE  /\ gw[i] \in Frame /\ RemoveAt(gw, i) \in Queue(Frame)
           /\ InRuns(RemoveAt(gw, i), h, x) <= InRuns(gw, h, x) + 2
<1>1. gw[i] \in Frame /\ RemoveAt(gw, i) \in Queue(Frame)
  BY ElementOfSeq, RemovedOne DEF Queue
<1>2. PICK f \in Frame : f = gw[i]
  BY <1>1
<1>3. ASSUME NEW p \in Run, NEW q \in Run
      PROVE  At(RunEnd(h), p) <= At(RunEnd(h), q) + Far(RunFar, p, q)
  <2>1. /\ At(RunEnd(h), p) = IF p > h THEN 2 ELSE 0
        /\ At(RunEnd(h), q) = IF q > h THEN 2 ELSE 0
        /\ Far(RunFar, p, q) = IF p <= q THEN 0 ELSE 2
    BY RunEnds, RunsFar
  <2>2. QED
    BY <2>1, Sizes DEF Run
<1>4. ASSUME NEW q \in Run
      PROVE  Far(RunFar, q, RunTo(f, q)) <= RunCost(f, q) + 2
  <2>1. RunCost(f, q) \in Nat /\ RunTo(f, q) \in Run
    BY Sizes DEF RunCost, RunTo, Run
  <2>2. Far(RunFar, q, RunTo(f, q)) \in 0 .. 2
    BY <2>1, RunsFar
  <2>3. QED
    BY <2>1, <2>2
<1>5. \A q \in States(Runs) : Far(RunFar, q, To(Runs, gw[i], q)) <= Cost(Runs, gw[i], q) + 2
  BY <1>2, <1>4, RunsRead
<1>6. 2 \in Int
  OBVIOUS
<1>7. Total(RemoveAt(gw, i), Runs, RunEnd(h), x) <= Total(gw, Runs, RunEnd(h), x) + 2
  BY <1>3, <1>5, <1>6, RunsRead, RunsFar, RunEnds, TotalRemoved
<1>8. QED
  BY <1>1, <1>7 DEF InRuns

-----------------------------------------------------------------------------
(* What Groups ends with.                                                  *)
LEMMA GroupEnds ==
    ASSUME NEW s \in Queue(Message), NEW o \in 0 .. 1, NEW n \in {0, Group}
    PROVE  /\ GroupEnd(s, o, n) \in Prices(Groups)
           /\ \A g \in Place :
                At(GroupEnd(s, o, n), g) = Owing(s, n, N(g = 1), o) + (IF g \in Middle THEN Group ELSE 0)
<1> DEFINE v(g) == Owing(s, n, N(g = 1), o) + (IF g \in Middle THEN Group ELSE 0)
<1>1. ASSUME NEW g \in Place PROVE v(g) \in Nat
  <2>1. N(g = 1) \in 0 .. 1
    BY DEF N
  <2>2. Owing(s, n, N(g = 1), o) \in Nat
    BY <2>1, OwingTyped
  <2>3. QED
    BY <2>2, Sizes
<1>2. GroupEnd(s, o, n) = [g \in Place |-> v(g)]
  BY DEF GroupEnd, Owing
<1> HIDE DEF v
<1>3. GroupEnd(s, o, n) \in [Place -> Nat] /\ \A g \in Place : GroupEnd(s, o, n)[g] = v(g)
  BY <1>1, <1>2
<1>4. QED
  BY <1>3, GroupsRead DEF Prices, At, States, v

(* Owing with the first frame awaited or not.                              *)
LEMMA OwingPlaces ==
    ASSUME NEW s \in Queue(Message), NEW o \in 0 .. 1, NEW n \in {0, Group}
    PROVE  /\ Owing(s, n, 0, o) \in Nat /\ Owing(s, n, 1, o) \in Nat
           /\ Owing(s, n, 0, o) <= Owing(s, n, 1, o) /\ Owing(s, n, 1, o) <= Owing(s, n, 0, o) + Group
<1>1. 0 \in 0 .. 1 /\ 1 \in 0 .. 1
  OBVIOUS
<1>2. QED
  BY <1>1, OwingTyped, OwingLess

(* The answers still owed cost no more from a place than GroupGap says.    *)
LEMMA GroupEndSmooth ==
    ASSUME NEW s \in Queue(Message), NEW o \in 0 .. 1, NEW n \in {0, Group}
    PROVE  Smooth(GroupEnd(s, o, n))
<1>1. PICK u \in Nat : u = Owing(s, n, 0, o)
  BY OwingPlaces
<1>2. PICK w \in Nat : w = Owing(s, n, 1, o)
  BY OwingPlaces
<1>3. u <= w /\ w <= u + Group
  BY <1>1, <1>2, OwingPlaces
<1>4. ASSUME NEW g \in Place
      PROVE  At(GroupEnd(s, o, n), g) = (IF g = 1 THEN w ELSE u) + (IF g \in Middle THEN Group ELSE 0)
  BY <1>1, <1>2, GroupEnds DEF N
<1>5. ASSUME NEW p \in Place, NEW q \in Place
      PROVE  At(GroupEnd(s, o, n), p) <= At(GroupEnd(s, o, n), q) + GroupGap(Group, p, q)
  <2>1. (IF p = 1 THEN w ELSE u) + (IF p \in Middle THEN Group ELSE 0)
          <= (IF q = 1 THEN w ELSE u) + (IF q \in Middle THEN Group ELSE 0) + GroupGap(Group, p, q)
    BY <1>3, Sizes, Places DEF GroupGap, Nearer, Middle, Skip
  <2>2. QED
    BY <1>4, <2>1
<1>6. QED
  BY <1>5, GroupEnds DEF Smooth

(* The client is at another place, and something else is owed.             *)
LEMMA GroupsMoved ==
    ASSUME NEW gw \in Queue(Frame), NEW x \in {0, Group}, NEW e \in Prices(Groups), NEW f \in Prices(Groups),
           NEW c \in Int, \A p, q \in Place : At(f, p) <= At(e, q) + GroupGap(x, p, q) + c,
           NEW p \in Place, NEW q \in Place
    PROVE  InGroups(gw, f, p) <= InGroups(gw, e, q) + GroupGap(x, p, q) + c
<1>1. \A g, h \in States(Groups) : At(f, g) <= At(e, h) + Far(GroupFar(x), g, h) + c
  BY GroupsFar, GroupsRead
<1>2. Total(gw, Groups, f, p) <= Total(gw, Groups, e, q) + Far(GroupFar(x), p, q) + c
  BY <1>1, GroupsRead, GroupsFar, TotalEnd
<1>3. QED
  BY <1>2, GroupsFar DEF InGroups

(* What is owed changes by c.                                              *)
LEMMA GroupsOwe ==
    ASSUME NEW gw \in Queue(Frame),
           NEW s \in Queue(Message), NEW o \in 0 .. 1, NEW n \in {0, Group},
           NEW t \in Queue(Message), NEW i \in 0 .. 1, NEW m \in {0, Group},
           NEW c \in Int, \A b \in 0 .. 1 : Owing(t, m, b, i) <= Owing(s, n, b, o) + c,
           NEW p \in Place, NEW q \in Place
    PROVE  /\ InGroups(gw, GroupEnd(t, i, m), p) \in Nat /\ InGroups(gw, GroupEnd(s, o, n), q) \in Nat
           /\ InGroups(gw, GroupEnd(t, i, m), p) <= InGroups(gw, GroupEnd(s, o, n), q) + GroupGap(Group, p, q) + c
<1>1. PICK e \in Prices(Groups) : e = GroupEnd(s, o, n)
  BY GroupEnds
<1>2. PICK f \in Prices(Groups) : f = GroupEnd(t, i, m)
  BY GroupEnds
<1>3. Group \in {0, Group}
  OBVIOUS
<1>4. ASSUME NEW g \in Place, NEW h \in Place
      PROVE  At(f, g) <= At(e, h) + GroupGap(Group, g, h) + c
  <2>1. At(e, g) <= At(e, h) + GroupGap(Group, g, h)
    BY <1>1, GroupEndSmooth DEF Smooth
  <2>2. PICK b \in 0 .. 1 : b = N(g = 1)
    BY DEF N
  <2>3. PICK k \in Nat : k = IF g \in Middle THEN Group ELSE 0
    BY Sizes
  <2>4. At(e, g) = Owing(s, n, b, o) + k /\ At(f, g) = Owing(t, m, b, i) + k
    BY <1>1, <1>2, <2>2, <2>3, GroupEnds
  <2>5. Owing(t, m, b, i) <= Owing(s, n, b, o) + c
    OBVIOUS
  <2>6. Owing(t, m, b, i) \in Nat /\ Owing(s, n, b, o) \in Nat
    BY OwingTyped
  <2>7. At(e, h) \in Nat /\ GroupGap(Group, g, h) \in Nat
    BY <1>3, GroupsFar, GroupsRead, Stops
  <2>8. QED
    BY <2>1, <2>4, <2>5, <2>6, <2>7
<1>5. InGroups(gw, f, p) <= InGroups(gw, e, q) + GroupGap(Group, p, q) + c
  BY <1>3, <1>4, GroupsMoved
<1>6. InGroups(gw, f, p) \in Nat /\ InGroups(gw, e, q) \in Nat
  BY GroupsTyped
<1>7. QED
  BY <1>1, <1>2, <1>5, <1>6

(* The places one can be moved to for nothing, and for a group.            *)
LEMMA GroupsApart ==
    ASSUME NEW gw \in Queue(Frame), NEW s \in Queue(Message), NEW o \in 0 .. 1, NEW n \in {0, Group},
           NEW p \in Place, NEW q \in Place
    PROVE  /\ InGroups(gw, GroupEnd(s, o, n), p) \in Nat /\ InGroups(gw, GroupEnd(s, o, n), q) \in Nat
           /\ Nearer(p, q) => InGroups(gw, GroupEnd(s, o, n), p) <= InGroups(gw, GroupEnd(s, o, n), q)
           /\ q # Skip => InGroups(gw, GroupEnd(s, o, n), p) <= InGroups(gw, GroupEnd(s, o, n), q) + Group
<1>1. \A b \in 0 .. 1 : Owing(s, n, b, o) <= Owing(s, n, b, o) + 0
  BY OwingTyped
<1>2. /\ InGroups(gw, GroupEnd(s, o, n), p) \in Nat /\ InGroups(gw, GroupEnd(s, o, n), q) \in Nat
      /\ InGroups(gw, GroupEnd(s, o, n), p) <= InGroups(gw, GroupEnd(s, o, n), q) + GroupGap(Group, p, q) + 0
  BY <1>1, GroupsOwe
<1>3. /\ Nearer(p, q) => GroupGap(Group, p, q) = 0
      /\ q # Skip => GroupGap(Group, p, q) \in {0, Group}
  BY DEF GroupGap
<1>4. QED
  BY <1>2, <1>3, Sizes

(* An answer more.                                                         *)
LEMMA GroupsAppended ==
    ASSUME NEW gw \in Queue(Frame), NEW a \in Frame,
           NEW s \in Queue(Message), NEW o \in 0 .. 1, NEW n \in {0, Group},
           NEW t \in Queue(Message), NEW i \in 0 .. 1, NEW m \in {0, Group}, NEW c \in Int,
           \A g \in Place : GroupCost(a, g) + At(GroupEnd(t, i, m), GroupTo(a, g)) <= At(GroupEnd(s, o, n), g) + c,
           NEW p \in Place
    PROVE  /\ Append(gw, a) \in Queue(Frame)
           /\ InGroups(Append(gw, a), GroupEnd(t, i, m), p) \in Nat /\ InGroups(gw, GroupEnd(s, o, n), p) \in Nat
           /\ InGroups(Append(gw, a), GroupEnd(t, i, m), p) <= InGroups(gw, GroupEnd(s, o, n), p) + c
<1>1. PICK e \in Prices(Groups) : e = GroupEnd(s, o, n)
  BY GroupEnds
<1>2. PICK f \in Prices(Groups) : f = GroupEnd(t, i, m)
  BY GroupEnds
<1>3. Group \in {0, Group}
  OBVIOUS
<1>4. ASSUME NEW g \in Place, NEW h \in Place
      PROVE  GroupCost(a, g) + At(f, GroupTo(a, g)) <= At(e, h) + GroupGap(Group, g, h) + c
  <2>1. At(e, g) <= At(e, h) + GroupGap(Group, g, h)
    BY <1>1, GroupEndSmooth DEF Smooth
  <2>2. GroupCost(a, g) + At(f, GroupTo(a, g)) <= At(e, g) + c
    BY <1>1, <1>2
  <2>3. GroupCost(a, g) \in Nat /\ GroupTo(a, g) \in Place
    BY GroupTyped
  <2>4. At(f, GroupTo(a, g)) \in Nat /\ At(e, g) \in Nat /\ At(e, h) \in Nat /\ GroupGap(Group, g, h) \in Nat
    BY <1>3, <2>3, GroupsFar, GroupsRead, Stops
  <2>5. QED
    BY <2>1, <2>2, <2>3, <2>4
<1>5. \A g, h \in States(Groups) :
        Cost(Groups, a, g) + At(f, To(Groups, a, g)) <= At(e, h) + Far(GroupFar(Group), g, h) + c
  BY <1>3, <1>4, GroupsRead, GroupsFar
<1>6. Total(Append(gw, a), Groups, f, p) <= Total(gw, Groups, e, p) + Far(GroupFar(Group), p, p) + c
  BY <1>3, <1>5, GroupsRead, GroupsFar, TotalAppended
<1>7. Far(GroupFar(Group), p, p) = 0
  BY <1>3, GroupsFar DEF GroupGap, Nearer
<1>8. PICK y \in Queue(Frame) : y = Append(gw, a)
  BY AppendProperties DEF Queue
<1>9. InGroups(y, f, p) \in Nat /\ InGroups(gw, e, p) \in Nat
  BY GroupsTyped
<1>10. InGroups(y, f, p) <= InGroups(gw, e, p) + 0 + c
  BY <1>6, <1>7, <1>8 DEF InGroups
<1>11. QED
  BY <1>1, <1>2, <1>8, <1>9, <1>10

(* A single frame answer more.                                             *)
LEMMA SingleAppended ==
    ASSUME NEW gw \in Queue(Frame), NEW a \in Frame, a.kind \in {"pending", "negative", "positive"},
           NEW s \in Queue(Message), NEW o \in 0 .. 1, NEW n \in {0, Group},
           NEW t \in Queue(Message), NEW i \in 0 .. 1, NEW m \in {0, Group}, NEW c \in Int,
           \A b \in 0 .. 1 : GroupCost(a, 0) + Owing(t, m, b, i) <= Owing(s, n, b, o) + c,
           NEW p \in Place
    PROVE  /\ Append(gw, a) \in Queue(Frame)
           /\ InGroups(Append(gw, a), GroupEnd(t, i, m), p) \in Nat /\ InGroups(gw, GroupEnd(s, o, n), p) \in Nat
           /\ InGroups(Append(gw, a), GroupEnd(t, i, m), p) <= InGroups(gw, GroupEnd(s, o, n), p) + c
<1>1. 0 \in Place
  BY Sizes DEF Place, Skip
<1>2. PICK k \in Nat : k = GroupCost(a, 0)
  BY <1>1, GroupTyped
<1>3. \A g \in Place : GroupCost(a, g) = k /\ GroupTo(a, g) = g
  BY <1>2 DEF GroupCost, GroupTo
<1>4. ASSUME NEW g \in Place
      PROVE  GroupCost(a, g) + At(GroupEnd(t, i, m), GroupTo(a, g)) <= At(GroupEnd(s, o, n), g) + c
  <2>1. PICK b \in 0 .. 1 : b = N(g = 1)
    BY DEF N
  <2>2. PICK w \in Nat : w = IF g \in Middle THEN Group ELSE 0
    BY Sizes
  <2>3. At(GroupEnd(t, i, m), g) = Owing(t, m, b, i) + w /\ At(GroupEnd(s, o, n), g) = Owing(s, n, b, o) + w
    BY <2>1, <2>2, GroupEnds
  <2>4. Owing(t, m, b, i) \in Nat /\ Owing(s, n, b, o) \in Nat
    BY OwingTyped
  <2>5. k + Owing(t, m, b, i) <= Owing(s, n, b, o) + c
    BY <1>2
  <2>6. k + (Owing(t, m, b, i) + w) <= (Owing(s, n, b, o) + w) + c
    BY <2>4, <2>5
  <2>7. QED
    BY <1>3, <2>3, <2>6
<1>5. QED
  BY <1>4, GroupsAppended

(* The beginning of a version more.                                        *)
LEMMA FirstAppended ==
    ASSUME NEW gw \in Queue(Frame), NEW a \in Frame, a.kind = "first",
           NEW s \in Queue(Message), s # <<>>, Head(s).sid = "0x22",
           NEW o \in 0 .. 1, NEW n \in {0, Group}, NEW p \in Place
    PROVE  /\ InGroups(Append(gw, a), GroupEnd(Tail(s), 1, n), p) \in Nat
           /\ InGroups(gw, GroupEnd(s, o, n), p) \in Nat
           /\ InGroups(Append(gw, a), GroupEnd(Tail(s), 1, n), p) <= InGroups(gw, GroupEnd(s, o, n), p)
<1>1. PICK t \in Queue(Message) : t = Tail(s)
  BY RequestRead
<1>2. 0 \in 0 .. 1 /\ 1 \in 0 .. 1
  OBVIOUS
<1>3. \A b \in 0 .. 1 : Owing(s, n, b, o) = Owing(t, n, b, 1)
  BY <1>1, RequestRead
<1>4. ASSUME NEW g \in Place
      PROVE  GroupCost(a, g) + At(GroupEnd(t, 1, n), GroupTo(a, g)) <= At(GroupEnd(s, o, n), g) + 0
  <2>1. /\ GroupCost(a, g) = IF g \in Middle THEN Group ELSE 0
        /\ GroupTo(a, g) = OnFirst(g)
    BY DEF GroupCost, GroupTo
  <2>2. OnFirst(g) \in Place
    BY Places
  <2>3. /\ OnFirst(g) \notin Middle /\ (OnFirst(g) = 1 <=> g = 1)
    BY Sizes DEF OnFirst, Middle
  <2>4. PICK b \in 0 .. 1 : b = N(g = 1) /\ b = N(OnFirst(g) = 1)
    BY <2>3 DEF N
  <2>5. PICK w \in Nat : w = IF g \in Middle THEN Group ELSE 0
    BY Sizes
  <2>6. PICK u \in Nat : u = Owing(t, n, b, 1)
    BY <1>2, OwingTyped
  <2>7. At(GroupEnd(t, 1, n), OnFirst(g)) = u + 0 /\ At(GroupEnd(s, o, n), g) = u + w
    BY <1>2, <1>3, <2>2, <2>3, <2>4, <2>5, <2>6, GroupEnds
  <2>8. QED
    BY <2>1, <2>5, <2>7
<1>5. PICK k \in Int : k = 0
  OBVIOUS
<1>6. \A g \in Place : GroupCost(a, g) + At(GroupEnd(t, 1, n), GroupTo(a, g)) <= At(GroupEnd(s, o, n), g) + k
  BY <1>4, <1>5
<1>7. /\ InGroups(Append(gw, a), GroupEnd(t, 1, n), p) \in Nat /\ InGroups(gw, GroupEnd(s, o, n), p) \in Nat
      /\ InGroups(Append(gw, a), GroupEnd(t, 1, n), p) <= InGroups(gw, GroupEnd(s, o, n), p) + k
  BY <1>2, <1>6, GroupsAppended
<1>8. QED
  BY <1>1, <1>5, <1>7

-----------------------------------------------------------------------------
(* The consecutive frames from number k to the last.                       *)
Rest(x, k) ==
    /\ x \in Queue(Frame) /\ k \in 1 .. After /\ Len(x) = After - k
    /\ \A i \in 1 .. Len(x) : x[i].kind = "consecutive" /\ x[i].sn = k + i - 1

(* What is left of the frames of an answer when one of them is read.       *)
LEMMA RestRead ==
    ASSUME NEW x, NEW k, Rest(x, k)
    PROVE  /\ x \in Queue(Frame) /\ k \in 1 .. After
           /\ x = <<>> <=> k = After
           /\ x # <<>> => /\ Head(x) \in Frame /\ Head(x).kind = "consecutive" /\ Head(x).sn = k
                          /\ Rest(Tail(x), k + 1)
<1>1. x \in Queue(Frame) /\ k \in 1 .. After /\ Len(x) = After - k /\ After \in Nat
  BY Sizes DEF Rest
<1>2. Len(x) \in Nat /\ (x # <<>> => Len(x) >= 1) /\ (x = <<>> => Len(x) = 0)
  BY <1>1, Queues
<1>3. ASSUME x # <<>>
      PROVE  /\ Head(x) \in Frame /\ Head(x).kind = "consecutive" /\ Head(x).sn = k
             /\ Rest(Tail(x), k + 1)
  <2>1. /\ Head(x) = x[1] /\ Head(x) \in Frame /\ Tail(x) \in Queue(Frame) /\ Len(Tail(x)) = Len(x) - 1
        /\ \A i \in 1 .. Len(x) - 1 : Tail(x)[i] = x[i + 1]
    BY <1>1, <1>3, Queues
  <2>2. \A i \in 1 .. Len(x) : x[i].kind = "consecutive" /\ x[i].sn = k + i - 1
    BY DEF Rest
  <2>3. x[1].kind = "consecutive" /\ x[1].sn = k
    BY <1>1, <1>2, <1>3, <2>2
  <2>4. ASSUME NEW i \in 1 .. Len(Tail(x))
        PROVE  Tail(x)[i].kind = "consecutive" /\ Tail(x)[i].sn = (k + 1) + i - 1
    <3>1. i \in 1 .. Len(x) - 1 /\ i + 1 \in 1 .. Len(x) /\ k + (i + 1) - 1 = (k + 1) + i - 1
      BY <1>1, <1>2, <2>1
    <3>2. QED
      BY <2>1, <2>2, <3>1
  <2>5. k + 1 \in 1 .. After /\ Len(Tail(x)) = After - (k + 1)
    BY <1>1, <1>2, <1>3, <2>1
  <2>6. Rest(Tail(x), k + 1)
    BY <2>1, <2>4, <2>5 DEF Rest
  <2>7. QED
    BY <2>1, <2>3, <2>6
<1>4. QED
  BY <1>1, <1>2, <1>3

(* Each of them costs two, and the client that follows them ends at 0.     *)
LEMMA RestTotal ==
    ASSUME NEW e \in Prices(Groups), NEW x, NEW k, Rest(x, k)
    PROVE  /\ At(e, 0) \in Nat /\ After - k \in Nat
           /\ InGroups(x, e, 0) = 2 * (After - k) + At(e, 0)
           /\ k < After => InGroups(x, e, Skip) = 2 * (After - k) + At(e, 0)
           /\ k < After => \A g \in Place : g > 0 /\ Awaited(g) = k => InGroups(x, e, g) = 2 * (After - k) + At(e, 0)
<1> DEFINE Fits(y, j) == /\ InGroups(y, e, 0) = 2 * (After - j) + At(e, 0)
                         /\ j < After => \A g \in Place : g = Skip \/ (g > 0 /\ Awaited(g) = j)
                                           => InGroups(y, e, g) = 2 * (After - j) + At(e, 0)
           T == {y \in Seq(Frame) : \A j \in 1 .. After : Rest(y, j) => Fits(y, j)}
<1>1. 0 \in Place /\ Skip \in Place /\ At(e, 0) \in Nat
  <2>1. 0 \in Place /\ Skip \in Place
    BY Sizes DEF Place, Skip
  <2>2. QED
    BY <2>1, GroupsRead, Stops
<1>2. <<>> \in T
  <2>1. SUFFICES ASSUME NEW j \in 1 .. After, Rest(<<>>, j) PROVE Fits(<<>>, j)
    BY EmptySeq
  <2>2. j = After
    BY <2>1, RestRead
  <2>3. InGroups(<<>>, e, 0) = At(e, 0)
    BY <1>1, GroupsRead, TotalNone DEF InGroups
  <2>4. QED
    BY <1>1, <2>2, <2>3, Sizes
<1>3. ASSUME NEW y \in Seq(Frame), y # <<>>, Tail(y) \in T PROVE y \in T
  <2>1. SUFFICES ASSUME NEW j \in 1 .. After, Rest(y, j) PROVE Fits(y, j)
    OBVIOUS
  <2>2. PICK f \in Frame : f = Head(y) /\ f.kind = "consecutive" /\ f.sn = j
    BY <1>3, <2>1, RestRead
  <2>3. j # After /\ j \in Int /\ After \in Nat /\ j + 1 \in 1 .. After
    <3>1. j # After
      BY <1>3, <2>1, RestRead
    <3>2. QED
      BY <3>1, Sizes
  <2>4. Fits(Tail(y), j + 1)
    BY <1>3, <2>1, <2>3, RestRead
  <2>5. y \in Queue(Frame) /\ 0 \in Run
    BY Sizes DEF Run, Queue
  <2>6. ASSUME NEW g \in Place
        PROVE  /\ InGroups(y, e, g) = GroupCost(f, g) + InGroups(Tail(y), e, GroupTo(f, g))
               /\ GroupCost(f, g) = IF g > 0 /\ j # Awaited(g) THEN 2 + Group ELSE 2
               /\ GroupTo(f, g) = IF g > 0 /\ j = Awaited(g) /\ j < VersionFrames THEN j + 1 ELSE 0
    <3>1. InGroups(y, e, g) = GroupCost(f, g) + InGroups(Tail(y), e, GroupTo(f, g))
      BY <1>3, <2>2, <2>5, AnswerRead
    <3>2. QED
      BY <2>2, <3>1 DEF GroupCost, GroupTo, Follows
  <2> HIDE DEF T
  <2>7. InGroups(Tail(y), e, 0) = 2 * (After - (j + 1)) + At(e, 0)
    BY <2>4
  <2>8. InGroups(y, e, 0) = 2 + (2 * (After - (j + 1)) + At(e, 0))
    <3>1. GroupCost(f, 0) = 2 /\ GroupTo(f, 0) = 0
      BY <1>1, <2>6
    <3>2. QED
      BY <1>1, <2>6, <2>7, <3>1
  <2>9. InGroups(y, e, Skip) = 2 + (2 * (After - (j + 1)) + At(e, 0))
    <3>1. ~(Skip > 0)
      BY DEF Skip
    <3>2. GroupCost(f, Skip) = 2 /\ GroupTo(f, Skip) = 0
      BY <1>1, <2>6, <3>1
    <3>3. QED
      BY <1>1, <2>6, <2>7, <3>2
  <2>10. ASSUME NEW g \in Place, g > 0, Awaited(g) = j
         PROVE  InGroups(y, e, g) = 2 + (2 * (After - (j + 1)) + At(e, 0))
    <3>1. GroupCost(f, g) = 2 /\ GroupTo(f, g) = IF j < VersionFrames THEN j + 1 ELSE 0
      BY <2>6, <2>10
    <3>2. CASE j < VersionFrames
      <4>1. j + 1 \in Place /\ j + 1 > 0 /\ Awaited(j + 1) = j + 1 /\ j + 1 < After
        BY <2>3, <3>2, Sizes DEF Place, Skip, Awaited
      <4>2. InGroups(Tail(y), e, j + 1) = 2 * (After - (j + 1)) + At(e, 0)
        BY <2>4, <4>1
      <4>3. QED
        BY <2>6, <3>1, <3>2, <4>2
    <3>3. CASE ~(j < VersionFrames)
      BY <2>6, <2>7, <3>1, <3>3
    <3>4. QED
      BY <3>2, <3>3
  <2>11. 2 + (2 * (After - (j + 1)) + At(e, 0)) = 2 * (After - j) + At(e, 0)
    BY <1>1, <2>3
  <2>12. QED
    BY <2>8, <2>9, <2>10, <2>11
<1>4. x \in Queue(Frame) /\ k \in 1 .. After
  BY RestRead
<1>5. x \in T
  <2> HIDE DEF T
  <2>1. \A y \in Seq(Frame) : y # <<>> /\ Tail(y) \in T => y \in T
    BY <1>3
  <2>2. QED
    BY <1>2, <1>4, <2>1, AllSequences DEF Queue
<1>6. Fits(x, k)
  BY <1>4, <1>5
<1>7. After - k \in Nat
  BY <1>4, Sizes
<1>8. QED
  BY <1>1, <1>6, <1>7

(* No "pending" among them.                                                *)
LEMMA RestRuns ==
    ASSUME NEW x, NEW k, Rest(x, k), NEW h \in Run
    PROVE  /\ InRuns(x, h, 0) = 0
           /\ k < After => \A p \in Run : InRuns(x, h, p) = 0
<1> DEFINE T == {y \in Seq(Frame) : \A j \in 1 .. After : Rest(y, j) => InRuns(y, h, 0) = 0}
<1>1. 0 \in Run /\ At(RunEnd(h), 0) = 0
  <2>1. 0 \in Run /\ ~(0 > h)
    BY Sizes DEF Run
  <2>2. QED
    BY <2>1, RunEnds
<1>2. <<>> \in T
  <2>1. InRuns(<<>>, h, 0) = 0
    BY <1>1, RunsRead, TotalNone DEF InRuns
  <2>2. QED
    BY <2>1, EmptySeq
<1>3. ASSUME NEW y \in Seq(Frame), y # <<>>, NEW j \in 1 .. After, Rest(y, j), NEW p \in Run
      PROVE  InRuns(y, h, p) = InRuns(Tail(y), h, 0) /\ j + 1 \in 1 .. After /\ Rest(Tail(y), j + 1)
  <2>1. Head(y) \in Frame /\ Head(y).kind = "consecutive" /\ Rest(Tail(y), j + 1)
    BY <1>3, RestRead
  <2>2. RunCost(Head(y), p) = 0 /\ RunTo(Head(y), p) = 0
    BY <2>1 DEF RunCost, RunTo
  <2>3. y \in Queue(Frame)
    BY DEF Queue
  <2>4. InRuns(y, h, p) = Cost(Runs, Head(y), p) + InRuns(Tail(y), h, To(Runs, Head(y), p))
    BY <1>3, <2>3, RunsRead, TotalHead DEF InRuns
  <2>5. InRuns(y, h, p) = 0 + InRuns(Tail(y), h, 0)
    BY <2>1, <2>2, <2>4, RunsRead
  <2>6. InRuns(Tail(y), h, 0) \in Nat
    BY <1>1, <2>1, RestRead, RunsTyped
  <2>7. j + 1 \in 1 .. After
    BY <2>1 DEF Rest
  <2>8. QED
    BY <2>1, <2>5, <2>6, <2>7
<1>4. ASSUME NEW y \in Seq(Frame), y # <<>>, Tail(y) \in T PROVE y \in T
  BY <1>1, <1>3, <1>4
<1>5. x \in Queue(Frame) /\ k \in 1 .. After
  BY RestRead
<1>6. Seq(Frame) \subseteq T
  <2> HIDE DEF T
  <2>1. \A y \in Seq(Frame) : y # <<>> /\ Tail(y) \in T => y \in T
    BY <1>4
  <2>2. QED
    BY <1>2, <2>1, AllSequences
<1>7. InRuns(x, h, 0) = 0
  BY <1>5, <1>6 DEF Queue
<1>8. ASSUME k < After, NEW p \in Run PROVE InRuns(x, h, p) = 0
  <2> HIDE DEF T
  <2>5. k # After
    BY <1>5, <1>8, Sizes
  <2>1. x # <<>> /\ x \in Seq(Frame)
    BY <1>5, <2>5, RestRead DEF Queue
  <2>2. InRuns(x, h, p) = InRuns(Tail(x), h, 0) /\ k + 1 \in 1 .. After /\ Rest(Tail(x), k + 1)
    BY <1>3, <1>5, <2>1
  <2>3. Tail(x) \in Seq(Frame)
    BY <2>2, RestRead DEF Queue
  <2>4. InRuns(Tail(x), h, 0) = 0
    BY <1>6, <2>2, <2>3 DEF T
  <2>6. QED
    BY <2>2, <2>4
<1>9. QED
  BY <1>7, <1>8

(* The consecutive frames of a version more, which were owed.              *)
LEMMA FramesAppended ==
    ASSUME NEW gw \in Queue(Frame), NEW x, Rest(x, 1), NEW h \in Run, NEW r \in Run,
           NEW s \in Queue(Message), s # <<>>, Head(s).sid = "flow_control",
           NEW n \in {0, Group}, NEW p \in Place
    PROVE  /\ gw \o x \in Queue(Frame)
           /\ InGroups(gw \o x, GroupEnd(Tail(s), 0, n), p) \in Nat /\ InGroups(gw, GroupEnd(s, 1, n), p) \in Nat
           /\ InGroups(gw \o x, GroupEnd(Tail(s), 0, n), p) <= InGroups(gw, GroupEnd(s, 1, n), p)
           /\ InRuns(gw \o x, h, r) <= InRuns(gw, h, r)
<1>1. PICK t \in Queue(Message) : t = Tail(s)
  BY Queues
<1>2. 0 \in 0 .. 1 /\ 1 \in 0 .. 1
  OBVIOUS
<1>3. PICK u \in Nat : u = Owing(t, n, 0, 0)
  BY <1>2, OwingTyped
<1>4. \A b \in 0 .. 1 : Owing(s, n, b, 1) = Group + u
  BY <1>1, <1>2, <1>3, RequestRead
<1>5. PICK e \in Prices(Groups) : e = GroupEnd(s, 1, n)
  BY <1>2, GroupEnds
<1>6. PICK f \in Prices(Groups) : f = GroupEnd(t, 0, n)
  BY <1>2, GroupEnds
<1>7. x \in Queue(Frame) /\ x # <<>> /\ Head(x) \in Frame /\ Head(x).kind = "consecutive" /\ Head(x).sn = 1
      /\ Rest(Tail(x), 2) /\ 1 < After /\ After - 1 = VersionFrames
  <2>1. 1 # After /\ 1 < After /\ After - 1 = VersionFrames
    BY Sizes
  <2>2. QED
    BY <2>1, RestRead
<1>8. At(f, 0) = u
  <2>1. 0 \in Place /\ 0 \notin Middle /\ N(0 = 1) = 0
    BY Sizes DEF Place, Skip, Middle, N
  <2>2. At(GroupEnd(t, 0, n), 0) = Owing(t, n, 0, 0) + 0
    BY <1>2, <2>1, GroupEnds
  <2>3. QED
    BY <1>3, <1>6, <2>2
<1>9. ASSUME NEW g \in Place
      PROVE  InGroups(x, f, g) = Group + u + (IF g \in Middle THEN Group ELSE 0)
  <2>1. CASE g \in Middle
    <3>1. g > 0 /\ Awaited(g) # 1
      BY <2>1, Sizes DEF Middle, Awaited
    <3>2. GroupCost(Head(x), g) = 2 + Group /\ GroupTo(Head(x), g) = 0
      BY <1>7, <3>1 DEF GroupCost, GroupTo, Follows
    <3>3. 0 \in Run
      BY Sizes DEF Run
    <3>4. InGroups(x, f, g) = 2 + Group + InGroups(Tail(x), f, 0)
      BY <1>7, <3>2, <3>3, AnswerRead
    <3>5. InGroups(Tail(x), f, 0) = 2 * (After - 2) + u
      BY <1>7, <1>8, RestTotal
    <3>6. QED
      BY <2>1, <3>4, <3>5, Sizes
  <2>2. CASE g \notin Middle
    <3>1. g = 0 \/ g = Skip \/ (g > 0 /\ Awaited(g) = 1)
      BY <2>2, Sizes DEF Place, Skip, Middle, Awaited
    <3>2. InGroups(x, f, g) = 2 * (After - 1) + u
      BY <1>7, <1>8, <3>1, RestTotal
    <3>3. QED
      BY <1>7, <2>2, <3>2, Sizes
  <2>3. QED
    BY <2>1, <2>2
<1>10. ASSUME NEW g \in Place
       PROVE  InGroups(x, f, g) = At(e, g)
  <2>1. PICK b \in 0 .. 1 : b = N(g = 1)
    BY DEF N
  <2>2. At(e, g) = Owing(s, n, b, 1) + (IF g \in Middle THEN Group ELSE 0)
    BY <1>2, <1>5, <2>1, GroupEnds
  <2>3. QED
    BY <1>4, <1>9, <2>2
<1>11. Group \in {0, Group}
  OBVIOUS
<1>12. ASSUME NEW g \in Place, NEW j \in Place
       PROVE  Total(x, Groups, f, g) <= At(e, j) + Far(GroupFar(Group), g, j) + 0
  <2>1. At(e, g) <= At(e, j) + GroupGap(Group, g, j)
    BY <1>2, <1>5, GroupEndSmooth DEF Smooth
  <2>2. Total(x, Groups, f, g) = At(e, g) /\ Far(GroupFar(Group), g, j) = GroupGap(Group, g, j)
    BY <1>10, <1>11, GroupsFar DEF InGroups
  <2>3. At(e, g) \in Nat /\ At(e, j) \in Nat /\ GroupGap(Group, g, j) \in Nat
    BY <1>11, GroupsFar, GroupsRead, Stops
  <2>4. QED
    BY <2>1, <2>2, <2>3
<1>13. InGroups(gw \o x, f, p) <= InGroups(gw, e, p) + 0 + 0
  <2>1. Far(GroupFar(Group), p, p) = 0
    BY <1>11, GroupsFar DEF GroupGap, Nearer
  <2>5. PICK d : d = GroupFar(Group) /\ Distance(Groups, d)
    BY <1>11, GroupsFar
  <2>2. \A g, j \in States(Groups) : Total(x, Groups, f, g) <= At(e, j) + Far(d, g, j) + 0
    BY <1>12, <2>5, GroupsRead
  <2>6. 0 \in Int
    OBVIOUS
  <2>3. Total(gw \o x, Groups, f, p) <= Total(gw, Groups, e, p) + Far(d, p, p) + 0
    BY <1>7, <2>2, <2>5, <2>6, GroupsRead, TotalMore
  <2>4. QED
    BY <2>1, <2>3, <2>5 DEF InGroups
<1>14. InRuns(gw \o x, h, r) <= InRuns(gw, h, r) + 0 + 0
  <2>1. Far(RunFar, r, r) = 0
    BY RunsFar, Sizes DEF Run
  <2>2. ASSUME NEW g \in Run, NEW j \in Run
        PROVE  Total(x, Runs, RunEnd(h), g) <= At(RunEnd(h), j) + Far(RunFar, g, j) + 0
    <3>1. Total(x, Runs, RunEnd(h), g) = 0
      BY <1>7, RestRuns DEF InRuns
    <3>2. At(RunEnd(h), j) \in Nat
      BY RunEnds, RunsRead, Stops
    <3>3. Far(RunFar, g, j) \in Nat
      BY RunsFar
    <3>4. QED
      BY <3>1, <3>2, <3>3
  <2>3. \A g, j \in States(Runs) : Total(x, Runs, RunEnd(h), g) <= At(RunEnd(h), j) + Far(RunFar, g, j) + 0
    BY <2>2, RunsRead
  <2>4. Total(gw \o x, Runs, RunEnd(h), r) <= Total(gw, Runs, RunEnd(h), r) + Far(RunFar, r, r) + 0
    BY <1>7, <2>3, RunsRead, RunsFar, RunEnds, TotalMore
  <2>5. QED
    BY <2>1, <2>4 DEF InRuns
<1>15. PICK y \in Queue(Frame) : y = gw \o x
  BY <1>7, ConcatProperties DEF Queue
<1>16. /\ InGroups(y, f, p) \in Nat /\ InGroups(gw, e, p) \in Nat
       /\ InRuns(y, h, r) \in Nat /\ InRuns(gw, h, r) \in Nat
  BY GroupsTyped, RunsTyped
<1>17. QED
  BY <1>1, <1>5, <1>6, <1>13, <1>14, <1>15, <1>16

-----------------------------------------------------------------------------
(* An answer less.                                                         *)
LEMMA GroupsRemoved ==
    ASSUME NEW gw \in Queue(Frame), NEW i \in 1 .. Len(gw),
           NEW s \in Queue(Message), NEW o \in 0 .. 1, NEW n \in {0, Group}, NEW p \in Place
    PROVE  /\ InGroups(RemoveAt(gw, i), GroupEnd(s, o, n), p) \in Nat
           /\ InGroups(gw, GroupEnd(s, o, n), p) \in Nat
           /\ InGroups(RemoveAt(gw, i), GroupEnd(s, o, n), p) <= InGroups(gw, GroupEnd(s, o, n), p) + (Group - 2)
           /\ gw[i].kind = "positive" =>
                InGroups(RemoveAt(gw, i), GroupEnd(s, o, n), p) <= InGroups(gw, GroupEnd(s, o, n), p) - 1
<1>1. PICK e \in Prices(Groups) : e = GroupEnd(s, o, n) /\ Smooth(e)
  BY GroupEnds, GroupEndSmooth
<1>2. PICK f \in Frame : f = gw[i]
  BY RunsRemoved, ElementOfSeq DEF Queue
<1>3. PICK d : d = GroupFar(Group) /\ Distance(Groups, d) /\ \A g, h \in Place : Far(d, g, h) = GroupGap(Group, g, h)
  <2>1. Group \in {0, Group}
    OBVIOUS
  <2>2. QED
    BY <2>1, GroupsFar
<1>4. \A g, h \in States(Groups) : At(e, g) <= At(e, h) + Far(d, g, h)
  BY <1>1, <1>3, GroupsRead DEF Smooth
<1>5. ASSUME NEW c \in Int, \A g \in Place : GroupGap(Group, g, GroupTo(f, g)) <= GroupCost(f, g) + c
      PROVE  InGroups(RemoveAt(gw, i), e, p) <= InGroups(gw, e, p) + c
  <2>1. \A g \in States(Groups) : Far(d, g, To(Groups, gw[i], g)) <= Cost(Groups, gw[i], g) + c
    BY <1>2, <1>3, <1>5, GroupsRead, GroupTyped
  <2>2. Total(RemoveAt(gw, i), Groups, e, p) <= Total(gw, Groups, e, p) + c
    BY <1>3, <1>4, <2>1, GroupsRead, TotalRemoved
  <2>3. QED
    BY <2>2 DEF InGroups
<1>6. ASSUME NEW g \in Place
      PROVE  GroupGap(Group, g, GroupTo(f, g)) <= GroupCost(f, g) + (Group - 2)
  <2>1. CASE f.kind \in {"pending", "negative", "positive"}
    <3>1. GroupTo(f, g) = g /\ GroupCost(f, g) \in Nat
      BY <2>1, GroupTyped DEF GroupTo
    <3>2. GroupGap(Group, g, g) = 0
      BY DEF GroupGap, Nearer
    <3>3. QED
      BY <3>1, <3>2, Sizes
  <2>2. CASE f.kind = "first"
    <3>1. GroupTo(f, g) = OnFirst(g) /\ GroupCost(f, g) = IF g \in Middle THEN Group ELSE 0
      BY <2>2 DEF GroupTo, GroupCost
    <3>2. GroupGap(Group, g, OnFirst(g)) <= (IF g \in Middle THEN Group ELSE 0) + (Group - 2)
      BY Sizes, Places DEF GroupGap, Nearer, OnFirst, Middle, Skip, Place
    <3>3. QED
      BY <3>1, <3>2
  <2>3. CASE f.kind = "consecutive"
    <3>1. PICK k \in 1 .. VersionFrames : k = f.sn
      BY <2>3, Kinds
    <3> DEFINE C == IF g > 0 /\ ~(k = Awaited(g)) THEN 2 + Group ELSE 2
               W == IF g > 0 /\ k = Awaited(g) /\ k < VersionFrames THEN k + 1 ELSE 0
    <3>2. GroupCost(f, g) = C /\ GroupTo(f, g) = W
      BY <2>3, <3>1 DEF GroupTo, GroupCost, Follows
    <3>3. GroupGap(Group, g, W) <= C + (Group - 2)
      BY Sizes, Places DEF GroupGap, Nearer, Awaited, Middle, Skip, Place
    <3>4. QED
      BY <3>2, <3>3
  <2>4. QED
    BY <2>1, <2>2, <2>3, Kinds
<1>7. ASSUME f.kind = "positive", NEW g \in Place
      PROVE  GroupGap(Group, g, GroupTo(f, g)) <= GroupCost(f, g) + (-1)
  <2>1. GroupTo(f, g) = g /\ GroupCost(f, g) = IF f.sid = "0x10" THEN 1 ELSE 2
    BY <1>7 DEF GroupTo, GroupCost
  <2>2. GroupGap(Group, g, g) = 0
    BY DEF GroupGap, Nearer
  <2>3. QED
    BY <2>1, <2>2
<1>8. Group - 2 \in Int /\ -1 \in Int
  BY Sizes
<1>9. InGroups(RemoveAt(gw, i), e, p) <= InGroups(gw, e, p) + (Group - 2)
  BY <1>5, <1>6, <1>8
<1>10. f.kind = "positive" => InGroups(RemoveAt(gw, i), e, p) <= InGroups(gw, e, p) + (-1)
  BY <1>5, <1>7, <1>8
<1>11. PICK y \in Queue(Frame) : y = RemoveAt(gw, i)
  BY RemovedOne DEF Queue
<1>12. InGroups(y, e, p) \in Nat /\ InGroups(gw, e, p) \in Nat
  BY GroupsTyped
<1>13. f.kind = "positive" => InGroups(y, e, p) <= InGroups(gw, e, p) - 1
  BY <1>10, <1>11, <1>12
<1>14. QED
  BY <1>1, <1>2, <1>9, <1>11, <1>12, <1>13

(* Flow control is sent.                                                   *)
OwedReach == [y \in Standing |-> [z \in Standing |-> IF y[2] <= z[2] THEN 0 ELSE Group]]

(* OwedReach bounds what two standings can differ by, too.                 *)
LEMMA OwedsReach ==
    /\ Distance(Owed, OwedReach)
    /\ \A b, o, c, p \in 0 .. 1 : Far(OwedReach, <<b, o>>, <<c, p>>) = IF o <= p THEN 0 ELSE Group
<1>1. \A y, z \in Standing : Far(OwedReach, y, z) = IF y[2] <= z[2] THEN 0 ELSE Group
  BY DEF Far, OwedReach
<1>2. \A b, o, c, p \in 0 .. 1 : Far(OwedReach, <<b, o>>, <<c, p>>) = IF o <= p THEN 0 ELSE Group
  BY <1>1, Standings
<1>3. ASSUME NEW r \in Message, NEW y \in Standing, NEW z \in Standing
      PROVE  Cost(Owed, r, y) + Far(OwedReach, To(Owed, r, y), To(Owed, r, z)) <= Cost(Owed, r, z) + Far(OwedReach, y, z)
  <2>1. PICK b \in 0 .. 1, o \in 0 .. 1 : y[1] = b /\ y[2] = o /\ y = <<b, o>>
    BY Standings
  <2>2. PICK c \in 0 .. 1, p \in 0 .. 1 : z[1] = c /\ z[2] = p /\ z = <<c, p>>
    BY Standings
  <2>3. 0 \in 0 .. 1 /\ 1 \in 0 .. 1
    OBVIOUS
  <2>4. /\ Cost(Owed, r, y) = OwedCost(r, y) /\ Cost(Owed, r, z) = OwedCost(r, z)
        /\ To(Owed, r, y) = OwedTo(r, y) /\ To(Owed, r, z) = OwedTo(r, z)
    BY OwedRead
  <2>5. Far(OwedReach, y, z) = IF o <= p THEN 0 ELSE Group
    BY <1>2, <2>1, <2>2
  <2>6. CASE r.sid = "flow_control"
    <3>1. /\ OwedCost(r, y) = IF o = 1 THEN Group ELSE 0
          /\ OwedCost(r, z) = IF p = 1 THEN Group ELSE 0
      BY <2>1, <2>2, <2>6 DEF OwedCost
    <3>2. /\ OwedTo(r, y) = IF o = 1 THEN <<0, 0>> ELSE <<b, o>>
          /\ OwedTo(r, z) = IF p = 1 THEN <<0, 0>> ELSE <<c, p>>
      BY <2>1, <2>2, <2>6 DEF OwedTo
    <3>3. Far(OwedReach, OwedTo(r, y), OwedTo(r, z)) = 0
      BY <1>2, <2>3, <3>2
    <3>4. QED
      BY <2>4, <2>5, <3>1, <3>3, Sizes
  <2>7. CASE r.sid # "flow_control"
    <3>1. OwedCost(r, y) = OwedCost(r, z) /\ OwedCost(r, z) \in Nat
      BY <2>7, OwedTyped DEF OwedCost
    <3>2. PICK i \in 0 .. 1 : i = IF r.sid = "0x22" THEN 1 ELSE 0
      OBVIOUS
    <3>3. OwedTo(r, y) = <<b, i>> /\ OwedTo(r, z) = <<c, i>>
      BY <2>1, <2>2, <2>7, <3>2 DEF OwedTo
    <3>4. Far(OwedReach, OwedTo(r, y), OwedTo(r, z)) = 0
      BY <1>2, <3>3
    <3>5. QED
      BY <2>4, <2>5, <3>1, <3>4, Sizes
  <2>8. QED
    BY <2>6, <2>7
<1>4. \A y, z \in Standing : Far(OwedReach, y, z) \in Nat
  BY <1>1, Sizes
<1>5. QED
  BY <1>2, <1>3, <1>4, OwedRead DEF Distance

(* Flow control that is sent makes the requests cost Group at most.        *)
LEMMA FlowSent ==
    ASSUME NEW s \in Queue(Message), NEW r \in Message, r.sid = "flow_control", NEW n \in {0, Group},
           NEW b \in 0 .. 1, NEW c \in 0 .. 1, NEW o \in 0 .. 1
    PROVE  Owing(Append(s, r), 0, b, o) <= Owing(s, n, c, o) + Group
<1>1. 0 \in {0, Group}
  OBVIOUS
<1>2. ASSUME NEW y \in Standing, NEW z \in Standing
      PROVE  OwedCost(r, y) + At(OwedEnd(0), OwedTo(r, y)) <= At(OwedEnd(n), z) + Far(OwedReach, y, z) + Group
  <2>1. PICK b1 \in 0 .. 1, o1 \in 0 .. 1 : y[1] = b1 /\ y[2] = o1 /\ y = <<b1, o1>>
    BY Standings
  <2>2. OwedCost(r, y) = (IF o1 = 1 THEN Group ELSE 0) /\ OwedTo(r, y) = IF o1 = 1 THEN <<0, 0>> ELSE <<b1, o1>>
    BY <2>1 DEF OwedCost, OwedTo
  <2>3. At(OwedEnd(0), <<0, 0>>) = 0 /\ At(OwedEnd(0), <<b1, o1>>) = IF b1 = 1 THEN Group ELSE IF o1 = 1 THEN 0 ELSE 0
    <3>1. 0 \in 0 .. 1
      OBVIOUS
    <3>2. QED
      BY <1>1, <3>1, OwedEnds
  <2>4. At(OwedEnd(n), z) \in Nat /\ Far(OwedReach, y, z) \in Nat
    BY OwedEnds, OwedRead, OwedsReach, Stops DEF Distance
  <2>5. OwedCost(r, y) + At(OwedEnd(0), OwedTo(r, y)) <= Group
    BY <2>2, <2>3, Sizes
  <2>6. PICK u \in Int : u = OwedCost(r, y) + At(OwedEnd(0), OwedTo(r, y))
    <3>1. OwedTo(r, y) \in Standing /\ OwedCost(r, y) \in Nat
      BY OwedTyped
    <3>2. At(OwedEnd(0), OwedTo(r, y)) \in Nat
      BY <1>1, <3>1, OwedEnds, OwedRead, Stops
    <3>3. QED
      BY <3>1, <3>2
  <2>7. QED
    BY <2>4, <2>5, <2>6, Sizes
<1>3. <<b, o>> \in Standing /\ <<c, o>> \in Standing
  BY Standings
<1>4. \A y, z \in States(Owed) : Cost(Owed, r, y) + At(OwedEnd(0), To(Owed, r, y)) <= At(OwedEnd(n), z) + Far(OwedReach, y, z) + Group
  BY <1>2, OwedRead
<1>5. Group \in Int
  BY Sizes
<1>6. Total(Append(s, r), Owed, OwedEnd(0), <<b, o>>)
         <= Total(s, Owed, OwedEnd(n), <<c, o>>) + Far(OwedReach, <<b, o>>, <<c, o>>) + Group
  BY <1>1, <1>3, <1>4, <1>5, OwedRead, OwedsReach, OwedEnds, TotalAppended
<1>7. Far(OwedReach, <<b, o>>, <<c, o>>) = 0
  BY OwedsReach
<1>8. Owing(s, n, c, o) \in Nat
  BY OwingTyped
<1>9. QED
  BY <1>6, <1>7, <1>8 DEF Owing

(* A first frame is answered with flow control: a client that waits for    *)
(* the frames goes to 1, and counts a group more.                          *)
LEMMA FlowAnswers ==
    ASSUME NEW gw \in Queue(Frame), NEW s \in Queue(Message), NEW r \in Message, r.sid = "flow_control",
           NEW n \in {0, Group}, NEW o \in 0 .. 1
    PROVE  /\ Append(s, r) \in Queue(Message)
           /\ InGroups(gw, GroupEnd(Append(s, r), o, 0), 1) \in Nat
           /\ InGroups(gw, GroupEnd(Append(s, r), o, 0), Skip) \in Nat
           /\ InGroups(gw, GroupEnd(s, o, n), After) \in Nat
           /\ InGroups(gw, GroupEnd(Append(s, r), o, 0), 1) <= InGroups(gw, GroupEnd(s, o, n), After) + Group
           /\ n = Group =>
                InGroups(gw, GroupEnd(Append(s, r), o, 0), Skip) <= InGroups(gw, GroupEnd(s, o, n), After)
<1>1. PICK t \in Queue(Message) : t = Append(s, r)
  BY AppendProperties DEF Queue
<1>2. 0 \in {0, Group} /\ 0 \in 0 .. 1 /\ 1 \in 0 .. 1
  OBVIOUS
<1>3. 1 \in Place /\ After \in Place /\ Skip \in Place /\ 1 # After
  BY Sizes DEF Place, Skip
<1>4. PICK e \in Prices(Groups) : e = GroupEnd(s, o, n)
  BY GroupEnds
<1>5. PICK f \in Prices(Groups) : f = GroupEnd(t, o, 0)
  BY <1>2, GroupEnds
<1>6. ASSUME NEW p \in Place, NEW q \in Place
      PROVE  At(f, p) <= At(e, q) + GroupGap(0, p, q) + Group
  <2>1. PICK b \in 0 .. 1 : b = N(p = 1)
    BY DEF N
  <2>2. PICK c \in 0 .. 1 : c = N(q = 1)
    BY DEF N
  <2>3. PICK u \in Nat : u = Owing(t, 0, b, o)
    BY <1>2, OwingTyped
  <2>4. PICK w \in Nat : w = Owing(s, n, c, o)
    BY OwingTyped
  <2>5. u <= w + Group
    BY <1>1, <2>3, <2>4, FlowSent
  <2>6. At(f, p) = u + (IF p \in Middle THEN Group ELSE 0) /\ At(e, q) = w + (IF q \in Middle THEN Group ELSE 0)
    BY <1>2, <1>4, <1>5, <2>1, <2>2, <2>3, <2>4, GroupEnds
  <2>7. (IF p \in Middle THEN Group ELSE 0) <= (IF q \in Middle THEN Group ELSE 0) + GroupGap(0, p, q)
    BY Sizes, Places DEF GroupGap, Nearer, Middle, Skip, Place
  <2>8. GroupGap(0, p, q) \in Nat
    BY <1>2, GroupsFar
  <2>9. QED
    BY <2>5, <2>6, <2>7, <2>8, Sizes
<1>7. Group \in Int /\ 0 \in Int
  BY Sizes
<1>8. InGroups(gw, f, 1) <= InGroups(gw, e, After) + GroupGap(0, 1, After) + Group
  BY <1>2, <1>3, <1>6, <1>7, GroupsMoved
<1>9. GroupGap(0, 1, After) = 0 /\ GroupGap(Group, Skip, After) = 0
  BY Sizes DEF GroupGap, Nearer
<1>10. InGroups(gw, f, 1) \in Nat /\ InGroups(gw, f, Skip) \in Nat /\ InGroups(gw, e, After) \in Nat
  BY <1>3, GroupsTyped
<1>11. ASSUME n = Group PROVE InGroups(gw, f, Skip) <= InGroups(gw, e, After) + 0
  <2>1. \A b \in 0 .. 1 : Owing(t, 0, b, o) <= Owing(s, n, b, o) + 0
    <3>1. SUFFICES ASSUME NEW b \in 0 .. 1 PROVE Owing(t, 0, b, o) <= Owing(s, n, b, o) + 0
      OBVIOUS
    <3>2. Owing(t, 0, b, o) <= Owing(s, n, b, o)
      BY <1>1, <1>2, <1>11, SendingCosts
    <3>3. Owing(s, n, b, o) \in Nat
      BY OwingTyped
    <3>4. QED
      BY <3>2, <3>3
  <2>2. InGroups(gw, f, Skip) <= InGroups(gw, e, After) + GroupGap(Group, Skip, After) + 0
    BY <1>2, <1>3, <1>4, <1>5, <1>7, <2>1, GroupsOwe
  <2>3. QED
    BY <1>9, <1>10, <2>2
<1>12. QED
  BY <1>1, <1>4, <1>5, <1>8, <1>9, <1>10, <1>11

-----------------------------------------------------------------------------
(* What is at least ahead.                                                 *)
LEMMA GroupsAtLeast ==
    ASSUME NEW gw \in Queue(Frame), NEW s \in Queue(Message), NEW o \in 0 .. 1, NEW n \in {0, Group},
           NEW k \in 1 .. VersionFrames
    PROVE  k \in Place /\ InGroups(gw, GroupEnd(s, o, n), k) >= 2 * (After - k)
<1> DEFINE w(g) == IF g = 1 THEN Group ELSE IF g \in Middle THEN 2 * (After - g) ELSE 0
           l == [g \in Place |-> w(g)]
<1>1. \A g \in Place : w(g) \in Nat
  BY Sizes DEF Middle
<1>2. l \in Prices(Groups) /\ \A g \in Place : At(l, g) = w(g)
  <2>1. l \in [Place -> Nat] /\ \A g \in Place : l[g] = w(g)
    BY <1>1
  <2>2. QED
    BY <2>1, GroupsRead DEF Prices, At, States
<1> HIDE DEF l
<1>3. PICK e \in Prices(Groups) : e = GroupEnd(s, o, n)
  BY GroupEnds
<1>4. ASSUME NEW g \in Place PROVE At(l, g) <= At(e, g)
  <2>1. PICK u \in Nat : u = Owing(s, n, N(g = 1), o) /\ (g = 1 => u >= Group)
    <3>1. PICK b \in 0 .. 1 : b = N(g = 1)
      BY DEF N
    <3>2. Owing(s, n, b, o) \in Nat /\ Owing(s, n, b, o) >= b * Group
      BY OwingTyped, OwingAtLeast
    <3>3. g = 1 => b = 1
      BY <3>1 DEF N
    <3>4. QED
      BY <3>1, <3>2, <3>3, Sizes
  <2>2. At(e, g) = u + (IF g \in Middle THEN Group ELSE 0)
    BY <1>3, <2>1, GroupEnds
  <2>3. w(g) <= u + (IF g \in Middle THEN Group ELSE 0)
    BY <2>1, Sizes DEF Middle
  <2>4. QED
    BY <1>2, <2>2, <2>3
<1>5. ASSUME NEW f \in Frame, NEW g \in Place
      PROVE  At(l, g) <= GroupCost(f, g) + At(l, GroupTo(f, g))
  <2>1. GroupTo(f, g) \in Place /\ GroupCost(f, g) \in Nat
    BY GroupTyped
  <2>2. At(l, g) = w(g) /\ At(l, GroupTo(f, g)) = w(GroupTo(f, g))
    BY <1>2, <2>1
  <2>3. CASE f.kind \in {"pending", "negative", "positive"}
    <3>1. GroupTo(f, g) = g
      BY <2>3 DEF GroupTo
    <3>2. At(l, g) \in Nat
      BY <1>1, <2>2
    <3>3. QED
      BY <2>1, <3>1, <3>2
  <2>4. CASE f.kind = "first"
    <3>1. GroupTo(f, g) = OnFirst(g) /\ GroupCost(f, g) = IF g \in Middle THEN Group ELSE 0
      BY <2>4 DEF GroupTo, GroupCost
    <3>2. w(g) <= (IF g \in Middle THEN Group ELSE 0) + w(OnFirst(g))
      BY Sizes, Places DEF OnFirst, Middle
    <3>3. QED
      BY <2>2, <3>1, <3>2
  <2>5. CASE f.kind = "consecutive"
    <3>1. PICK j \in 1 .. VersionFrames : j = f.sn
      BY <2>5, Kinds
    <3> DEFINE C == IF g > 0 /\ ~(j = Awaited(g)) THEN 2 + Group ELSE 2
               W == IF g > 0 /\ j = Awaited(g) /\ j < VersionFrames THEN j + 1 ELSE 0
    <3>2. GroupCost(f, g) = C /\ GroupTo(f, g) = W
      BY <2>5, <3>1 DEF GroupTo, GroupCost, Follows
    <3>3. w(g) <= C + w(W)
      BY Sizes, Places DEF Awaited, Middle, Skip, Place
    <3>4. QED
      BY <2>2, <3>2, <3>3
  <2>6. QED
    BY <2>3, <2>4, <2>5, Kinds
<1>6. k \in Place
  BY Sizes DEF Place, Skip
<1>7. At(l, k) <= Total(gw, Groups, e, k)
  <2>1. /\ \A g \in States(Groups) : At(l, g) <= At(e, g)
        /\ \A f \in Reads(Groups) : \A g \in States(Groups) : At(l, g) <= Cost(Groups, f, g) + At(l, To(Groups, f, g))
    BY <1>4, <1>5, GroupsRead
  <2>2. 0 \in Nat
    OBVIOUS
  <2>3. QED
    BY <1>2, <1>6, <2>1, <2>2, GroupsRead, TotalAtLeast
<1>8. w(k) = 2 * (After - k)
  BY Sizes DEF Middle
<1>9. QED
  BY <1>2, <1>3, <1>6, <1>7, <1>8 DEF InGroups

(* An answer that is not a failure yet, or a request for one, is a cost.   *)
LEMMA GroupsOne ==
    ASSUME NEW gw \in Queue(Frame), NEW s \in Queue(Message), NEW o \in 0 .. 1, NEW n \in {0, Group},
           NEW p \in Place,
           \/ \E i \in 1 .. Len(gw) : gw[i].kind = "positive"
           \/ \E i \in 1 .. Len(s) : s[i].sid \notin {"0x22", "flow_control"}
    PROVE  InGroups(gw, GroupEnd(s, o, n), p) >= 1
<1>1. PICK e \in Prices(Groups) : e = GroupEnd(s, o, n)
  BY GroupEnds
<1>2. InGroups(gw, e, p) \in Nat
  BY GroupsTyped
<1>3. CASE \E i \in 1 .. Len(gw) : gw[i].kind = "positive"
  <2> DEFINE l == [g \in Place |-> 0]
  <2>1. l \in Prices(Groups) /\ \A g \in Place : At(l, g) = 0
    BY GroupsRead DEF Prices, At, States
  <2> HIDE DEF l
  <2>2. \A g \in States(Groups) : At(l, g) <= At(e, g)
    BY <2>1, GroupsRead, Stops
  <2>3. \A f \in Reads(Groups) : \A g \in States(Groups) : At(l, g) <= Cost(Groups, f, g) + At(l, To(Groups, f, g))
    BY <2>1, GroupsRead, GroupTyped
  <2>4. PICK i \in 1 .. Len(gw) : gw[i].kind = "positive"
    BY <1>3
  <2>5. gw[i] \in Frame
    BY ElementOfSeq DEF Queue
  <2>6. \A g \in Place : GroupCost(gw[i], g) \in {1, 2} /\ GroupTo(gw[i], g) = g
    BY <2>4 DEF GroupCost, GroupTo
  <2>7. \A g \in States(Groups) : At(l, g) + 1 <= Cost(Groups, gw[i], g) + At(l, To(Groups, gw[i], g))
    BY <2>1, <2>5, <2>6, GroupsRead
  <2>8. 1 \in Nat
    OBVIOUS
  <2>9. At(l, p) + 1 <= Total(gw, Groups, e, p)
    BY <2>1, <2>2, <2>3, <2>7, <2>8, GroupsRead, TotalAtLeast
  <2>10. QED
    BY <1>1, <1>2, <2>1, <2>9 DEF InGroups
<1>4. CASE \E i \in 1 .. Len(s) : s[i].sid \notin {"0x22", "flow_control"}
  <2> DEFINE l == [g \in Place |-> 1]
  <2>1. l \in Prices(Groups) /\ \A g \in Place : At(l, g) = 1
    BY GroupsRead DEF Prices, At, States
  <2> HIDE DEF l
  <2>2. ASSUME NEW g \in Place PROVE At(l, g) <= At(e, g)
    <3>1. PICK b \in 0 .. 1 : b = N(g = 1)
      BY DEF N
    <3>2. Owing(s, n, b, o) >= b * Group + 1 /\ Owing(s, n, b, o) \in Nat
      BY <1>4, OwingAtLeast, OwingTyped
    <3>3. b * Group \in Nat
      BY Sizes
    <3>4. At(e, g) = Owing(s, n, b, o) + (IF g \in Middle THEN Group ELSE 0)
      BY <1>1, <3>1, GroupEnds
    <3>5. QED
      BY <2>1, <3>2, <3>3, <3>4, Sizes
  <2>3. \A f \in Reads(Groups) : \A g \in States(Groups) : At(l, g) <= Cost(Groups, f, g) + At(l, To(Groups, f, g))
    BY <2>1, GroupsRead, GroupTyped
  <2>4. \A g \in States(Groups) : At(l, g) <= At(e, g)
    BY <2>2, GroupsRead
  <2>5. 0 \in Nat
    OBVIOUS
  <2>6. At(l, p) <= Total(gw, Groups, e, p)
    BY <2>1, <2>3, <2>4, <2>5, GroupsRead, TotalAtLeast
  <2>7. QED
    BY <1>1, <1>2, <2>1, <2>6 DEF InGroups
<1>5. QED
  BY <1>3, <1>4

-----------------------------------------------------------------------------
(* Short queues.                                                           *)
LEMMA NothingOwed ==
    ASSUME NEW n \in {0, Group}, NEW b \in 0 .. 1, NEW o \in 0 .. 1
    PROVE  Owing(<<>>, n, b, o) = IF b = 1 THEN Group ELSE IF o = 1 THEN n ELSE 0
BY Standings, OwedRead, OwedEnds, TotalNone DEF Owing

(* What is ahead when no answer is: the end.                               *)
LEMMA NothingAhead ==
    ASSUME NEW h \in Run, NEW e \in Prices(Groups)
    PROVE  /\ <<>> \in Queue(Frame)
           /\ \A x \in Run : InRuns(<<>>, h, x) = IF x > h THEN 2 ELSE 0
           /\ \A g \in Place : InGroups(<<>>, e, g) = At(e, g)
<1>1. \A x \in Run : InRuns(<<>>, h, x) = IF x > h THEN 2 ELSE 0
  BY RunsRead, RunEnds, TotalNone DEF InRuns
<1>2. \A g \in Place : InGroups(<<>>, e, g) = At(e, g)
  BY GroupsRead, TotalNone DEF InGroups
<1>3. QED
  BY <1>1, <1>2, Queues

(* "pending" answers, as many as there may still be.                       *)
Waits(y, x, h) ==
    /\ y \in Queue(Frame) /\ x + Len(y) <= h
    /\ \A i \in 1 .. Len(y) : y[i].kind = "pending"

(* A queue of "pending" answers that are not too many costs its end.       *)
LEMMA WaitsTotal ==
    ASSUME NEW h \in Run, NEW e \in Prices(Groups), NEW y, NEW x \in Run, Waits(y, x, h)
    PROVE  InRuns(y, h, x) = 0 /\ \A g \in Place : InGroups(y, e, g) = At(e, g)
<1> DEFINE Fits(z, j) == InRuns(z, h, j) = 0 /\ \A g \in Place : InGroups(z, e, g) = At(e, g)
           T == {z \in Queue(Frame) : \A j \in Run : Waits(z, j, h) => Fits(z, j)}
<1>1. <<>> \in T
  <2>1. SUFFICES ASSUME NEW j \in Run, Waits(<<>>, j, h) PROVE Fits(<<>>, j)
    BY Queues
  <2>2. ~(j > h)
    <3>1. j + Len(<<>>) <= h /\ Len(<<>>) = 0
      BY <2>1, Queues DEF Waits
    <3>2. QED
      BY <3>1 DEF Run
  <2>3. QED
    BY <2>2, NothingAhead
<1>2. ASSUME NEW z \in Queue(Frame), z # <<>>, Tail(z) \in T PROVE z \in T
  <2>1. SUFFICES ASSUME NEW j \in Run, Waits(z, j, h) PROVE Fits(z, j)
    OBVIOUS
  <2> HIDE DEF Fits, T
  <2>2. z \in Queue(Frame)
    OBVIOUS
  <2>3. /\ Len(z) \in Nat /\ Len(z) >= 1 /\ Head(z) = z[1] /\ Head(z) \in Frame /\ Tail(z) \in Queue(Frame)
        /\ Len(Tail(z)) = Len(z) - 1 /\ \A i \in 1 .. Len(z) - 1 : Tail(z)[i] = z[i + 1]
    BY <1>2, <2>2, Queues
  <2>4. j + Len(z) <= h /\ \A i \in 1 .. Len(z) : z[i].kind = "pending"
    BY <2>1 DEF Waits
  <2>5. Head(z).kind = "pending"
    BY <2>3, <2>4
  <2>17. j \in Nat /\ h \in Nat /\ h <= MaxPending /\ MaxPending \in Nat
    BY Sizes DEF Run
  <2>19. PICK n \in Nat : n = Len(z)
    BY <2>3
  <2>20. PICK m \in Nat : m = Len(Tail(z))
    BY <2>3, Queues
  <2>18. n >= 1 /\ m = n - 1 /\ j + n <= h
    BY <2>3, <2>4, <2>19, <2>20
  <2>6. j < MaxPending /\ j + 1 \in Run
    BY <2>17, <2>18 DEF Run
  <2>7. \A i \in 1 .. Len(Tail(z)) : Tail(z)[i].kind = "pending"
    BY <2>3, <2>4
  <2>8. Waits(Tail(z), j + 1, h)
    <3>1. (j + 1) + Len(Tail(z)) <= h
      <4>1. (j + 1) + m <= h
        BY <2>17, <2>18
      <4>2. QED
        BY <2>20, <4>1
    <3>2. QED
      BY <2>3, <2>7, <3>1 DEF Waits
  <2>9. Fits(Tail(z), j + 1)
    BY <1>2, <2>6, <2>8 DEF T
  <2>10. RunCost(Head(z), j) = 0 /\ RunTo(Head(z), j) = j + 1
    BY <2>5, <2>6, <2>17 DEF RunCost, RunTo
  <2>11. \A g \in Place : GroupCost(Head(z), g) = 0 /\ GroupTo(Head(z), g) = g
    BY <2>5 DEF GroupCost, GroupTo
  <2>12. \A g \in Place : InGroups(z, e, g) = 0 + InGroups(Tail(z), e, g)
    BY <1>2, <2>2, <2>11, AnswerRead
  <2>13. 0 \in Place
    BY Sizes DEF Place, Skip
  <2>14. InRuns(z, h, j) = 0 + InRuns(Tail(z), h, j + 1)
    BY <1>2, <2>2, <2>10, <2>13, AnswerRead
  <2>15. \A g \in Place : At(e, g) \in Nat
    BY GroupsRead, Stops
  <2>16. QED
    BY <2>9, <2>12, <2>14, <2>15 DEF Fits
<1>3. Queue(Frame) \subseteq T
  <2> HIDE DEF T
  <2>1. \A z \in Seq(Frame) : z # <<>> /\ Tail(z) \in T => z \in T
    BY <1>2 DEF Queue
  <2>2. QED
    BY <1>1, <2>1, AllSequences DEF Queue
<1>4. y \in Queue(Frame)
  BY DEF Waits
<1>5. QED
  BY <1>3, <1>4

(* "pending" answers, not too many, and then the answer a.                 *)
Leads(y, a, x) ==
    /\ y \in Queue(Frame) /\ Len(y) >= 1 /\ x + Len(y) - 1 <= MaxPending
    /\ y[Len(y)] = a /\ a \in Frame /\ a.kind # "pending"
    /\ \A i \in 1 .. Len(y) : i # Len(y) => y[i].kind = "pending"

(* A queue of those and one last answer costs that answer and the end.     *)
LEMMA LeadsTotal ==
    ASSUME NEW h \in Run, NEW e \in Prices(Groups), NEW a, NEW y, NEW x \in Run, Leads(y, a, x),
           NEW g \in Place
    PROVE  /\ InRuns(y, h, x) = 0
           /\ InGroups(y, e, g) = GroupCost(a, g) + At(e, GroupTo(a, g))
<1> DEFINE Fits(z, j) == InRuns(z, h, j) = 0 /\ InGroups(z, e, g) = GroupCost(a, g) + At(e, GroupTo(a, g))
           T == {z \in Queue(Frame) : \A j \in Run : Leads(z, a, j) => Fits(z, j)}
<1>1. <<>> \in T
  <2>1. ASSUME NEW j \in Run PROVE ~Leads(<<>>, a, j)
    <3>1. Len(<<>>) = 0
      BY Queues
    <3>2. QED
      BY <3>1 DEF Leads
  <2>2. QED
    BY <2>1, Queues
<1>2. ASSUME NEW z \in Queue(Frame), z # <<>>, Tail(z) \in T PROVE z \in T
  <2>1. SUFFICES ASSUME NEW j \in Run, Leads(z, a, j) PROVE Fits(z, j)
    OBVIOUS
  <2> HIDE DEF Fits, T
  <2>2. z \in Queue(Frame)
    OBVIOUS
  <2>3. /\ Len(z) \in Nat /\ Len(z) >= 1 /\ Head(z) = z[1] /\ Head(z) \in Frame /\ Tail(z) \in Queue(Frame)
        /\ Len(Tail(z)) = Len(z) - 1 /\ \A i \in 1 .. Len(z) - 1 : Tail(z)[i] = z[i + 1]
    BY <1>2, <2>2, Queues
  <2>4. /\ j + Len(z) - 1 <= MaxPending /\ z[Len(z)] = a /\ a \in Frame /\ a.kind # "pending"
        /\ \A i \in 1 .. Len(z) : i # Len(z) => z[i].kind = "pending"
    BY <2>1 DEF Leads
  <2>5. /\ InRuns(z, h, j) = RunCost(Head(z), j) + InRuns(Tail(z), h, RunTo(Head(z), j))
        /\ InGroups(z, e, g) = GroupCost(Head(z), g) + InGroups(Tail(z), e, GroupTo(Head(z), g))
    BY <1>2, <2>2, AnswerRead
  <2>17. j \in Nat /\ MaxPending \in Nat
    BY Sizes DEF Run
  <2>19. PICK n \in Nat : n = Len(z)
    BY <2>3
  <2>20. PICK m \in Nat : m = Len(Tail(z))
    BY <2>3, Queues
  <2>18. n >= 1 /\ m = n - 1 /\ j + n - 1 <= MaxPending
    BY <2>3, <2>4, <2>19, <2>20
  <2>6. GroupCost(a, g) \in Nat /\ GroupTo(a, g) \in Place
    BY <2>4, GroupTyped
  <2>7. At(e, GroupTo(a, g)) \in Nat
    BY <2>6, GroupsRead, Stops
  <2>8. CASE Len(z) = 1
    <3>1. Head(z) = a
      BY <2>3, <2>4, <2>8
    <3>2. Tail(z) = <<>>
      <4>1. ~(m >= 1)
        BY <2>8, <2>18, <2>19
      <4>2. QED
        BY <2>3, <2>20, <4>1, Queues
    <3>3. RunCost(a, j) = 0 /\ RunTo(a, j) = 0
      BY <2>4 DEF RunCost, RunTo
    <3>4. 0 \in Run /\ ~(0 > h)
      BY Sizes DEF Run
    <3>5. InRuns(<<>>, h, 0) = 0 /\ InGroups(<<>>, e, GroupTo(a, g)) = At(e, GroupTo(a, g))
      BY <2>6, <3>4, NothingAhead
    <3>6. InRuns(z, h, j) = 0 + 0 /\ InGroups(z, e, g) = GroupCost(a, g) + At(e, GroupTo(a, g))
      BY <2>5, <3>1, <3>2, <3>3, <3>5
    <3>7. QED
      BY <3>6 DEF Fits
  <2>9. CASE Len(z) # 1
    <3>1. n >= 2 /\ m >= 1 /\ j < MaxPending /\ j + 1 \in Run
      BY <2>9, <2>17, <2>18, <2>19 DEF Run
    <3>2. Head(z).kind = "pending"
      BY <2>3, <2>4, <2>19, <3>1
    <3>3. Tail(z)[Len(Tail(z))] = a
      <4>1. Len(Tail(z)) \in 1 .. Len(z) - 1 /\ Len(Tail(z)) + 1 = Len(z)
        BY <2>3, <2>20, <3>1
      <4>2. QED
        BY <2>3, <2>4, <4>1
    <3>4. ASSUME NEW i \in 1 .. Len(Tail(z)), i # Len(Tail(z)) PROVE Tail(z)[i].kind = "pending"
      <4>1. i \in 1 .. Len(z) - 1 /\ i + 1 \in 1 .. Len(z) /\ i + 1 # Len(z)
        BY <2>3, <3>4
      <4>2. QED
        BY <2>3, <2>4, <4>1
    <3>5. Leads(Tail(z), a, j + 1)
      <4>1. (j + 1) + Len(Tail(z)) - 1 <= MaxPending
        <5>1. (j + 1) + m - 1 <= MaxPending
          BY <2>17, <2>18
        <5>2. QED
          BY <2>20, <5>1
      <4>2. QED
        BY <2>3, <2>4, <2>20, <3>1, <3>3, <3>4, <4>1 DEF Leads
    <3>6. Fits(Tail(z), j + 1)
      BY <1>2, <3>1, <3>5 DEF T
    <3>7. RunCost(Head(z), j) = 0 /\ RunTo(Head(z), j) = j + 1
      BY <2>17, <3>1, <3>2 DEF RunCost, RunTo
    <3>8. GroupCost(Head(z), g) = 0 /\ GroupTo(Head(z), g) = g
      BY <3>2 DEF GroupCost, GroupTo
    <3>9. QED
      BY <2>5, <2>6, <2>7, <3>6, <3>7, <3>8 DEF Fits
  <2>10. QED
    BY <2>8, <2>9
<1>3. Queue(Frame) \subseteq T
  <2> HIDE DEF T
  <2>1. \A z \in Seq(Frame) : z # <<>> /\ Tail(z) \in T => z \in T
    BY <1>2 DEF Queue
  <2>2. QED
    BY <1>1, <2>1, AllSequences DEF Queue
<1>4. y \in Queue(Frame)
  BY DEF Leads
<1>5. QED
  BY <1>3, <1>4

-----------------------------------------------------------------------------
(* The state: what is ahead of the client, and when there is nothing.      *)

(* What the queues will still cost the client, counted at two for a failed *)
(* call and its answer: the "pending" answers, and the rest.               *)
StartRun == IF pc = "wait" THEN pending ELSE 0
Given == Min2(ecu.given, MaxPending)
RunsNow == InRuns(toGw, Given, StartRun)

StartPlace == IF pc = "cf" THEN (IF sid = "0x22" THEN Len(frames) ELSE Skip) ELSE 0
FirstAhead ==
    \/ \E i \in 1 .. Len(toGw) : toGw[i].kind = "first"
    \/ \E i \in 1 .. Len(toEcu) : toEcu[i].sid = "0x22"
FlowDue == IF pc = "wait" /\ sid = "0x10" /\ FirstAhead THEN Group ELSE 0
GroupsNow == InGroups(toGw, GroupEnd(toEcu, N(ecu.owes), FlowDue), StartPlace)

(* The answer to the call under way is ahead, and not a failure; frames of *)
(* its answer have been collected.                                         *)
Plain(r) == r.sid \notin {"0x22", "flow_control"}
OwnAhead ==
    /\ pc \in Running /\ sid # "0x22"
    /\ \/ \E i \in 1 .. Len(toEcu) : toEcu[i].att = att /\ Plain(toEcu[i])
       \/ \E i \in 1 .. Len(toGw) : toGw[i].att = att /\ toGw[i].kind = "positive"
Collected == IF pc = "cf" /\ sid = "0x22" THEN 2 * (After - Len(frames)) ELSE 0

Psi == RunsNow + GroupsNow - N(OwnAhead) - Collected

-----------------------------------------------------------------------------
(* A clean state: the queues hold nothing but what the call under way has  *)
(* asked for and still waits for.                                          *)
OwnRequest(r) ==
    /\ r.sid = sid /\ r.att = att
    /\ sid = "0x36" => r.bsn = bsn
OwnAnswer(a) ==
    IF sid = "0x22" THEN a.kind = "first" /\ ecu.owes
    ELSE a.kind = "positive" /\ a.sid = sid /\ a.att = att /\ (sid = "0x36" => a.bsn = bsn)

CleanAsked ==
    /\ Len(toEcu) = 1 /\ OwnRequest(toEcu[1]) /\ EachPending
    /\ pending + Len(toGw) <= ecu.given /\ ecu.given <= MaxPending
CleanAnswered ==
    /\ Len(toEcu) = 0 /\ Len(toGw) >= 1 /\ OwnAnswer(toGw[Len(toGw)])
    /\ \A i \in 1 .. Len(toGw) : i # Len(toGw) => toGw[i].kind = "pending"
    /\ pending + Len(toGw) - 1 <= MaxPending
CleanFlow ==
    /\ Len(toEcu) = 1 /\ toEcu[1].sid = "flow_control" /\ Len(toGw) = 0 /\ ecu.owes
    /\ Len(frames) = 1
CleanFrames ==
    /\ Len(toEcu) = 0 /\ Len(toGw) = After - Len(frames)
    /\ \A i \in 1 .. Len(toGw) : toGw[i].kind = "consecutive" /\ toGw[i].sn = Len(frames) + i - 1
Clean ==
    /\ pc = "wait" => CleanAsked \/ CleanAnswered
    /\ pc = "cf" => sid = "0x22" /\ (CleanFlow \/ CleanFrames)
    /\ pc \notin {"wait", "cf"} => Len(toGw) = 0 /\ Len(toEcu) = 0

(* What has failed, and what the queues can still make fail.               *)
Debt == failures + (IF Clean THEN 0 ELSE 1 + Psi)
DebtBounded == Debt <= (Group + 2) * faults

-----------------------------------------------------------------------------
(* What else holds of the queues in every state.                           *)

(* In a transfer, no positive answer is to another request.                *)
NoStale ==
    InTransfer => \A i \in 1 .. Len(toGw) : toGw[i].kind = "positive" => toGw[i].sid = sid /\ toGw[i].att = att
(* The ECU is in the bootloader once it has said so, and for the transfer. *)
Boots ==
    /\ \A i \in 1 .. Len(toGw) : toGw[i].kind = "positive" /\ toGw[i].sid = "0x10" => ecu.mode = "boot"
    /\ pc = "fc" => ecu.mode = "boot" /\ NoTransferAsked
    /\ \A i \in 1 .. Len(toEcu) : toEcu[i].sid \in TransferSid => ecu.mode = "boot"
    /\ InTransfer /\ sid \in {"0x34", "0x36"} => ecu.mode = "boot"
(* "pending" answers are counted for a request that is still there.        *)
NoneGiven == ecu.given # 0 => Len(toEcu) >= 1 /\ toEcu[1].sid # "flow_control"
(* The end of a transfer is asked for when the ECU has the whole firmware. *)
Exits == \A i \in 1 .. Len(toEcu) : toEcu[i].sid = "0x37" => ecu.stored = FirmwareLen
(* Frames are collected for a session or a version only.                   *)
Sids == sid # "flow_control" /\ (pc = "cf" => sid \in {"0x10", "0x22"} /\ Len(frames) >= 1)
Supplement == NoStale /\ Boots /\ NoneGiven /\ Exits /\ Sids

(* Answers taken or lost.                                                  *)
LEMMA TakenOrderly ==
    ASSUME Supplement, Fewer(toGw', toGw), UNCHANGED <<toEcu, ecu, sid, att>>,
           pc' = pc \/ pc' \in {"failed", "ok"}, pc' = "cf" => Len(frames') >= 1
    PROVE  Supplement'
<1>1. PICK gone : gone = toGw'
  OBVIOUS
<1>2. \A i \in 1 .. Len(gone) : \E j \in 1 .. Len(toGw) : gone[i] = toGw[j]
  BY <1>1 DEF Fewer
<1>3. InTransfer' => InTransfer
  BY DEF InTransfer
<1>4. NoStale'
  BY <1>1, <1>2, <1>3 DEF Supplement, NoStale
<1>5. Boots'
  <2>1. \A i \in 1 .. Len(gone) : gone[i].kind = "positive" /\ gone[i].sid = "0x10" => ecu.mode = "boot"
    BY <1>2 DEF Supplement, Boots
  <2>2. pc' = "fc" => pc = "fc"
    OBVIOUS
  <2>3. NoTransferAsked => NoTransferAsked'
    BY DEF NoTransferAsked
  <2>4. QED
    BY <1>1, <1>3, <2>1, <2>2, <2>3 DEF Supplement, Boots
<1>6. NoneGiven' /\ Exits' /\ Sids'
  BY DEF Supplement, NoneGiven, Exits, Sids
<1>7. QED
  BY <1>4, <1>5, <1>6 DEF Supplement

(* A request other than one of a download is sent.                         *)
LEMMA OtherOrderly ==
    ASSUME ClientInv, Supplement, NEW r \in Message, r.sid \notin TransferSid,
           toEcu' = Append(toEcu, r), Fewer(toGw', toGw), ecu' = ecu, pc' # "fc", ~InTransfer', Sids'
    PROVE  Supplement'
<1>1. /\ Len(toEcu) \in Nat /\ Len(toEcu') = Len(toEcu) + 1
      /\ \A i \in 1 .. Len(toEcu) : toEcu'[i] = toEcu[i]
      /\ toEcu'[Len(toEcu) + 1] = r
      /\ \A i \in 1 .. Len(toEcu) + 1 : i \in 1 .. Len(toEcu) \/ i = Len(toEcu) + 1
  BY AppendMore DEF ClientInv, Types, QueueTypes
<1>2. PICK gone : gone = toGw'
  OBVIOUS
<1>3. \A i \in 1 .. Len(gone) : \E j \in 1 .. Len(toGw) : gone[i] = toGw[j]
  BY <1>2 DEF Fewer
<1>4. NoStale'
  BY DEF NoStale
<1>5. Boots'
  <2>1. \A i \in 1 .. Len(gone) : gone[i].kind = "positive" /\ gone[i].sid = "0x10" => ecu.mode = "boot"
    BY <1>3 DEF Supplement, Boots
  <2>2. \A i \in 1 .. Len(toEcu') : toEcu'[i].sid \in TransferSid => ecu.mode = "boot"
    BY <1>1 DEF Supplement, Boots
  <2>3. QED
    BY <1>2, <2>1, <2>2 DEF Boots
<1>6. NoneGiven'
  <2>1. ecu.given # 0 => 1 \in 1 .. Len(toEcu) /\ toEcu[1].sid # "flow_control"
    BY <1>1 DEF Supplement, NoneGiven
  <2>2. QED
    BY <1>1, <2>1 DEF NoneGiven
<1>7. Exits'
  <2>1. \A i \in 1 .. Len(toEcu') : toEcu'[i].sid = "0x37" => ecu.stored = FirmwareLen
    BY <1>1 DEF Supplement, Exits, TransferSid
  <2>2. QED
    BY <2>1 DEF Exits
<1>8. QED
  BY <1>4, <1>5, <1>6, <1>7 DEF Supplement

(* A call begins.                                                          *)
LEMMA CallOrderly ==
    ASSUME ClientInv, Supplement, NEW s \in {"0x10", "0x22"}, Call(s)
    PROVE  Supplement'
<1>1. att \in 0 .. MaxCalls /\ att < MaxCalls /\ att' = att + 1 /\ MaxCalls \in Nat
  BY Bounds DEF ClientInv, Types, CallTypes, Call
<1>2. att' \in 1 .. MaxCalls /\ s \in Sid /\ 0 \in 0 .. MaxBsn /\ 0 \in 0 .. FirmwareLen
  BY <1>1, Bounds DEF Sid
<1>3. PICK r \in Message : r = Request(s, 0, 0, 0) /\ r.sid = s
  BY <1>2, RequestTyped
<1>4. toEcu' = Append(toEcu, r) /\ pc' = "wait" /\ sid' = s /\ toGw' = toGw /\ ecu' = ecu
  BY <1>3 DEF Call, SendSingle
<1>5. Fewer(toGw', toGw)
  BY <1>4, SameFewer DEF ClientInv, Types, QueueTypes
<1>6. r.sid \notin TransferSid /\ ~InTransfer' /\ Sids'
  BY <1>3, <1>4 DEF TransferSid, InTransfer, Sids
<1>7. QED
  BY <1>3, <1>4, <1>5, <1>6, OtherOrderly

(* The client waits for something else than the answer of a transfer.      *)
LEMMA WaitsFor ==
    ASSUME ClientInv, Supplement, pc = "wait", ~InTransfer
    PROVE  sid \in {"0x10", "0x22"}
  BY DEF ClientInv, Types, CallTypes, Sid, Supplement, Sids, InTransfer

(* Flow control is sent for a first frame.                                 *)
LEMMA FirstOrderly ==
    ASSUME ClientInv, Supplement, ReceiveFirst
    PROVE  Supplement' /\ sid \in {"0x10", "0x22"}
<1>1. /\ pc = "wait" /\ toGw # <<>> /\ Head(toGw).kind = "first" /\ toGw' = Tail(toGw)
      /\ pc' = "cf" /\ sid' = sid /\ att' = att /\ ecu' = ecu /\ frames' = <<Part(Head(toGw))>>
      /\ toEcu' = Append(toEcu, Request("flow_control", 0, 0, 0))
  BY DEF ReceiveFirst, Receive
<1>2. Fewer(toGw', toGw)
  BY <1>1, FrameTaken
<1>3. ~InTransfer
  <2>1. Len(toGw) \in Nat /\ 1 \in 1 .. Len(toGw) /\ toGw[1].kind = "first"
    BY <1>1, TailFewer DEF ClientInv, Types, QueueTypes
  <2>2. QED
    BY <2>1 DEF ClientInv, Agreement, InStep
<1>4. sid \in {"0x10", "0x22"}
  BY <1>1, <1>3, WaitsFor
<1>5. att' \in 1 .. MaxCalls /\ 0 \in 0 .. MaxBsn /\ 0 \in 0 .. FirmwareLen /\ "flow_control" \in Sid
  BY <1>1, Bounds DEF ClientInv, Types, CallTypes, Running, Sid
<1>6. PICK r \in Message : r = Request("flow_control", 0, 0, 0) /\ r.sid = "flow_control"
  BY <1>5, RequestTyped
<1>7. r.sid \notin TransferSid /\ ~InTransfer'
  BY <1>1, <1>6 DEF TransferSid, InTransfer
<1>8. Len(frames') = 1
  BY <1>1
<1>9. Sids'
  BY <1>1, <1>4, <1>8 DEF Sids
<1>10. toEcu' = Append(toEcu, r) /\ pc' # "fc"
  BY <1>1, <1>6
<1>11. QED
  BY <1>1, <1>2, <1>4, <1>6, <1>7, <1>9, <1>10, OtherOrderly

(* The session is open, and long requests may be sent.                     *)
LEMMA SessionOrderly ==
    ASSUME ClientInv, Supplement, ReceiveSession
    PROVE  Supplement'
<1>1. /\ pc = "wait" /\ toGw # <<>> /\ Head(toGw).kind = "positive" /\ Head(toGw).sid = "0x10"
      /\ toGw' = Tail(toGw) /\ pc' = "fc" /\ sid' = "0x34" /\ UNCHANGED <<att, ecu, toEcu>>
  BY DEF ReceiveSession, ReceivePositive, Receive, AwaitFlowControl
<1>2. Fewer(toGw', toGw)
  BY <1>1, FrameTaken
<1>3. PICK gone : gone = toGw'
  OBVIOUS
<1>4. \A i \in 1 .. Len(gone) : \E j \in 1 .. Len(toGw) : gone[i] = toGw[j]
  BY <1>2, <1>3 DEF Fewer
<1>5. 1 \in 1 .. Len(toGw) /\ toGw[1].kind = "positive" /\ toGw[1].sid = "0x10"
  BY <1>1, TailFewer DEF ClientInv, Types, QueueTypes
<1>6. ecu.mode = "boot"
  BY <1>5 DEF Supplement, Boots
<1>7. NoTransferAsked
  <2>1. ~EachPending
    BY <1>5 DEF EachPending
  <2>2. QED
    BY <2>1 DEF ClientInv, Agreement, Transfers, NoTransferAsked
<1>8. NoTransferAsked'
  BY <1>1, <1>7 DEF NoTransferAsked
<1>9. ~InTransfer'
  BY <1>1 DEF InTransfer
<1>10. Boots'
  BY <1>1, <1>6, <1>8, <1>9 DEF Boots
<1>11. NoStale' /\ NoneGiven' /\ Exits' /\ Sids'
  BY <1>1, <1>9 DEF Supplement, NoStale, NoneGiven, Exits, Sids
<1>12. QED
  BY <1>10, <1>11 DEF Supplement

(* The one request of a download is sent on empty queues.                  *)
LEMMA TransferOrderly ==
    ASSUME NEW r, toEcu' = <<r>>, Len(toGw') = 0, ecu'.mode = "boot", ecu'.given = 0,
           r.sid \in TransferSid, r.sid = "0x37" => ecu'.stored = FirmwareLen,
           pc' = "wait", sid' # "flow_control"
    PROVE  Supplement'
<1>1. Len(toEcu') = 1 /\ toEcu'[1] = r
  OBVIOUS
<1>2. \A i \in 1 .. 1 : i = 1
  OBVIOUS
<1>3. \A i : ~(i \in 1 .. Len(toGw'))
  OBVIOUS
<1>4. NoStale' /\ NoneGiven' /\ Sids'
  BY <1>3 DEF NoStale, NoneGiven, Sids
<1>5. Exits'
  BY <1>1, <1>2 DEF Exits
<1>6. Boots'
  BY <1>3 DEF Boots
<1>7. QED
  BY <1>4, <1>5, <1>6 DEF Supplement

(* The step asks for the next part of a download, or begins to.            *)
Asks ==
    /\ ecu' = ecu /\ Len(toGw') = 0
    /\ \/ pc' = "fc" /\ sid' = "0x36" /\ Len(toEcu') = 0
       \/ /\ pc' = "wait" /\ pending' = 0 /\ sid' \in TransferSid
          /\ \E r \in Message :
                /\ toEcu' = <<r>> /\ r.sid = sid' /\ r.att = att'
                /\ sid' = "0x36" => r.bsn = bsn'
                /\ sid' = "0x37" => ecu.stored = FirmwareLen

(* The transfer loop does.                                                 *)
LEMMA NextBlockAsks ==
    ASSUME ClientInv, Len(toEcu) = 0, Len(toGw') = 0, ecu' = ecu, att' \in 1 .. MaxCalls,
           NEW n \in 1 .. CfgPayload, NEW o \in 0 .. FirmwareLen, NEW b \in 1 .. MaxBsn,
           bsn' = b, ecu.stored = o, NextBlock(n, o, b)
    PROVE  Asks
<1>1. toEcu = <<>>
  BY EmptySeq DEF ClientInv, Types, QueueTypes
<1>2. 0 \in 0 .. MaxBsn /\ 0 \in 0 .. FirmwareLen /\ b \in 0 .. MaxBsn /\ "0x36" \in Sid /\ "0x37" \in Sid
  BY Bounds DEF Sid
<1>3. CASE o >= FirmwareLen
  <2>1. /\ sid' = "0x37" /\ pc' = "wait" /\ pending' = 0
        /\ toEcu' = Append(toEcu, Request("0x37", 0, 0, 0))
    BY <1>3 DEF NextBlock, SendSingle, Fresh
  <2>2. PICK r \in Message : r = Request("0x37", 0, 0, 0) /\ r.sid = "0x37" /\ r.att = att'
    BY <1>2, RequestTyped
  <2>3. toEcu' = <<r>> /\ sid' \in TransferSid /\ ecu.stored = FirmwareLen
    BY <1>1, <1>3, <2>1, <2>2, Bounds DEF TransferSid
  <2>4. QED
    BY <2>1, <2>2, <2>3 DEF Asks
<1>4. CASE ~(o >= FirmwareLen) /\ ChunkAt(n, o) <= SfPayload
  <2>1. /\ sid' = "0x36" /\ pc' = "wait" /\ pending' = 0
        /\ toEcu' = Append(toEcu, Request("0x36", b, o, ChunkAt(n, o)))
    BY <1>4 DEF NextBlock, SendSingle, Fresh
  <2>2. ChunkAt(n, o) \in 0 .. FirmwareLen
    BY ChunkInFirmware
  <2>3. PICK r \in Message : /\ r = Request("0x36", b, o, ChunkAt(n, o)) /\ r.sid = "0x36" /\ r.att = att'
    BY <1>2, <2>2, RequestTyped
  <2>4. r.bsn = b
    BY <2>3 DEF Request
  <2>5. toEcu' = <<r>> /\ sid' \in TransferSid
    BY <1>1, <2>1, <2>3 DEF TransferSid
  <2>6. QED
    BY <2>1, <2>3, <2>4, <2>5 DEF Asks
<1>5. CASE ~(o >= FirmwareLen) /\ ~(ChunkAt(n, o) <= SfPayload)
  BY <1>5 DEF NextBlock, AwaitFlowControl, Asks
<1>6. QED
  BY <1>3, <1>4, <1>5

(* The number of a block stays in range.                                   *)
LEMMA BsnTyped == ASSUME NEW b \in 1 .. MaxBsn PROVE NextBsn(b) \in 1 .. MaxBsn
  BY Bounds DEF NextBsn

(* Which the answers to 0x34 and 0x36 let it do, and flow control.         *)
LEMMA DownloadAsks ==
    ASSUME ClientInv, ReceiveDownload
    PROVE  Asks /\ failures' = failures /\ pc = "wait" /\ sid = "0x34"
<1>1. ReceivePositive("0x34") /\ "0x34" \in TransferSid
  BY DEF ReceiveDownload, TransferSid
<1>2. /\ Len(toEcu) = 0 /\ Len(toGw') = 0 /\ Done /\ sid = "0x34" /\ pc = "wait"
      /\ att' = att /\ ecu' = ecu /\ att \in 1 .. MaxCalls
  BY <1>1, TransferAnswered
<1>3. Head(toGw) \in Frame /\ Head(toGw).kind = "positive"
  BY <1>1, TailFewer DEF ReceivePositive, Receive, ClientInv, Types, QueueTypes
<1>4. Head(toGw).max \in Nat
  BY <1>3 DEF Frame, Reply, First, Consecutive
<1>5. PICK n \in 1 .. CfgPayload : n = BlockPayload(Head(toGw).max)
  BY <1>4, BlockPayloadTyped
<1>6. bsn' = 1 /\ NextBlock(n, 0, 1) /\ failures' = failures
  BY <1>5 DEF ReceiveDownload
<1>7. ecu.stored = 0 /\ 0 \in 0 .. FirmwareLen /\ 1 \in 1 .. MaxBsn
  BY <1>2, Bounds DEF Done
<1>8. QED
  BY <1>2, <1>6, <1>7, NextBlockAsks

(* A block that was accepted is followed by a clean request.               *)
LEMMA TransferAsks ==
    ASSUME ClientInv, ReceiveTransfer, Head(toGw).bsn = bsn
    PROVE  Asks /\ failures' = failures /\ pc = "wait" /\ sid = "0x36"
<1>1. ReceivePositive("0x36") /\ "0x36" \in TransferSid
  BY DEF ReceiveTransfer, TransferSid
<1>2. /\ Len(toEcu) = 0 /\ Len(toGw') = 0 /\ Done /\ sid = "0x36" /\ pc = "wait"
      /\ att' = att /\ ecu' = ecu /\ att \in 1 .. MaxCalls
  BY <1>1, TransferAnswered
<1>3. payload \in 1 .. CfgPayload /\ offset \in 0 .. FirmwareLen /\ bsn \in 1 .. MaxBsn
  BY DEF ClientInv, Types, LoopTypes
<1>4. PICK o \in 0 .. FirmwareLen : o = offset + ChunkAt(payload, offset)
  BY <1>3, ChunkInFirmware
<1>5. PICK b \in 1 .. MaxBsn : b = NextBsn(bsn)
  BY <1>3, BsnTyped
<1>6. bsn' = b /\ NextBlock(payload, o, b) /\ failures' = failures
  BY <1>4, <1>5 DEF ReceiveTransfer
<1>7. ecu.stored = o
  BY <1>2, <1>4 DEF Done
<1>8. QED
  BY <1>2, <1>3, <1>6, <1>7, NextBlockAsks

(* Flow control of the ECU is followed by a clean request.                 *)
LEMMA FlowControlAsks ==
    ASSUME ClientInv, FlowControl
    PROVE  Asks /\ failures' = failures /\ pc = "fc"
<1>1. /\ pc = "fc" /\ toEcu = <<>> /\ toGw' = <<>> /\ pc' = "wait" /\ sid' = sid /\ att' = att
      /\ ecu' = ecu /\ bsn' = bsn /\ pending' = 0 /\ failures' = failures
  BY DEF FlowControl, SendSingle, Fresh, transfer
<1>2. sid \in {"0x34", "0x36"}
  BY <1>1 DEF ClientInv, Agreement, FlowAwaited
<1>3. DEFINE r == IF sid = "0x34" THEN Request("0x34", 0, 0, 0)
                  ELSE Request("0x36", bsn, offset, ChunkAt(payload, offset))
<1>4. toEcu' = Append(toEcu, r)
  BY DEF FlowControl, SendSingle
<1>5. att' \in 1 .. MaxCalls
  BY <1>1, Bounds DEF ClientInv, Types, CallTypes, Running
<1>6. /\ payload \in 1 .. CfgPayload /\ offset \in 0 .. FirmwareLen /\ bsn \in 0 .. MaxBsn
      /\ ChunkAt(payload, offset) \in 0 .. FirmwareLen
  BY ChunkInFirmware, Bounds DEF ClientInv, Types, LoopTypes
<1>7. 0 \in 0 .. MaxBsn /\ 0 \in 0 .. FirmwareLen /\ "0x34" \in Sid /\ "0x36" \in Sid
  BY Bounds DEF Sid
<1>8. r \in Message /\ r.sid = sid /\ r.att = att' /\ (sid = "0x36" => r.bsn = bsn)
  <2>1. CASE sid = "0x34"
    <3>1. r = Request("0x34", 0, 0, 0)
      BY <2>1
    <3>2. QED
      BY <1>5, <1>7, <2>1, <3>1, RequestTyped
  <2>2. CASE sid = "0x36"
    <3>1. r = Request("0x36", bsn, offset, ChunkAt(payload, offset))
      BY <2>2
    <3>2. r.bsn = bsn
      BY <3>1 DEF Request
    <3>3. QED
      BY <1>5, <1>6, <1>7, <2>2, <3>1, <3>2, RequestTyped
  <2>3. QED
    BY <1>2, <2>1, <2>2
<1> HIDE DEF r
<1>9. toEcu' = <<r>> /\ Len(toGw') = 0 /\ sid' \in TransferSid /\ sid' # "0x37"
  BY <1>1, <1>2, <1>4 DEF TransferSid
<1>10. QED
  BY <1>1, <1>8, <1>9 DEF Asks

(* Then the queues are orderly, and clean.                                 *)
LEMMA AsksOrderly ==
    ASSUME Supplement, Asks, ecu.mode = "boot", ecu.given = 0
    PROVE  Supplement'
<1>1. CASE pc' = "fc" /\ sid' = "0x36" /\ Len(toEcu') = 0
  <2>1. \A i : ~(i \in 1 .. Len(toGw')) /\ ~(i \in 1 .. Len(toEcu'))
    BY <1>1 DEF Asks
  <2>2. ecu'.mode = "boot" /\ ecu'.given = 0
    BY DEF Asks
  <2>3. Boots'
    BY <2>1, <2>2 DEF Boots, NoTransferAsked
  <2>4. NoStale' /\ NoneGiven' /\ Exits' /\ Sids'
    BY <1>1, <2>1, <2>2 DEF NoStale, NoneGiven, Exits, Sids
  <2>5. QED
    BY <2>3, <2>4 DEF Supplement
<1>2. CASE pc' = "wait"
  <2>1. PICK r \in Message : toEcu' = <<r>> /\ r.sid = sid' /\ (sid' = "0x37" => ecu.stored = FirmwareLen)
    BY <1>2 DEF Asks
  <2>2. sid' \in TransferSid /\ ecu' = ecu /\ Len(toGw') = 0
    BY <1>2 DEF Asks
  <2>3. sid' # "flow_control"
    BY <2>2 DEF TransferSid
  <2>4. QED
    BY <1>2, <2>1, <2>2, <2>3, TransferOrderly
<1>3. QED
  BY <1>1, <1>2 DEF Asks

(* A client that has just asked is in a clean state.                       *)
LEMMA AsksClean ==
    ASSUME Asks, ecu.given = 0
    PROVE  Clean'
<1>1. CASE pc' = "fc" /\ Len(toEcu') = 0
  BY <1>1 DEF Asks, Clean
<1>2. CASE pc' = "wait"
  <2>1. PICK r : toEcu' = <<r>> /\ r.sid = sid' /\ r.att = att' /\ (sid' = "0x36" => r.bsn = bsn')
    BY <1>2 DEF Asks
  <2>2. Len(toEcu') = 1 /\ toEcu'[1] = r
    BY <2>1
  <2>3. Len(toGw') = 0 /\ pending' = 0 /\ ecu'.given = 0
    BY <1>2 DEF Asks
  <2>4. CleanAsked'
    BY <2>1, <2>2, <2>3, Bounds DEF CleanAsked, OwnRequest, EachPending
  <2>5. QED
    BY <1>2, <2>4 DEF Clean
<1>3. QED
  BY <1>1, <1>2 DEF Asks
(* The ECU has given no "pending" to a request that is not there.          *)
LEMMA NoneThere ==
    ASSUME Supplement, Len(toEcu) = 0
    PROVE  ecu.given = 0
  BY DEF Supplement, NoneGiven

(* What the client does when it asks on keeps the supplement.              *)
LEMMA AskingOrderly ==
    ASSUME ClientInv, Supplement,
           FlowControl \/ ReceiveDownload \/ (ReceiveTransfer /\ Head(toGw).bsn = bsn)
    PROVE  Supplement' /\ Clean' /\ failures' = failures
<1>1. Asks /\ failures' = failures
  BY DownloadAsks, TransferAsks, FlowControlAsks
<1>2. ecu.mode = "boot"
  <2>1. CASE FlowControl
    BY <2>1, FlowControlAsks DEF Supplement, Boots
  <2>2. CASE ReceiveDownload \/ (ReceiveTransfer /\ Head(toGw).bsn = bsn)
    <3>1. pc = "wait" /\ sid \in {"0x34", "0x36"}
      BY <2>2, DownloadAsks, TransferAsks
    <3>2. QED
      BY <3>1 DEF Supplement, Boots, InTransfer
  <2>3. QED
    BY <2>1, <2>2
<1>3. Len(toEcu) = 0
  <2>1. CASE FlowControl
    BY <2>1 DEF FlowControl
  <2>2. CASE ReceiveDownload
    BY <2>2, TransferAnswered DEF ReceiveDownload, TransferSid
  <2>3. CASE ReceiveTransfer
    BY <2>3, TransferAnswered DEF ReceiveTransfer, TransferSid
  <2>4. QED
    BY <2>1, <2>2, <2>3
<1>4. ecu.given = 0
  BY <1>3, NoneThere
<1>5. QED
  BY <1>1, <1>2, <1>4, AsksOrderly, AsksClean

(* The ECU takes a request, and gives a positive answer to it or none.     *)
LEMMA TakingOrderly ==
    ASSUME ClientInv, Supplement, toEcu # <<>>, toEcu' \in {<<>>, Tail(toEcu)}, UNCHANGED client,
           \A i \in 1 .. Len(toGw') : toGw'[i].kind = "positive" =>
              \/ \E j \in 1 .. Len(toGw) : toGw'[i] = toGw[j]
              \/ /\ toGw'[i].sid = Head(toEcu).sid /\ toGw'[i].att = Head(toEcu).att
                 /\ Head(toEcu).sid = "0x10" => ecu'.mode = "boot",
           ecu'.given = 0, ecu'.mode \in {"boot", ecu.mode} \/ Head(toEcu).sid = "0x37"
    PROVE  Supplement'
<1>1. /\ NoTransferAsked'
      /\ Len(toEcu) >= 1 /\ Head(toEcu) = toEcu[1]
      /\ Head(toEcu).sid \in TransferSid => EachPending
      /\ InTransfer => Len(toEcu') = 0 /\ Asked(Head(toEcu)) /\ EachPending
  BY RequestTaken
<1>2. UNCHANGED <<pc, sid, att, payload, offset, frames>>
  BY DEF client, transfer
<1>3. InTransfer' => InTransfer
  BY <1>2 DEF InTransfer
<1>4. NoStale'
  <2>1. SUFFICES ASSUME InTransfer', NEW i \in 1 .. Len(toGw'), toGw'[i].kind = "positive"
                 PROVE  toGw'[i].sid = sid /\ toGw'[i].att = att
    BY <1>2 DEF NoStale
  <2>2. InTransfer /\ Asked(Head(toEcu)) /\ EachPending
    BY <1>1, <1>3, <2>1
  <2>3. Head(toEcu).sid = sid /\ Head(toEcu).att = att
    BY <2>2 DEF Asked
  <2>4. ~ \E j \in 1 .. Len(toGw) : toGw'[i] = toGw[j]
    BY <2>1, <2>2 DEF EachPending
  <2>5. QED
    BY <2>1, <2>3, <2>4
<1>5. Boots'
  <2>1. ASSUME NEW i \in 1 .. Len(toGw'), toGw'[i].kind = "positive", toGw'[i].sid = "0x10"
        PROVE  ecu'.mode = "boot"
    <3>1. CASE \E j \in 1 .. Len(toGw) : toGw'[i] = toGw[j]
      <4>1. PICK j \in 1 .. Len(toGw) : toGw'[i] = toGw[j]
        BY <3>1
      <4>2. ecu.mode = "boot" /\ ~EachPending
        BY <2>1, <4>1 DEF Supplement, Boots, EachPending
      <4>3. Head(toEcu).sid # "0x37"
        BY <1>1, <4>2 DEF TransferSid
      <4>4. QED
        BY <4>2, <4>3
    <3>2. CASE toGw'[i].sid = Head(toEcu).sid /\ (Head(toEcu).sid = "0x10" => ecu'.mode = "boot")
      BY <2>1, <3>2
    <3>3. QED
      BY <2>1, <3>1, <3>2
  <2>2. pc' = "fc" => ecu'.mode = "boot"
    <3>1. SUFFICES ASSUME pc = "fc" PROVE ecu'.mode = "boot"
      BY <1>2
    <3>2. ecu.mode = "boot" /\ NoTransferAsked
      BY <3>1 DEF Supplement, Boots
    <3>3. 1 \in 1 .. Len(toEcu)
      BY TailFewer DEF ClientInv, Types, QueueTypes
    <3>4. Head(toEcu).sid # "0x37"
      BY <1>1, <3>2, <3>3 DEF NoTransferAsked, TransferSid
    <3>5. QED
      BY <3>2, <3>4
  <2>3. \A i \in 1 .. Len(toEcu') : toEcu'[i].sid \in TransferSid => ecu'.mode = "boot"
    BY <1>1 DEF NoTransferAsked
  <2>4. InTransfer' /\ sid' \in {"0x34", "0x36"} => ecu'.mode = "boot"
    <3>1. SUFFICES ASSUME InTransfer, sid \in {"0x34", "0x36"} PROVE ecu'.mode = "boot"
      BY <1>2, <1>3
    <3>2. Asked(Head(toEcu)) /\ ecu.mode = "boot"
      BY <1>1, <3>1 DEF Supplement, Boots
    <3>3. Head(toEcu).sid # "0x37"
      BY <3>1, <3>2 DEF Asked
    <3>4. QED
      BY <3>2, <3>3
  <2>5. QED
    BY <1>1, <2>1, <2>2, <2>3, <2>4 DEF Boots
<1>6. NoneGiven'
  BY DEF NoneGiven
<1>7. Exits'
  BY <1>1 DEF Exits, NoTransferAsked, TransferSid
<1>8. Sids'
  BY <1>2 DEF Supplement, Sids
<1>9. QED
  BY <1>4, <1>5, <1>6, <1>7, <1>8 DEF Supplement

(* One answer is given.                                                    *)
LEMMA AnsweringOrderly ==
    ASSUME ClientInv, Supplement, toEcu # <<>>, toEcu' \in {<<>>, Tail(toEcu)}, UNCHANGED client,
           NEW m \in Frame, toGw' = Append(toGw, m),
           m.kind = "positive" => /\ m.sid = Head(toEcu).sid /\ m.att = Head(toEcu).att
                                  /\ Head(toEcu).sid = "0x10" => ecu'.mode = "boot",
           ecu'.given = 0, ecu'.mode \in {"boot", ecu.mode} \/ Head(toEcu).sid = "0x37"
    PROVE  Supplement'
<1>1. /\ Len(toGw) \in Nat /\ Len(toGw') = Len(toGw) + 1
      /\ \A i \in 1 .. Len(toGw) : toGw'[i] = toGw[i]
      /\ toGw'[Len(toGw) + 1] = m
      /\ \A i \in 1 .. Len(toGw) + 1 : i \in 1 .. Len(toGw) \/ i = Len(toGw) + 1
  BY AppendMore DEF ClientInv, Types, QueueTypes
<1>2. \A i \in 1 .. Len(toGw') : toGw'[i].kind = "positive" =>
              \/ \E j \in 1 .. Len(toGw) : toGw'[i] = toGw[j]
              \/ /\ toGw'[i].sid = Head(toEcu).sid /\ toGw'[i].att = Head(toEcu).att
                 /\ Head(toEcu).sid = "0x10" => ecu'.mode = "boot"
  BY <1>1
<1>3. QED
  BY <1>2, TakingOrderly

(* What every answer of the ECU does: the answer is appended, the request  *)
(* is taken, and "pending" is counted anew.                                *)
Answers(m) ==
    /\ toEcu # <<>> /\ m \in Frame /\ toGw' = Append(toGw, m)
    /\ UNCHANGED client /\ ecu'.given = 0 /\ ecu'.owes = (m.kind = "first")

(* The answer is positive, and to the first request.                       *)
PositiveAnswer(m) ==
    /\ m.kind = "positive" /\ m.sid = Head(toEcu).sid /\ m.att = Head(toEcu).att
    /\ m.bsn = Head(toEcu).bsn /\ UNCHANGED faults

(* What a positive answer of the ECU does.                                 *)
LEMMA PositiveAnswers ==
    ASSUME ClientInv, NEW e, e \in [mode : {"app", "boot"}, stored : Int, given : Nat, installed : 0 .. MaxCalls,
                      owes : BOOLEAN],
           toEcu # <<>>, NEW max \in Nat, NEW rest, EcuAnswers(max, e, rest)
    PROVE  /\ toEcu' = rest /\ ecu'.mode = e.mode
           /\ \E m \in Frame : Answers(m) /\ PositiveAnswer(m)
<1>1. PICK m \in Frame : m = Answer("positive", Head(toEcu), max) /\ m.kind = "positive"
  BY AnswerTyped
<1>2. /\ m.sid = Head(toEcu).sid /\ m.att = Head(toEcu).att /\ m.bsn = Head(toEcu).bsn
  BY <1>1 DEF Answer
<1>3. /\ toGw' = Append(toGw, m) /\ ecu' = [e EXCEPT !.given = 0, !.owes = FALSE]
      /\ toEcu' = rest /\ UNCHANGED <<client, faults>>
  BY <1>1 DEF EcuAnswers
<1>4. ecu'.given = 0 /\ ecu'.owes = FALSE /\ ecu'.mode = e.mode
  BY <1>3
<1>5. QED
  BY <1>1, <1>2, <1>3, <1>4 DEF Answers, PositiveAnswer

(* The four steps of the ECU that give a positive answer.                  *)
LEMMA EcuAnswersWell ==
    ASSUME ClientInv, EcuSession \/ EcuRequestDownload \/ EcuTransferData \/ EcuTransferExit
    PROVE  /\ toEcu # <<>> /\ toEcu' \in {<<>>, Tail(toEcu)}
           /\ \E m \in Frame : Answers(m) /\ PositiveAnswer(m)
           /\ Head(toEcu).sid \in {"0x10", "0x34", "0x36", "0x37"}
           /\ Head(toEcu).sid = "0x10" => ecu'.mode = "boot"
           /\ ecu'.mode \in {"boot", ecu.mode} \/ Head(toEcu).sid = "0x37"
<1> DEFINE Ecus == [mode : {"app", "boot"}, stored : Int, given : Nat, installed : 0 .. MaxCalls,
                    owes : BOOLEAN]
<1>1. ecu \in Ecus
  BY DEF ClientInv, Types, EcuTypes
<1>2. toEcu # <<>>
  BY DEF EcuSession, EcuRequestDownload, EcuTransferData, EcuTransferExit, EcuReads
<1>8. NotStored \in Int
  BY DEF NotStored
<1>3. CASE EcuSession
  <2>1. PICK e : e = [ecu EXCEPT !.mode = "boot", !.stored = NotStored]
    OBVIOUS
  <2>2. e \in Ecus /\ e.mode = "boot"
    BY <1>1, <1>8, <2>1
  <2>3. PICK rest \in {<<>>, Tail(toEcu)} : EcuAnswers(0, e, rest)
    BY <1>3, <2>1 DEF EcuSession
  <2>4. Head(toEcu).sid = "0x10"
    BY <1>3 DEF EcuSession, EcuReads
  <2>5. QED
    BY <1>2, <2>2, <2>3, <2>4, PositiveAnswers
<1>4. CASE EcuRequestDownload
  <2>1. PICK e : e = [ecu EXCEPT !.stored = 0]
    OBVIOUS
  <2>2. e \in Ecus /\ e.mode = ecu.mode
    BY <1>1, <2>1
  <2>3. PICK max \in EcuPayloads : EcuAnswers(max, e, Tail(toEcu))
    BY <1>4, <2>1 DEF EcuRequestDownload
  <2>4. max \in Nat /\ Head(toEcu).sid = "0x34"
    BY <1>4, Bounds DEF EcuRequestDownload, EcuReads
  <2>5. QED
    BY <1>2, <2>2, <2>3, <2>4, PositiveAnswers
<1>5. CASE EcuTransferData
  <2>1. Head(toEcu).sid = "0x36" /\ Head(toEcu).len \in Nat
    BY <1>2, <1>5, HeadTyped DEF EcuTransferData, EcuReads
  <2>2. PICK n : n = IF Head(toEcu).off = ecu.stored THEN ecu.stored + Head(toEcu).len ELSE Corrupt
    OBVIOUS
  <2>3. n \in Int
    BY <1>1, <2>1, <2>2 DEF Corrupt
  <2>4. PICK e : e = [ecu EXCEPT !.stored = n]
    OBVIOUS
  <2>5. e \in Ecus /\ e.mode = ecu.mode
    BY <1>1, <2>3, <2>4
  <2>6. EcuAnswers(0, e, Tail(toEcu))
    BY <1>5, <2>2, <2>4 DEF EcuTransferData
  <2>7. QED
    BY <1>2, <2>1, <2>5, <2>6, PositiveAnswers
<1>6. CASE EcuTransferExit
  <2>1. Head(toEcu).sid = "0x37" /\ Head(toEcu).att \in 0 .. MaxCalls
    BY <1>2, <1>6, HeadTyped, Bounds DEF EcuTransferExit, EcuReads
  <2>2. PICK e : e = [ecu EXCEPT !.mode = "app", !.stored = NotStored, !.installed = Head(toEcu).att]
    OBVIOUS
  <2>3. e \in Ecus
    BY <1>1, <1>8, <2>1, <2>2
  <2>4. EcuAnswers(0, e, <<>>)
    BY <1>6, <2>2 DEF EcuTransferExit
  <2>5. QED
    BY <1>2, <2>1, <2>3, <2>4, PositiveAnswers
<1>7. QED
  BY <1>3, <1>4, <1>5, <1>6

(* The version is read.                                                    *)
LEMMA EcuReadsWell ==
    ASSUME ClientInv, EcuReadVersion
    PROVE  /\ toEcu # <<>> /\ toEcu' = Tail(toEcu) /\ ecu'.mode = ecu.mode
           /\ Head(toEcu).sid = "0x22" /\ UNCHANGED faults
           /\ \E m \in Frame : Answers(m) /\ m.kind = "first"
<1>1. /\ toEcu # <<>> /\ toEcu' = Tail(toEcu) /\ UNCHANGED <<client, faults>> /\ Head(toEcu).sid = "0x22"
      /\ ecu' = [ecu EXCEPT !.given = 0, !.owes = TRUE]
  BY DEF EcuReadVersion, EcuReads
<1>2. ecu'.given = 0 /\ ecu'.owes = TRUE /\ ecu'.mode = ecu.mode
  BY <1>1 DEF ClientInv, Types, EcuTypes
<1>3. PICK m : m = [kind |-> "first", att |-> Head(toEcu).att, sn |-> 0, version |-> ecu.installed]
  OBVIOUS
<1>4. m \in First
  <2>1. Head(toEcu).att \in 1 .. MaxCalls /\ ecu.installed \in 0 .. MaxCalls
    BY <1>1, HeadTyped DEF ClientInv, Types, EcuTypes
  <2>2. QED
    BY <1>3, <2>1 DEF First
<1>5. m \in Frame /\ m.kind = "first"
  BY <1>3, <1>4 DEF Frame
<1>6. toGw' = Append(toGw, m)
  BY <1>3 DEF EcuReadVersion
<1>7. QED
  BY <1>1, <1>2, <1>5, <1>6 DEF Answers

(* A request is refused.                                                   *)
LEMMA EcuRefusesWell ==
    ASSUME ClientInv, EcuRefuse
    PROVE  /\ toEcu # <<>> /\ toEcu' = Tail(toEcu) /\ ecu'.mode = ecu.mode
           /\ Head(toEcu).sid # "flow_control"
           /\ \E m \in Frame : Answers(m) /\ m.kind = "negative"
<1>1. /\ toEcu # <<>> /\ toEcu' = Tail(toEcu) /\ UNCHANGED client /\ Head(toEcu).sid # "flow_control"
      /\ ecu' = [ecu EXCEPT !.given = 0, !.owes = FALSE]
      /\ toGw' = Append(toGw, Answer("negative", Head(toEcu), 0))
  BY DEF EcuRefuse
<1>2. ecu'.given = 0 /\ ecu'.owes = FALSE /\ ecu'.mode = ecu.mode
  BY <1>1 DEF ClientInv, Types, EcuTypes
<1>3. PICK m \in Frame : m = Answer("negative", Head(toEcu), 0) /\ m.kind = "negative"
  BY <1>1, AnswerTyped
<1>4. QED
  BY <1>1, <1>2, <1>3 DEF Answers

(* The ECU refuses nothing that a client in step with it asks for: each    *)
(* refusal counts as a fault.                                              *)
LEMMA RefusalIsFault ==
    ASSUME ClientInv, Supplement, EcuRefuse
    PROVE  Fault
<1>1. 1 \in 1 .. Len(toEcu) /\ Head(toEcu) = toEcu[1]
  BY TailFewer DEF EcuRefuse, ClientInv, Types, QueueTypes
<1>2. toEcu[1].sid = "0x34" => ecu.mode = "boot"
  BY <1>1 DEF Supplement, Boots, TransferSid
<1>3. toEcu[1].sid = "0x36" => ecu.stored # NotStored
  <2>1. toEcu # <<>>
    BY DEF EcuRefuse
  <2>2. Head(toEcu).off \in Nat
    BY <2>1, HeadTyped
  <2>3. toEcu[1].sid = "0x36" => toEcu[1].off = ecu.stored
    BY <1>1 DEF ClientInv, Agreement, Transfers, TransferSid
  <2>4. QED
    BY <1>1, <2>2, <2>3 DEF NotStored
<1>4. toEcu[1].sid = "0x37" => ecu.stored = FirmwareLen
  BY <1>1 DEF Supplement, Exits
<1>5. QED
  BY <1>1, <1>2, <1>3, <1>4 DEF EcuRefuse

(* Flow control is taken: the frames owed are consecutive frames.          *)
LEMMA EcuFlowsWell ==
    ASSUME ClientInv, EcuFlowControlled
    PROVE  /\ toEcu # <<>> /\ toEcu' = Tail(toEcu) /\ ecu'.mode = ecu.mode /\ ecu'.given = ecu.given
           /\ Head(toEcu).sid = "flow_control" /\ UNCHANGED <<client, faults>> /\ ecu'.owes = FALSE
           /\ ~ecu.owes => toGw' = toGw
           /\ ecu.owes => \E x : Rest(x, 1) /\ toGw' = toGw \o x
<1>1. /\ toEcu # <<>> /\ toEcu' = Tail(toEcu) /\ Head(toEcu).sid = "flow_control"
      /\ UNCHANGED <<client, faults>> /\ ecu' = [ecu EXCEPT !.owes = FALSE]
  BY DEF EcuFlowControlled, EcuReads
<1>2. ecu'.mode = ecu.mode /\ ecu'.given = ecu.given /\ ecu'.owes = FALSE
  BY <1>1 DEF ClientInv, Types, EcuTypes
<1>3. ~ecu.owes => toGw' = toGw
  BY DEF EcuFlowControlled
<1>4. ASSUME ecu.owes PROVE \E x : Rest(x, 1) /\ toGw' = toGw \o x
  <2>1. PICK x : x = [n \in 1 .. VersionFrames |->
                       [kind |-> "consecutive", att |-> Head(toEcu).att, sn |-> n,
                        version |-> ecu.installed]]
    OBVIOUS
  <2>2. toGw' = toGw \o x
    BY <1>4, <2>1 DEF EcuFlowControlled
  <2>3. x \in Seq(Frame) /\ Len(x) = VersionFrames
    BY <1>1, <2>1, OwedFrames
  <2>4. \A i \in 1 .. VersionFrames : x[i].kind = "consecutive" /\ x[i].sn = i
    BY <2>1
  <2>5. 1 \in 1 .. After /\ VersionFrames = After - 1 /\ \A i \in 1 .. VersionFrames : i = 1 + i - 1
    BY Sizes
  <2>6. QED
    BY <2>2, <2>3, <2>4, <2>5 DEF Rest, Queue
<1>5. QED
  BY <1>1, <1>2, <1>3, <1>4

(* What the ECU does keeps the supplement.                                 *)
LEMMA EcuOrderly ==
    ASSUME ClientInv, Supplement, Ecu
    PROVE  Supplement'
<1>1. CASE EcuSession \/ EcuRequestDownload \/ EcuTransferData \/ EcuTransferExit
  <2>1. /\ toEcu # <<>> /\ toEcu' \in {<<>>, Tail(toEcu)}
        /\ Head(toEcu).sid = "0x10" => ecu'.mode = "boot"
        /\ ecu'.mode \in {"boot", ecu.mode} \/ Head(toEcu).sid = "0x37"
    BY <1>1, EcuAnswersWell
  <2>2. PICK m \in Frame : Answers(m) /\ PositiveAnswer(m)
    BY <1>1, EcuAnswersWell
  <2>3. toGw' = Append(toGw, m) /\ UNCHANGED client /\ ecu'.given = 0
    BY <2>2 DEF Answers
  <2>4. m.sid = Head(toEcu).sid /\ m.att = Head(toEcu).att
    BY <2>2 DEF PositiveAnswer
  <2>5. QED
    BY <2>1, <2>3, <2>4, AnsweringOrderly
<1>2. CASE EcuReadVersion \/ EcuRefuse
  <2>1. toEcu # <<>> /\ toEcu' = Tail(toEcu) /\ ecu'.mode = ecu.mode
    BY <1>2, EcuReadsWell, EcuRefusesWell
  <2>2. PICK m \in Frame : Answers(m) /\ m.kind # "positive"
    BY <1>2, EcuReadsWell, EcuRefusesWell
  <2>3. toGw' = Append(toGw, m) /\ UNCHANGED client /\ ecu'.given = 0
    BY <2>2 DEF Answers
  <2>4. toEcu' \in {<<>>, Tail(toEcu)} /\ ecu'.mode \in {"boot", ecu.mode}
    BY <2>1
  <2>5. QED
    BY <2>1, <2>2, <2>3, <2>4, AnsweringOrderly
<1>3. CASE EcuFlowControlled
  <2>1. /\ toEcu # <<>> /\ toEcu' = Tail(toEcu) /\ ecu'.mode = ecu.mode /\ ecu'.given = ecu.given
        /\ Head(toEcu).sid = "flow_control" /\ UNCHANGED client
    BY <1>3, EcuFlowsWell
  <2>2. Head(toEcu) = toEcu[1]
    BY <2>1, TailFewer DEF ClientInv, Types, QueueTypes
  <2>3. ecu'.given = 0
    BY <2>1, <2>2 DEF Supplement, NoneGiven
  <2>4. \A i \in 1 .. Len(toGw') : toGw'[i].kind = "positive" => \E j \in 1 .. Len(toGw) : toGw'[i] = toGw[j]
    <3>1. CASE ~ecu.owes
      <4>1. toGw' = toGw
        BY <1>3, <3>1, EcuFlowsWell
      <4>2. QED
        BY <4>1
    <3>2. CASE ecu.owes
      <4>1. PICK x : Rest(x, 1) /\ toGw' = toGw \o x
        BY <1>3, <3>2, EcuFlowsWell
      <4>2. x \in Seq(Frame) /\ \A i \in 1 .. Len(x) : x[i].kind = "consecutive"
        BY <4>1 DEF Rest, Queue
      <4>3. /\ Len(toGw) \in Nat /\ Len(x) \in Nat /\ Len(toGw') = Len(toGw) + Len(x)
            /\ \A i \in 1 .. Len(toGw) + Len(x) :
                  toGw'[i] = IF i <= Len(toGw) THEN toGw[i] ELSE x[i - Len(toGw)]
        BY <4>1, <4>2, ConcatProperties, LenProperties DEF ClientInv, Types, QueueTypes
      <4>4. SUFFICES ASSUME NEW i \in 1 .. Len(toGw'), toGw'[i].kind = "positive"
                     PROVE  \E j \in 1 .. Len(toGw) : toGw'[i] = toGw[j]
        OBVIOUS
      <4>5. CASE i <= Len(toGw)
        BY <4>3, <4>4, <4>5
      <4>6. CASE ~(i <= Len(toGw))
        <5>1. i - Len(toGw) \in 1 .. Len(x) /\ toGw'[i] = x[i - Len(toGw)]
          BY <4>3, <4>4, <4>6
        <5>2. QED
          BY <4>2, <4>4, <5>1
      <4>7. QED
        BY <4>5, <4>6
    <3>3. QED
      BY <3>1, <3>2
  <2>5. toEcu' \in {<<>>, Tail(toEcu)} /\ ecu'.mode \in {"boot", ecu.mode}
    BY <2>1
  <2>6. QED
    BY <2>1, <2>3, <2>4, <2>5, TakingOrderly
<1>4. QED
  BY <1>1, <1>2, <1>3 DEF Ecu

(* What a "pending" answer does.                                           *)
LEMMA KeepsAliveWell ==
    ASSUME ClientInv, EcuKeepAlive
    PROVE  /\ toEcu # <<>> /\ Head(toEcu).sid # "flow_control" /\ UNCHANGED <<client, toEcu>>
           /\ ecu'.mode = ecu.mode /\ ecu'.stored = ecu.stored /\ ecu'.given = ecu.given + 1
           /\ ecu'.owes = FALSE
           /\ IF ecu.given < MaxPending THEN UNCHANGED faults ELSE Fault
           /\ \E m \in Frame : toGw' = Append(toGw, m) /\ m.kind = "pending"
<1>1. /\ toEcu # <<>> /\ Head(toEcu).sid # "flow_control" /\ UNCHANGED <<client, toEcu>>
      /\ ecu' = [ecu EXCEPT !.given = ecu.given + 1, !.owes = FALSE]
      /\ IF ecu.given < MaxPending THEN UNCHANGED faults ELSE Fault
      /\ toGw' = Append(toGw, Answer("pending", Head(toEcu), 0))
  BY DEF EcuKeepAlive
<1>2. /\ ecu'.mode = ecu.mode /\ ecu'.stored = ecu.stored /\ ecu'.given = ecu.given + 1
      /\ ecu'.owes = FALSE
  BY <1>1 DEF ClientInv, Types, EcuTypes
<1>3. PICK m \in Frame : m = Answer("pending", Head(toEcu), 0) /\ m.kind = "pending"
  BY <1>1, AnswerTyped
<1>4. QED
  BY <1>1, <1>2, <1>3

(* So does a "pending" answer.                                             *)
LEMMA KeepAliveOrderly ==
    ASSUME ClientInv, Supplement, EcuKeepAlive
    PROVE  Supplement'
<1>1. /\ toEcu # <<>> /\ Head(toEcu).sid # "flow_control" /\ UNCHANGED <<client, toEcu>>
      /\ ecu'.mode = ecu.mode /\ ecu'.stored = ecu.stored
  BY KeepsAliveWell
<1>2. PICK m \in Frame : toGw' = Append(toGw, m) /\ m.kind = "pending"
  BY KeepsAliveWell
<1>3. /\ Len(toGw) \in Nat /\ Len(toGw') = Len(toGw) + 1
      /\ \A i \in 1 .. Len(toGw) : toGw'[i] = toGw[i]
      /\ toGw'[Len(toGw) + 1] = m
      /\ \A i \in 1 .. Len(toGw) + 1 : i \in 1 .. Len(toGw) \/ i = Len(toGw) + 1
  BY <1>2, AppendMore DEF ClientInv, Types, QueueTypes
<1>4. \A i \in 1 .. Len(toGw') : toGw'[i].kind = "positive" => \E j \in 1 .. Len(toGw) : toGw'[i] = toGw[j]
  BY <1>2, <1>3
<1>5. UNCHANGED <<pc, sid, att, frames>>
  BY <1>1 DEF client, transfer
<1>6. NoStale'
  BY <1>4, <1>5 DEF Supplement, NoStale, InTransfer
<1>7. Boots'
  <2>1. \A i \in 1 .. Len(toGw') : toGw'[i].kind = "positive" /\ toGw'[i].sid = "0x10" => ecu.mode = "boot"
    BY <1>4 DEF Supplement, Boots
  <2>2. QED
    BY <1>1, <1>5, <2>1 DEF Supplement, Boots, InTransfer, NoTransferAsked
<1>8. NoneGiven'
  <2>1. Len(toEcu) >= 1 /\ toEcu[1] = Head(toEcu)
    BY <1>1, TailFewer DEF ClientInv, Types, QueueTypes
  <2>2. QED
    BY <1>1, <2>1 DEF NoneGiven
<1>9. Exits' /\ Sids'
  BY <1>1, <1>5 DEF Supplement, Exits, Sids
<1>10. QED
  BY <1>6, <1>7, <1>8, <1>9 DEF Supplement

(* A request is lost.                                                      *)
LEMMA LossWell ==
    ASSUME ClientInv, LoseRequest
    PROVE  /\ UNCHANGED <<client, toGw>> /\ Fault
           /\ \E i \in 1 .. Len(toEcu) : toEcu' = RemoveAt(toEcu, i)
           /\ ecu'.mode = ecu.mode /\ ecu'.stored = ecu.stored /\ ecu'.given = 0 /\ ecu'.owes = ecu.owes
<1>1. UNCHANGED <<client, toGw>> /\ Fault /\ ecu' = [ecu EXCEPT !.given = 0]
  BY DEF LoseRequest
<1>2. ecu'.mode = ecu.mode /\ ecu'.stored = ecu.stored /\ ecu'.given = 0 /\ ecu'.owes = ecu.owes
  BY <1>1 DEF ClientInv, Types, EcuTypes
<1>3. DOMAIN toEcu = 1 .. Len(toEcu)
  BY LenProperties DEF ClientInv, Types, QueueTypes
<1>4. QED
  BY <1>1, <1>2, <1>3 DEF LoseRequest

(* So does the loss of a request.                                          *)
LEMMA LossOrderly ==
    ASSUME ClientInv, Supplement, LoseRequest
    PROVE  Supplement'
<1>1. PICK k \in DOMAIN toEcu : toEcu' = RemoveAt(toEcu, k)
  BY DEF LoseRequest
<1>2. Fewer(toEcu', toEcu)
  BY <1>1, RemoveFewer DEF ClientInv, Types, QueueTypes
<1>3. PICK left : left = toEcu'
  OBVIOUS
<1>4. \A i \in 1 .. Len(left) : \E j \in 1 .. Len(toEcu) : left[i] = toEcu[j]
  BY <1>2, <1>3 DEF Fewer
<1>5. /\ UNCHANGED <<client, toGw>>
      /\ ecu'.mode = ecu.mode /\ ecu'.stored = ecu.stored /\ ecu'.given = 0
  BY LossWell
<1>6. UNCHANGED <<pc, sid, att, frames>>
  BY <1>5 DEF client, transfer
<1>7. NoStale'
  BY <1>5, <1>6 DEF Supplement, NoStale, InTransfer
<1>8. Boots'
  <2>1. NoTransferAsked => NoTransferAsked'
    BY <1>3, <1>4 DEF NoTransferAsked
  <2>2. \A i \in 1 .. Len(left) : left[i].sid \in TransferSid => ecu.mode = "boot"
    BY <1>4 DEF Supplement, Boots
  <2>3. QED
    BY <1>3, <1>5, <1>6, <2>1, <2>2 DEF Supplement, Boots, InTransfer
<1>9. NoneGiven' /\ Sids'
  BY <1>5, <1>6 DEF Supplement, NoneGiven, Sids
<1>10. Exits'
  BY <1>3, <1>4, <1>5 DEF Supplement, Exits
<1>11. QED
  BY <1>7, <1>8, <1>9, <1>10 DEF Supplement

(* The steps that take an answer, and send nothing.                        *)
Takes ==
    \/ ReceivePending \/ ReceiveNegative \/ ReceiveUnexpected \/ ReceiveExit \/ ReceiveStray
    \/ CollectOther \/ CollectConsecutive \/ (ReceiveTransfer /\ Head(toGw).bsn # bsn)

(* A client that takes an answer takes the first, and goes on, fails or    *)
(* ends.                                                                   *)
LEMMA TakesWell ==
    ASSUME ClientInv, Supplement, Takes
    PROVE  /\ toGw # <<>> /\ toGw' = Tail(toGw) /\ UNCHANGED <<toEcu, ecu, sid, att, faults>>
           /\ pc' = pc \/ pc' \in {"failed", "ok"}
           /\ pc' = "cf" => Len(frames') >= 1
<1>1. CASE \/ ReceivePending \/ ReceiveNegative \/ ReceiveUnexpected \/ ReceiveExit \/ ReceiveStray
           \/ (ReceiveTransfer /\ Head(toGw).bsn # bsn)
  BY <1>1 DEF ReceivePending, ReceiveNegative, ReceiveUnexpected, ReceiveExit, ReceiveStray,
     ReceiveTransfer, ReceivePositive, Receive, Fail
<1>2. CASE CollectOther
  BY <1>2 DEF CollectOther, Collect, Supplement, Sids
<1>3. CASE CollectConsecutive
  <2>1. /\ toGw # <<>> /\ toGw' = Tail(toGw) /\ UNCHANGED <<toEcu, ecu, sid, att, faults>> /\ pc = "cf"
        /\ \/ Fail
           \/ pc' = pc /\ frames' = Append(frames, Part(Head(toGw)))
           \/ pc' = "ok"
    BY <1>3 DEF CollectConsecutive, Collect, Fail
  <2>2. CASE Fail \/ pc' = "ok"
    BY <2>1, <2>2 DEF Fail
  <2>3. CASE pc' = pc /\ frames' = Append(frames, Part(Head(toGw)))
    <3>1. Len(frames) \in Nat /\ Len(frames') = Len(frames) + 1
      <4>1. frames \in Seq(VersionPart)
        BY DEF ClientInv, Types, FramesTypes
      <4>2. QED
        BY <2>3, <4>1
    <3>2. QED
      BY <2>1, <2>3, <3>1
  <2>4. QED
    BY <2>1, <2>2, <2>3
<1>4. QED
  BY <1>1, <1>2, <1>3 DEF Takes

(* The steps that fail or wait, with the queues as they are.               *)
Lingers == FlowControlTimeout \/ ReceiveTimeout \/ ReceiveForeign \/ Tick \/ UNCHANGED vars

(* A client that does not leaves the queues alone, but for a lost answer.  *)
LEMMA LingersWell ==
    ASSUME ClientInv, Supplement, Lingers
    PROVE  /\ UNCHANGED <<toGw, toEcu, ecu, sid, att>> /\ (pc' = pc \/ pc' = "failed")
           /\ frames' = frames /\ Fewer(toGw', toGw) /\ (pc' = "cf" => Len(frames') >= 1)
<1>1. /\ UNCHANGED <<toGw, toEcu, ecu, sid, att>> /\ (pc' = pc \/ pc' = "failed")
      /\ frames' = frames
  BY DEF Lingers, FlowControlTimeout, ReceiveTimeout, ReceiveForeign, Tick, Fail, vars, client
<1>2. Fewer(toGw', toGw)
  BY <1>1, SameFewer DEF ClientInv, Types, QueueTypes
<1>3. QED
  BY <1>1, <1>2 DEF Supplement, Sids

(* Every step keeps the supplement.                                        *)
LEMMA SupplementStays ==
    ASSUME ClientInv, Supplement, [Next]_vars
    PROVE  Supplement'
<1>1. CASE StartDownload \/ StartReadVersion
  BY <1>1, CallOrderly DEF StartDownload, StartReadVersion
<1>2. CASE FlowControl \/ ReceiveDownload \/ (ReceiveTransfer /\ Head(toGw).bsn = bsn)
  BY <1>2, AskingOrderly
<1>3. CASE Takes
  BY <1>3, TakesWell, FrameTaken, TakenOrderly
<1>4. CASE Lingers
  BY <1>4, LingersWell, TakenOrderly
<1>5. CASE ReceiveSession \/ ReceiveFirst
  BY <1>5, SessionOrderly, FirstOrderly
<1>6. CASE Ecu \/ EcuKeepAlive \/ LoseRequest
  BY <1>6, EcuOrderly, KeepAliveOrderly, LossOrderly
<1>7. CASE LoseAnswer
  <2>1. PICK i \in DOMAIN toGw : toGw' = RemoveAt(toGw, i)
    BY <1>7 DEF LoseAnswer
  <2>2. UNCHANGED <<client, toEcu, ecu>> /\ Fewer(toGw', toGw)
    BY <1>7, <2>1, RemoveFewer DEF LoseAnswer, ClientInv, Types, QueueTypes
  <2>3. UNCHANGED <<toEcu, ecu, sid, att, pc, frames>>
    BY <2>2 DEF client
  <2>4. pc' = "cf" => Len(frames') >= 1
    BY <2>3 DEF Supplement, Sids
  <2>5. QED
    BY <2>2, <2>3, <2>4, TakenOrderly
<1>8. QED
  BY <1>1, <1>2, <1>3, <1>4, <1>5, <1>6, <1>7 DEF Next, Gateway, Network, Takes, Lingers

(* It holds at the start.                                                  *)
LEMMA InitSupplement == Init => Supplement
<1> SUFFICES ASSUME Init PROVE Supplement
  OBVIOUS
<1>1. toEcu = <<>> /\ toGw = <<>> /\ pc = "idle" /\ sid = "0x10" /\ ecu.given = 0
  BY DEF Init
<1>2. \A i : ~(i \in 1 .. Len(toEcu)) /\ ~(i \in 1 .. Len(toGw))
  BY <1>1
<1>3. NoStale /\ Boots /\ NoneGiven /\ Exits /\ Sids
  BY <1>1, <1>2 DEF NoStale, Boots, NoneGiven, Exits, Sids, InTransfer
<1>4. QED
  BY <1>3 DEF Supplement

-----------------------------------------------------------------------------
(* What is known of every state, by what the client does and by what the   *)
(* queues hold.                                                            *)
Ordered == ClientInv /\ Supplement

(* It holds at the start.                                                  *)
LEMMA InitOrdered == Init => Ordered
  BY InitClientInv, InitSupplement DEF Ordered

(* Every step keeps it.                                                    *)
LEMMA NextOrdered == Ordered /\ [Next]_vars => Ordered'
  BY NextClientInv, SupplementStays DEF Ordered

(* What the costs are computed from.                                       *)
Typed ==
    /\ toGw \in Queue(Frame) /\ toEcu \in Queue(Message)
    /\ StartRun \in Run /\ Given \in Run /\ StartPlace \in Place /\ FlowDue \in {0, Group}
    /\ N(ecu.owes) \in 0 .. 1 /\ N(OwnAhead) \in 0 .. 1 /\ Collected \in Nat /\ failures \in Nat
    /\ RunsNow \in Nat /\ GroupsNow \in Nat
    /\ GroupEnd(toEcu, N(ecu.owes), FlowDue) \in Prices(Groups)

(* In a well-ordered state all of it has its type.                         *)
LEMMA StateTyped == Ordered => Typed
<1> SUFFICES ASSUME Ordered PROVE Typed
  OBVIOUS
<1>1. toGw \in Queue(Frame) /\ toEcu \in Queue(Message)
  BY DEF Ordered, ClientInv, Types, QueueTypes, Queue
<1>2. StartRun \in Run
  BY Sizes DEF StartRun, Run, Ordered, ClientInv, Types, ClockTypes
<1>3. Given \in Run
  BY Sizes DEF Given, Min2, Run, Ordered, ClientInv, Types, EcuTypes
<1>4. Len(frames) \in Nat /\ (pc = "cf" => Len(frames) <= VersionFrames)
  BY LenProperties DEF Ordered, ClientInv, Types, FramesTypes
<1>5. StartPlace \in Place
  BY <1>4, Sizes DEF StartPlace, Place, Skip
<1>6. FlowDue \in {0, Group} /\ N(ecu.owes) \in 0 .. 1 /\ N(OwnAhead) \in 0 .. 1
  BY DEF FlowDue, N
<1>7. Collected \in Nat
  BY <1>4, Sizes DEF Collected
<1>8. GroupEnd(toEcu, N(ecu.owes), FlowDue) \in Prices(Groups)
  BY <1>1, <1>6, GroupEnds
<1>9. RunsNow \in Nat
  BY <1>1, <1>2, <1>3, RunsTyped DEF RunsNow
<1>10. GroupsNow \in Nat
  BY <1>1, <1>5, <1>8, GroupsTyped DEF GroupsNow
<1>11. failures \in Nat
  BY Bounds DEF Ordered, ClientInv, Types, CallTypes
<1>12. QED
  BY <1>1, <1>2, <1>3, <1>5, <1>6, <1>7, <1>8, <1>9, <1>10, <1>11 DEF Typed

(* And after a step to one.                                                *)
LEMMA NextTyped == Ordered' => Typed'
  BY StateTyped, PTL

-----------------------------------------------------------------------------
(* An answer is taken.                                                     *)

(* What it cost is no more ahead; the client may be moved.                 *)
LEMMA TakenCosts ==
    ASSUME Typed, Typed', toGw # <<>>, toGw' = Tail(toGw), UNCHANGED <<toEcu, ecu>>, FlowDue' \in {0, FlowDue}
    PROVE  /\ Head(toGw) \in Frame /\ RunCost(Head(toGw), StartRun) \in Nat
           /\ GroupCost(Head(toGw), StartPlace) \in Nat /\ GroupTo(Head(toGw), StartPlace) \in Place
           /\ StartRun' <= RunTo(Head(toGw), StartRun) =>
                RunsNow' + RunCost(Head(toGw), StartRun) <= RunsNow
           /\ GroupsNow' + GroupCost(Head(toGw), StartPlace)
                <= GroupsNow + GroupGap(Group, StartPlace', GroupTo(Head(toGw), StartPlace))
<1> DEFINE f == Head(toGw)
           e == GroupEnd(toEcu, N(ecu.owes), FlowDue)
           o == N(ecu.owes)
<1>1. /\ toGw \in Queue(Frame) /\ toEcu \in Queue(Message) /\ StartRun \in Run /\ Given \in Run
      /\ StartPlace \in Place /\ FlowDue \in {0, Group} /\ o \in 0 .. 1 /\ e \in Prices(Groups)
      /\ RunsNow \in Nat /\ GroupsNow \in Nat
  BY DEF Typed
<1>2. /\ f \in Frame /\ Tail(toGw) \in Queue(Frame)
      /\ RunTo(f, StartRun) \in Run /\ GroupTo(f, StartPlace) \in Place
      /\ InRuns(toGw, Given, StartRun) = RunCost(f, StartRun) + InRuns(Tail(toGw), Given, RunTo(f, StartRun))
      /\ InGroups(toGw, e, StartPlace) = GroupCost(f, StartPlace) + InGroups(Tail(toGw), e, GroupTo(f, StartPlace))
  BY <1>1, AnswerRead
<1>3. RunCost(f, StartRun) \in Nat /\ GroupCost(f, StartPlace) \in Nat
  <2>1. RunCost(f, StartRun) \in {0, 2}
    BY DEF RunCost
  <2>2. QED
    BY <1>1, <1>2, <2>1, GroupTyped
<1>4. /\ StartRun' \in Run /\ Given' = Given /\ StartPlace' \in Place /\ FlowDue' \in {0, Group}
      /\ RunsNow' \in Nat /\ GroupsNow' \in Nat
  BY DEF Typed, Given
<1>5. RunsNow' = InRuns(Tail(toGw), Given, StartRun')
  BY <1>4 DEF RunsNow
<1>6. StartRun' <= RunTo(f, StartRun) => InRuns(Tail(toGw), Given, StartRun') <= InRuns(Tail(toGw), Given, RunTo(f, StartRun))
  <2>1. Given \in Nat /\ Given <= Given
    BY <1>1, Sizes DEF Run
  <2>2. QED
    BY <1>1, <1>2, <1>4, <2>1, RunsEnd
<1>7. InRuns(Tail(toGw), Given, RunTo(f, StartRun)) \in Nat
  BY <1>1, <1>2, RunsTyped
<1>8. GroupsNow' = InGroups(Tail(toGw), GroupEnd(toEcu, o, FlowDue'), StartPlace')
  BY DEF GroupsNow
<1> HIDE DEF f, e, o
<1>9. \A b \in 0 .. 1 : Owing(toEcu, FlowDue', b, o) <= Owing(toEcu, FlowDue, b, o) + 0
  <2>1. SUFFICES ASSUME NEW b \in 0 .. 1 PROVE Owing(toEcu, FlowDue', b, o) <= Owing(toEcu, FlowDue, b, o) + 0
    OBVIOUS
  <2>2. Owing(toEcu, FlowDue, b, o) \in Nat /\ Owing(toEcu, 0, b, o) <= Owing(toEcu, FlowDue, b, o)
    BY <1>1, OwingTyped, OwingLess
  <2>3. QED
    BY <2>2
<1>10. /\ InGroups(Tail(toGw), GroupEnd(toEcu, o, FlowDue), GroupTo(f, StartPlace)) \in Nat
       /\ InGroups(Tail(toGw), GroupEnd(toEcu, o, FlowDue'), StartPlace')
          <= InGroups(Tail(toGw), GroupEnd(toEcu, o, FlowDue), GroupTo(f, StartPlace))
             + GroupGap(Group, StartPlace', GroupTo(f, StartPlace)) + 0
  BY <1>1, <1>2, <1>4, <1>9, GroupsOwe
<1>11. GroupGap(Group, StartPlace', GroupTo(f, StartPlace)) \in Nat
  BY <1>2, <1>4, GroupsFar
<1>12. RunsNow = InRuns(toGw, Given, StartRun) /\ GroupsNow = InGroups(toGw, e, StartPlace)
  BY DEF RunsNow, GroupsNow, e, o
<1>13. StartRun' <= RunTo(f, StartRun) => RunsNow' + RunCost(f, StartRun) <= RunsNow
  <2>1. PICK x \in Nat : x = InRuns(Tail(toGw), Given, RunTo(f, StartRun))
    BY <1>7
  <2>2. RunsNow = RunCost(f, StartRun) + x
    BY <1>2, <1>12, <2>1
  <2>3. StartRun' <= RunTo(f, StartRun) => RunsNow' <= x
    BY <1>5, <1>6, <2>1
  <2>4. QED
    BY <1>3, <1>4, <2>2, <2>3
<1>14. GroupsNow' + GroupCost(f, StartPlace) <= GroupsNow + GroupGap(Group, StartPlace', GroupTo(f, StartPlace))
  <2>1. PICK x \in Nat : x = InGroups(Tail(toGw), e, GroupTo(f, StartPlace))
    BY <1>10 DEF e, o
  <2>2. GroupsNow = GroupCost(f, StartPlace) + x
    BY <1>2, <1>12, <2>1
  <2>3. GroupsNow' <= x + GroupGap(Group, StartPlace', GroupTo(f, StartPlace)) + 0
    BY <1>8, <1>10, <2>1 DEF e, o
  <2>4. PICK c, h, b \in Nat : c = GroupCost(f, StartPlace) /\ b = GroupsNow'
                              /\ h = GroupGap(Group, StartPlace', GroupTo(f, StartPlace))
    BY <1>3, <1>4, <1>11
  <2>5. b <= x + h + 0
    BY <2>3, <2>4
  <2>6. b + c <= (c + x) + h
    BY <2>5
  <2>7. QED
    BY <2>2, <2>4, <2>6
<1>15. QED
  BY <1>2, <1>3, <1>13, <1>14 DEF f

(* What is ahead of the client then: nothing that was not ahead of it.     *)
LEMMA TakenAhead ==
    ASSUME Typed, toGw # <<>>, toGw' = Tail(toGw), UNCHANGED <<toEcu, sid, att>>, pc' = pc \/ pc' # "wait"
    PROVE  /\ FlowDue' \in {0, FlowDue}
           /\ pc' \in Running /\ pc \in Running /\ Head(toGw).kind # "positive" /\ OwnAhead => OwnAhead'
<1>1. /\ Len(toGw) \in Nat /\ Len(toGw) >= 1 /\ Head(toGw) = toGw[1] /\ Len(toGw') = Len(toGw) - 1
      /\ \A i \in 1 .. Len(toGw) - 1 : toGw'[i] = toGw[i + 1]
  BY Queues DEF Typed
<1>2. FirstAhead' => FirstAhead
  <2>1. SUFFICES ASSUME NEW i \in 1 .. Len(toGw'), toGw'[i].kind = "first"
                 PROVE  \E j \in 1 .. Len(toGw) : toGw[j].kind = "first"
    BY DEF FirstAhead
  <2>2. i + 1 \in 1 .. Len(toGw) /\ toGw[i + 1].kind = "first"
    BY <1>1, <2>1
  <2>3. QED
    BY <2>2
<1>3. FlowDue' \in {0, FlowDue}
  BY <1>2 DEF FlowDue
<1>4. ASSUME pc' \in Running, Head(toGw).kind # "positive", OwnAhead
      PROVE  OwnAhead'
  <2>1. CASE \E i \in 1 .. Len(toEcu) : toEcu[i].att = att /\ Plain(toEcu[i])
    BY <1>4, <2>1 DEF OwnAhead, Plain
  <2>2. CASE \E i \in 1 .. Len(toGw) : toGw[i].att = att /\ toGw[i].kind = "positive"
    <3>1. PICK i \in 1 .. Len(toGw) : toGw[i].att = att /\ toGw[i].kind = "positive"
      BY <2>2
    <3>2. i # 1
      BY <1>1, <1>4, <3>1
    <3>3. i - 1 \in 1 .. Len(toGw) - 1 /\ (i - 1) + 1 = i
      BY <1>1, <3>2
    <3>4. i - 1 \in 1 .. Len(toGw') /\ toGw'[i - 1] = toGw[i]
      BY <1>1, <3>3
    <3>5. \E k \in 1 .. Len(toGw') : toGw'[k].att = att /\ toGw'[k].kind = "positive"
      BY <3>1, <3>4
    <3>6. QED
      BY <1>4, <3>5 DEF OwnAhead
  <2>3. QED
    BY <1>4, <2>1, <2>2 DEF OwnAhead
<1>5. QED
  BY <1>3, <1>4

-----------------------------------------------------------------------------
(* By how much a step can make what has failed, and can still fail, grow.  *)
Rises(d) == failures' + Psi' <= failures + Psi + d

(* Sums: a term is moved from one side to the other.                       *)
LEMMA Across ==
    ASSUME NEW x \in Nat, NEW y \in Nat, NEW z \in Nat, x + z <= y + 0
    PROVE  x <= y + (0 - z)
  OBVIOUS

(* The same, with nothing added.                                           *)
LEMMA Aside ==
    ASSUME NEW x \in Nat, NEW y \in Nat, NEW z \in Nat, x + z <= y
    PROVE  x <= y + (0 - z)
  OBVIOUS

(* Five bounds add up.                                                     *)
LEMMA AddUp ==
    ASSUME NEW a \in Int, NEW b \in Int, NEW c \in Int, NEW d \in Int, NEW k \in Int,
           NEW r \in Nat, NEW g \in Nat, NEW o \in Nat, NEW q \in Nat, NEW f \in Nat,
           NEW s \in Nat, NEW h \in Nat, NEW p \in Nat, NEW u \in Nat, NEW e \in Nat,
           s <= r + a, h <= g + b, o <= p + c, q <= u + d, e <= f + k
    PROVE  e + (s + h - p - u) <= f + (r + g - o - q) + (a + b + c + d + k)
  OBVIOUS

(* Costs that are paid cancel out.                                         *)
LEMMA Balance ==
    ASSUME NEW k \in Nat, NEW x \in Nat, NEW y \in Nat, NEW z \in Nat,
           NEW r \in Nat, NEW g \in Nat, NEW o \in Nat, NEW q \in Nat, NEW f \in Nat,
           NEW s \in Nat, NEW h \in Nat, NEW p \in Nat, NEW u \in Nat, NEW e, e = f + k,
           s + x <= r, h + y <= g + z, o + q + k + z <= p + u + x + y
    PROVE  e + (s + h - p - u) <= f + (r + g - o - q) + 0
  OBVIOUS

(* So a step raises Psi and the failures by no more than its parts.        *)
LEMMA Sums ==
    ASSUME Typed, Typed', NEW a \in Int, NEW b \in Int, NEW c \in Int, NEW d \in Int, NEW k \in Int,
           RunsNow' <= RunsNow + a, GroupsNow' <= GroupsNow + b, N(OwnAhead) <= N(OwnAhead') + c,
           Collected <= Collected' + d, failures' <= failures + k
    PROVE  Rises(a + b + c + d + k)
<1>1. /\ RunsNow \in Nat /\ GroupsNow \in Nat /\ N(OwnAhead) \in Nat /\ Collected \in Nat /\ failures \in Nat
      /\ RunsNow' \in Nat /\ GroupsNow' \in Nat /\ N(OwnAhead') \in Nat /\ Collected' \in Nat /\ failures' \in Nat
  BY DEF Typed
<1>2. /\ Psi = RunsNow + GroupsNow - N(OwnAhead) - Collected
      /\ Psi' = RunsNow' + GroupsNow' - N(OwnAhead') - Collected'
  BY DEF Psi
<1>3. failures' + (RunsNow' + GroupsNow' - N(OwnAhead') - Collected')
        <= failures + (RunsNow + GroupsNow - N(OwnAhead) - Collected) + (a + b + c + d + k)
  BY <1>1, AddUp
<1>4. QED
  BY <1>2, <1>3 DEF Rises

(* What is bounded by less is bounded by more.                             *)
LEMMA RisesMore ==
    ASSUME Typed, Typed', NEW c \in Int, NEW d \in Int, Rises(c), c <= d
    PROVE  Rises(d)
<1>1. PICK x \in Int : x = failures' + Psi'
  BY DEF Typed, Psi
<1>2. PICK y \in Int : y = failures + Psi
  BY DEF Typed, Psi
<1>3. x <= y + c
  BY <1>1, <1>2 DEF Rises
<1>4. x <= y + d
  BY <1>3
<1>5. QED
  BY <1>1, <1>2, <1>4 DEF Rises

(* A client that does not run has nothing of its own ahead.                *)
LEMMA Stopped ==
    ASSUME Typed, pc \notin Running
    PROVE  StartPlace = 0 /\ StartRun = 0 /\ Collected = 0 /\ N(OwnAhead) = 0 /\ FlowDue = 0
  BY DEF Running, StartPlace, StartRun, Collected, OwnAhead, FlowDue, N

(* A client that waits for an answer has collected nothing.                *)
LEMMA Waiting ==
    ASSUME Typed, pc = "wait"
    PROVE  StartPlace = 0 /\ StartRun = pending /\ Collected = 0
  BY DEF StartPlace, StartRun, Collected

(* Nor has one that waits for flow control, and it counts no "pending".    *)
LEMMA FlowWaiting ==
    ASSUME Typed, pc = "fc"
    PROVE  StartPlace = 0 /\ StartRun = 0 /\ Collected = 0 /\ FlowDue = 0
  BY DEF StartPlace, StartRun, Collected, FlowDue

(* Nobody who is not skipping frames pays for stopping.                    *)
LEMMA StopGap ==
    ASSUME NEW q \in Place
    PROVE  /\ q # Skip => GroupGap(Group, 0, q) = 0
           /\ GroupGap(Group, 0, q) \in {0, Group}
<1>1. 0 # Skip /\ 0 # 1 /\ 0 \notin Middle
  BY Sizes DEF Skip, Middle
<1>2. QED
  BY <1>1 DEF GroupGap, Nearer

(* What taking an answer sets free pays for a failure, and for what the    *)
(* client has collected or waits for.                                      *)
LEMMA PaidFor ==
    ASSUME Typed, Typed', toGw # <<>>, toGw' = Tail(toGw), UNCHANGED <<ecu, toEcu>>, FlowDue' \in {0, FlowDue},
           StartRun' <= RunTo(Head(toGw), StartRun), NEW k \in Nat, failures' = failures + k,
           N(OwnAhead) + Collected + k + GroupGap(Group, StartPlace', GroupTo(Head(toGw), StartPlace))
             <= N(OwnAhead') + Collected' + RunCost(Head(toGw), StartRun) + GroupCost(Head(toGw), StartPlace)
    PROVE  Rises(0)
<1> DEFINE f == Head(toGw)
<1>1. /\ f \in Frame /\ RunCost(f, StartRun) \in Nat
      /\ GroupCost(f, StartPlace) \in Nat /\ GroupTo(f, StartPlace) \in Place
      /\ RunsNow' + RunCost(f, StartRun) <= RunsNow
      /\ GroupsNow' + GroupCost(f, StartPlace) <= GroupsNow + GroupGap(Group, StartPlace', GroupTo(f, StartPlace))
  BY TakenCosts
<1>2. GroupGap(Group, StartPlace', GroupTo(f, StartPlace)) \in Nat
  BY <1>1, GroupsFar DEF Typed
<1> HIDE DEF f
<1>3. PICK x \in Nat : x = RunCost(f, StartRun)
  BY <1>1
<1>4. PICK y \in Nat : y = GroupCost(f, StartPlace)
  BY <1>1
<1>5. PICK z \in Nat : z = GroupGap(Group, StartPlace', GroupTo(f, StartPlace))
  BY <1>2
<1>15. /\ RunsNow \in Nat /\ GroupsNow \in Nat /\ N(OwnAhead) \in Nat /\ Collected \in Nat /\ failures \in Nat
       /\ RunsNow' \in Nat /\ GroupsNow' \in Nat /\ N(OwnAhead') \in Nat /\ Collected' \in Nat
  BY DEF Typed
<1>6. PICK r, g, o, q, l \in Nat :
        r = RunsNow /\ g = GroupsNow /\ o = N(OwnAhead) /\ q = Collected /\ l = failures
  BY <1>15
<1>7. PICK s, h, p, u \in Nat :
        s = RunsNow' /\ h = GroupsNow' /\ p = N(OwnAhead') /\ u = Collected'
  BY <1>15
<1>8. s + x <= r
  BY <1>1, <1>3, <1>6, <1>7
<1>9. h + y <= g + z
  BY <1>1, <1>4, <1>5, <1>6, <1>7
<1>10. o + q + k + z <= p + u + x + y
  BY <1>3, <1>4, <1>5, <1>6, <1>7 DEF f
<1>11. PICK e : e = failures' /\ e = l + k
  BY <1>6
<1>12. e + (s + h - p - u) <= l + (r + g - o - q) + 0
  BY <1>8, <1>9, <1>10, <1>11, Balance
<1>13. Psi = r + g - o - q /\ Psi' = s + h - p - u
  BY <1>6, <1>7 DEF Psi
<1>14. QED
  BY <1>6, <1>11, <1>12, <1>13 DEF Rises

(* A call fails over an answer: the answer has paid for it.                *)
LEMMA FailCosts ==
    ASSUME Typed, Typed', toGw # <<>>, toGw' = Tail(toGw), UNCHANGED <<ecu, att>>, Fail,
           GroupTo(Head(toGw), StartPlace) # Skip,
           N(OwnAhead) + Collected + 1 <= RunCost(Head(toGw), StartRun) + GroupCost(Head(toGw), StartPlace)
    PROVE  Rises(0)
<1>1. pc' = "failed" /\ failures' = failures + 1 /\ UNCHANGED <<sid, toEcu>>
  BY DEF Fail
<1>2. StartPlace' = 0 /\ StartRun' = 0 /\ Collected' = 0 /\ N(OwnAhead') = 0 /\ FlowDue' \in {0, FlowDue}
  BY <1>1 DEF Running, StartPlace, StartRun, Collected, OwnAhead, FlowDue, N
<1>3. StartRun' <= RunTo(Head(toGw), StartRun)
  <2>1. RunTo(Head(toGw), StartRun) >= 0
    BY Sizes DEF Typed, Run, RunTo
  <2>2. QED
    BY <1>2, <2>1
<1>4. Head(toGw) \in Frame /\ StartPlace \in Place /\ StartRun \in Run
  BY Queues DEF Typed
<1>5. GroupGap(Group, StartPlace', GroupTo(Head(toGw), StartPlace)) = 0
  BY <1>2, <1>4, GroupTyped, StopGap
<1>6. PICK x \in Nat : x = RunCost(Head(toGw), StartRun)
  BY <1>4 DEF RunCost
<1>7. PICK y \in Nat : y = GroupCost(Head(toGw), StartPlace)
  BY <1>4, GroupTyped
<1>8. PICK o \in Nat : o = N(OwnAhead)
  BY DEF Typed
<1>9. PICK q \in Nat : q = Collected
  BY DEF Typed
<1>10. o + q + 1 + 0 <= 0 + 0 + x + y
  <2>1. o + q + 1 <= x + y
    BY <1>6, <1>7, <1>8, <1>9
  <2>2. QED
    BY <2>1
<1>11. N(OwnAhead) + Collected + 1 + GroupGap(Group, StartPlace', GroupTo(Head(toGw), StartPlace))
         <= N(OwnAhead') + Collected' + RunCost(Head(toGw), StartRun) + GroupCost(Head(toGw), StartPlace)
  BY <1>2, <1>5, <1>6, <1>7, <1>8, <1>9, <1>10
<1>12. QED
  BY <1>1, <1>2, <1>3, <1>11, PaidFor

-----------------------------------------------------------------------------
(* What each kind of answer costs, and where it leads.                     *)
LEMMA AnswerCosts ==
    ASSUME NEW f \in Frame, NEW g \in Place
    PROVE  /\ f.kind = "pending" => GroupCost(f, g) = 0 /\ GroupTo(f, g) = g
           /\ f.kind = "negative" => GroupCost(f, g) = 2 /\ GroupTo(f, g) = g
           /\ f.kind = "positive" => /\ GroupCost(f, g) = (IF f.sid = "0x10" THEN 1 ELSE 2)
                                     /\ GroupTo(f, g) = g
           /\ f.kind = "first" => /\ GroupCost(f, g) = (IF g \in Middle THEN Group ELSE 0)
                                  /\ GroupTo(f, g) = OnFirst(g)
           /\ f.kind = "consecutive" /\ g <= 0 => GroupCost(f, g) = 2 /\ GroupTo(f, g) = 0
           /\ f.kind = "consecutive" /\ g \in 1 .. VersionFrames /\ f.sn # g =>
                GroupCost(f, g) = 2 + Group /\ GroupTo(f, g) = 0
           /\ f.kind = "consecutive" /\ g \in 1 .. VersionFrames /\ f.sn = g =>
                GroupCost(f, g) = 2 /\ GroupTo(f, g) = (IF g < VersionFrames THEN g + 1 ELSE 0)
<1>1. g \in Int /\ g >= -1 /\ g <= After
  BY Places
<1>2. g <= 0 => ~(g > 0)
  BY <1>1
<1>3. g \in 1 .. VersionFrames => g > 0 /\ Awaited(g) = g
  BY Sizes DEF Awaited
<1>4. CASE f.kind \in {"pending", "negative", "positive", "first"}
  BY <1>4 DEF GroupCost, GroupTo
<1>5. CASE f.kind = "consecutive"
  <2>1. /\ GroupCost(f, g) = (IF g > 0 /\ ~Follows(f, g) THEN 2 + Group ELSE 2)
        /\ GroupTo(f, g) = (IF Follows(f, g) /\ f.sn < VersionFrames THEN f.sn + 1 ELSE 0)
    BY <1>5 DEF GroupCost, GroupTo
  <2>2. g <= 0 => ~Follows(f, g)
    BY <1>2 DEF Follows
  <2>3. g \in 1 .. VersionFrames => (Follows(f, g) <=> f.sn = g)
    BY <1>3 DEF Follows
  <2>4. QED
    BY <1>2, <1>3, <1>5, <2>1, <2>2, <2>3
<1>6. QED
  BY <1>4, <1>5, Kinds

(* A claim counts no more than what follows from it.                       *)
LEMMA Implied == ASSUME NEW b, NEW c, b => c PROVE N(b) <= N(c) + 0
  BY DEF N

(* A claim counts one or nothing.                                          *)
LEMMA Counted == ASSUME NEW b PROVE N(b) \in 0 .. 1 /\ (b => N(b) = 1) /\ (~b => N(b) = 0)
  BY DEF N

(* The first answer, when there is one.                                    *)
LEMMA FirstAnswer ==
    ASSUME Typed, toGw # <<>>
    PROVE  /\ Head(toGw) \in Frame /\ Len(toGw) \in Nat /\ Len(toGw) >= 1 /\ 1 \in 1 .. Len(toGw)
           /\ Head(toGw) = toGw[1]
  BY Queues DEF Typed

(* "pending": the next one is one too many, or not.                        *)
LEMMA PendingFalls ==
    ASSUME Typed, Typed', ReceivePending
    PROVE  Rises(0)
<1>1. /\ pc = "wait" /\ toGw # <<>> /\ Head(toGw).kind = "pending" /\ toGw' = Tail(toGw)
      /\ UNCHANGED <<att, ecu>>
  BY DEF ReceivePending, Receive
<1>2. Head(toGw) \in Frame
  BY <1>1, FirstAnswer
<1>3. StartPlace = 0 /\ StartRun = pending /\ Collected = 0 /\ pending \in Run /\ 0 \in Place
  BY <1>1, Waiting DEF Typed
<1>4. GroupCost(Head(toGw), StartPlace) = 0 /\ GroupTo(Head(toGw), StartPlace) = 0
  BY <1>1, <1>2, <1>3, AnswerCosts
<1>5. CASE pending + 1 > MaxPending
  <2>1. Fail
    BY <1>5 DEF ReceivePending
  <2>2. pending = MaxPending
    BY <1>3, <1>5, Sizes DEF Run
  <2>3. RunCost(Head(toGw), StartRun) = 2
    BY <1>1, <1>3, <2>2 DEF RunCost
  <2>4. N(OwnAhead) + Collected + 1 <= RunCost(Head(toGw), StartRun) + GroupCost(Head(toGw), StartPlace)
    <3>1. PICK o \in 0 .. 1 : o = N(OwnAhead)
      BY DEF Typed
    <3>2. o + 0 + 1 <= 2 + 0
      BY <3>1
    <3>3. QED
      BY <1>3, <1>4, <2>3, <3>1, <3>2
  <2>5. 0 # Skip
    BY DEF Skip
  <2>6. QED
    BY <1>1, <1>4, <2>1, <2>4, <2>5, FailCosts
<1>6. CASE ~(pending + 1 > MaxPending)
  <2>1. /\ pending' = pending + 1 /\ UNCHANGED <<pc, sid, toEcu, failures>>
    BY <1>6 DEF ReceivePending
  <2>2. RunTo(Head(toGw), StartRun) = pending + 1 /\ RunCost(Head(toGw), StartRun) = 0
    BY <1>1, <1>3, <1>6, Sizes DEF RunTo, RunCost, Run
  <2>3. StartPlace' = 0 /\ StartRun' = pending + 1 /\ Collected' = 0
    BY <1>1, <2>1 DEF StartPlace, StartRun, Collected
  <2>4. StartRun' <= RunTo(Head(toGw), StartRun)
    BY <1>3, <2>2, <2>3, Sizes DEF Run
  <2>5. FlowDue' \in {0, FlowDue} /\ (OwnAhead => OwnAhead')
    <3>1. pc \in Running /\ pc' \in Running
      BY <1>1, <2>1 DEF Running
    <3>2. QED
      BY <1>1, <2>1, <3>1, TakenAhead
  <2>6. GroupGap(Group, StartPlace', GroupTo(Head(toGw), StartPlace)) = 0
    BY <1>3, <1>4, <2>3, StopGap DEF Skip
  <2>7. PICK o, p \in 0 .. 1 : o = N(OwnAhead) /\ p = N(OwnAhead') /\ o <= p + 0
    BY <2>5, Counted, Implied
  <2>8. o + 0 + 0 + 0 <= p + 0 + 0 + 0
    BY <2>7
  <2>9. N(OwnAhead) + Collected + 0 + GroupGap(Group, StartPlace', GroupTo(Head(toGw), StartPlace))
          <= N(OwnAhead') + Collected' + RunCost(Head(toGw), StartRun) + GroupCost(Head(toGw), StartPlace)
    BY <1>3, <1>4, <2>2, <2>3, <2>6, <2>7, <2>8
  <2>10. failures' = failures + 0 /\ 0 \in Nat
    BY <2>1 DEF Typed
  <2>11. QED
    BY <1>1, <2>1, <2>4, <2>5, <2>9, <2>10, PaidFor
<1>7. QED
  BY <1>5, <1>6

(* A call that waits fails over another answer.                            *)
LEMMA WrongFalls ==
    ASSUME Ordered, Typed, Typed',
           \/ ReceiveNegative \/ ReceiveUnexpected \/ ReceiveStray
           \/ (ReceiveTransfer /\ Head(toGw).bsn # bsn)
    PROVE  Rises(0)
<1>1. /\ pc = "wait" /\ toGw # <<>> /\ toGw' = Tail(toGw) /\ UNCHANGED <<att, ecu>> /\ Fail
      /\ \/ Head(toGw).kind \in {"negative", "consecutive"}
         \/ Head(toGw).kind = "positive" /\ (Head(toGw).sid # sid \/ Head(toGw).sid = "0x36")
  BY DEF ReceiveNegative, ReceiveUnexpected, ReceiveStray, ReceiveTransfer, ReceivePositive, Receive
<1>2. Head(toGw) \in Frame /\ 1 \in 1 .. Len(toGw) /\ Head(toGw) = toGw[1]
  BY <1>1, FirstAnswer
<1>3. StartPlace = 0 /\ StartRun \in Run /\ Collected = 0 /\ 0 \in Place /\ 0 <= 0
  BY <1>1, Waiting DEF Typed
<1>4. GroupTo(Head(toGw), StartPlace) = 0
  BY <1>1, <1>2, <1>3, AnswerCosts
<1>5. N(OwnAhead) + 1 <= GroupCost(Head(toGw), StartPlace) + 0
  <2>1. PICK o \in 0 .. 1 : o = N(OwnAhead)
    BY DEF Typed
  <2>2. CASE GroupCost(Head(toGw), StartPlace) = 2
    BY <2>1, <2>2
  <2>3. CASE GroupCost(Head(toGw), StartPlace) # 2
    <3>1. Head(toGw).kind = "positive" /\ Head(toGw).sid = "0x10" /\ GroupCost(Head(toGw), StartPlace) = 1
      BY <1>1, <1>2, <1>3, <2>3, AnswerCosts
    <3>2. sid # "0x10"
      BY <1>1, <3>1
    <3>3. ~InTransfer
      BY <1>2, <3>1, <3>2 DEF Ordered, Supplement, NoStale
    <3>4. sid = "0x22"
      BY <1>1, <3>2, <3>3, WaitsFor DEF Ordered
    <3>5. N(OwnAhead) = 0
      BY <3>4 DEF OwnAhead, N
    <3>6. QED
      BY <3>1, <3>5
  <2>4. QED
    BY <2>2, <2>3
<1>6. N(OwnAhead) + Collected + 1 <= RunCost(Head(toGw), StartRun) + GroupCost(Head(toGw), StartPlace)
  <2>1. PICK o \in 0 .. 1 : o = N(OwnAhead)
    BY DEF Typed
  <2>2. PICK y \in Nat : y = GroupCost(Head(toGw), StartPlace)
    BY <1>2, <1>3, GroupTyped
  <2>3. PICK x \in Nat : x = RunCost(Head(toGw), StartRun)
    BY DEF RunCost
  <2>4. o + 1 <= y + 0
    BY <1>5, <2>1, <2>2
  <2>5. o + 0 + 1 <= x + y
    BY <2>4
  <2>6. QED
    BY <1>3, <2>1, <2>2, <2>3, <2>5
<1>7. 0 # Skip
  BY DEF Skip
<1>8. QED
  BY <1>1, <1>4, <1>6, <1>7, FailCosts

(* A positive answer ends the wait.                                        *)
LEMMA SettledFalls ==
    ASSUME Typed, Typed', ReceiveSession \/ ReceiveExit
    PROVE  Rises(0)
<1>1. /\ pc = "wait" /\ toGw # <<>> /\ toGw' = Tail(toGw) /\ UNCHANGED <<ecu, toEcu, failures>>
      /\ Head(toGw).kind = "positive" /\ pc' \in {"fc", "ok"}
  BY DEF ReceiveSession, ReceiveExit, ReceivePositive, Receive, AwaitFlowControl
<1>2. Head(toGw) \in Frame
  BY <1>1, FirstAnswer
<1>3. StartPlace = 0 /\ StartRun \in Run /\ Collected = 0 /\ 0 \in Place
  BY <1>1, Waiting DEF Typed
<1>4. GroupTo(Head(toGw), StartPlace) = 0 /\ GroupCost(Head(toGw), StartPlace) \in 1 .. 2
  BY <1>1, <1>2, <1>3, AnswerCosts
<1>5. StartPlace' = 0 /\ StartRun' = 0 /\ Collected' = 0 /\ FlowDue' \in {0, FlowDue}
  BY <1>1 DEF StartPlace, StartRun, Collected, FlowDue
<1>6. StartRun' <= RunTo(Head(toGw), StartRun)
  <2>1. RunTo(Head(toGw), StartRun) >= 0
    BY <1>3, Sizes DEF Run, RunTo
  <2>2. QED
    BY <1>5, <2>1
<1>7. GroupGap(Group, StartPlace', GroupTo(Head(toGw), StartPlace)) = 0
  BY <1>3, <1>4, <1>5, StopGap DEF Skip
<1>8. N(OwnAhead) + Collected + 0 + GroupGap(Group, StartPlace', GroupTo(Head(toGw), StartPlace))
        <= N(OwnAhead') + Collected' + RunCost(Head(toGw), StartRun) + GroupCost(Head(toGw), StartPlace)
  <2>1. PICK o, p \in 0 .. 1 : o = N(OwnAhead) /\ p = N(OwnAhead')
    BY DEF Typed
  <2>2. PICK y \in 1 .. 2 : y = GroupCost(Head(toGw), StartPlace)
    BY <1>4
  <2>3. PICK x \in Nat : x = RunCost(Head(toGw), StartRun)
    BY DEF RunCost
  <2>4. o + 0 + 0 + 0 <= p + 0 + x + y
    BY <2>1
  <2>5. QED
    BY <1>3, <1>5, <1>7, <2>1, <2>2, <2>3, <2>4
<1>9. failures' = failures + 0 /\ 0 \in Nat
  BY <1>1 DEF Typed
<1>10. QED
  BY <1>1, <1>5, <1>6, <1>8, <1>9, PaidFor

(* Where a client that collects frames is.                                 *)
LEMMA Gathering ==
    ASSUME Ordered, Typed, pc = "cf"
    PROVE  /\ StartRun = 0 /\ Len(frames) \in 1 .. VersionFrames /\ frames \in Seq(VersionPart)
           /\ sid = "0x22" => /\ StartPlace = Len(frames) /\ Collected = 2 * (After - Len(frames))
                              /\ N(OwnAhead) = 0
           /\ sid # "0x22" => StartPlace = Skip /\ Collected = 0
<1>1. frames \in Seq(VersionPart) /\ Len(frames) <= VersionFrames /\ Len(frames) >= 1
  BY DEF Ordered, ClientInv, Types, FramesTypes, Supplement, Sids
<1>2. Len(frames) \in Nat
  BY <1>1, LenProperties
<1>3. QED
  BY <1>1, <1>2, Sizes DEF StartRun, StartPlace, Collected, OwnAhead, N

(* A frame that is not one of a version's is skipped.                      *)
LEMMA SkippedFalls ==
    ASSUME Ordered, Ordered', Typed, Typed', CollectOther
    PROVE  Rises(0)
<1>1. /\ pc = "cf" /\ toGw # <<>> /\ toGw' = Tail(toGw) /\ UNCHANGED <<ecu, toEcu, failures, pc, sid, att, frames>>
      /\ Head(toGw).kind # "consecutive"
  BY DEF CollectOther, Collect
<1>2. Head(toGw) \in Frame
  BY <1>1, FirstAnswer
<1>3. StartRun = 0 /\ StartRun' = 0 /\ StartPlace' = StartPlace /\ StartPlace \in Place /\ Collected' = Collected
  BY <1>1 DEF Typed, StartRun, StartPlace, Collected
<1>4. StartPlace = Skip \/ StartPlace \in 1 .. VersionFrames
  BY <1>1, Gathering
<1>5. StartRun' <= RunTo(Head(toGw), StartRun)
  <2>1. RunTo(Head(toGw), StartRun) >= 0
    BY Sizes DEF Typed, Run, RunTo
  <2>2. QED
    BY <1>3, <2>1
<1>6. /\ FlowDue' \in {0, FlowDue}
      /\ Head(toGw).kind # "positive" => (OwnAhead => OwnAhead')
  <2>1. pc \in Running /\ pc' \in Running
    BY <1>1 DEF Running
  <2>2. QED
    BY <1>1, <2>1, TakenAhead
<1>7. PICK z \in Nat : z = GroupGap(Group, StartPlace', GroupTo(Head(toGw), StartPlace))
  BY <1>2, <1>3, GroupTyped, GroupsFar
<1>8. PICK y \in Nat : y = GroupCost(Head(toGw), StartPlace)
  BY <1>2, <1>3, GroupTyped
<1>9. PICK o, p \in 0 .. 1 : o = N(OwnAhead) /\ p = N(OwnAhead')
  BY DEF Typed
<1>10. o + z <= p + y
  <2>1. CASE Head(toGw).kind = "first"
    <3>1. o <= p + 0
      BY <1>6, <1>9, <2>1, Implied
    <3>2. z <= y
      <4>1. GroupCost(Head(toGw), StartPlace) = (IF StartPlace \in Middle THEN Group ELSE 0)
            /\ GroupTo(Head(toGw), StartPlace) = OnFirst(StartPlace)
        BY <1>2, <1>3, <2>1, AnswerCosts
      <4>2. CASE StartPlace \in Middle
        <5>1. GroupTo(Head(toGw), StartPlace) = After /\ y = Group
          BY <1>8, <4>1, <4>2 DEF OnFirst
        <5>2. After # Skip /\ After # 1
          BY Sizes DEF Skip
        <5>3. StartPlace # 1
          BY <4>2 DEF Middle
        <5>4. GroupGap(Group, StartPlace, After) \in {0, Group}
          BY <5>2, <5>3 DEF GroupGap
        <5>5. z \in {0, Group}
          BY <1>3, <1>7, <5>1, <5>4
        <5>6. QED
          BY <5>1, <5>5, Sizes
      <4>3. CASE StartPlace \notin Middle
        <5>1. StartPlace # 0
          BY <1>4, Sizes DEF Skip
        <5>2. GroupTo(Head(toGw), StartPlace) = StartPlace
          BY <4>1, <4>3, <5>1 DEF OnFirst
        <5>3. z = 0
          BY <1>3, <1>7, <5>2 DEF GroupGap, Nearer
        <5>4. QED
          BY <5>3
      <4>4. QED
        BY <4>2, <4>3
    <3>3. QED
      BY <3>1, <3>2
  <2>2. CASE Head(toGw).kind # "first"
    <3>1. Head(toGw).kind \in {"pending", "negative", "positive"}
      BY <1>1, <1>2, <2>2, Kinds
    <3>2. GroupTo(Head(toGw), StartPlace) = StartPlace /\ (Head(toGw).kind = "positive" => y >= 1)
      BY <1>2, <1>3, <1>8, <3>1, AnswerCosts
    <3>3. z = 0
      BY <1>3, <1>7, <3>2 DEF GroupGap, Nearer
    <3>4. Head(toGw).kind # "positive" => o <= p + 0
      BY <1>6, <1>9, Implied
    <3>5. QED
      BY <3>2, <3>3, <3>4
  <2>3. QED
    BY <2>1, <2>2
<1>11. N(OwnAhead) + Collected + 0 + GroupGap(Group, StartPlace', GroupTo(Head(toGw), StartPlace))
        <= N(OwnAhead') + Collected' + RunCost(Head(toGw), StartRun) + GroupCost(Head(toGw), StartPlace)
  <2>1. PICK x \in Nat : x = RunCost(Head(toGw), StartRun)
    BY DEF RunCost
  <2>2. PICK q \in Nat : q = Collected
    BY DEF Typed
  <2>3. o + q + 0 + z <= p + q + x + y
    BY <1>10
  <2>4. QED
    BY <1>3, <1>7, <1>8, <1>9, <2>1, <2>2, <2>3
<1>12. failures' = failures + 0 /\ 0 \in Nat
  BY <1>1 DEF Typed
<1>13. QED
  BY <1>1, <1>5, <1>6, <1>11, <1>12, PaidFor

-----------------------------------------------------------------------------
(* Frames that are collected.                                              *)

(* A number does not follow in itself.                                     *)
LEMMA SameGap == ASSUME NEW q PROVE GroupGap(Group, q, q) = 0
  BY DEF GroupGap, Nearer

(* A consecutive frame is collected, or ends the answer.                   *)
LEMMA CollectedFalls ==
    ASSUME Ordered, Ordered', Typed, Typed', CollectConsecutive
    PROVE  Rises(0)
<1> DEFINE f == Head(toGw)
<1>1. /\ pc = "cf" /\ toGw # <<>> /\ toGw' = Tail(toGw) /\ UNCHANGED <<ecu, att, toEcu, sid>>
      /\ f.kind = "consecutive"
  BY DEF CollectConsecutive, Collect, Fail
<1>2. f \in Frame /\ StartPlace \in Place
  BY <1>1, FirstAnswer DEF Typed
<1>3. /\ StartRun = 0 /\ Len(frames) \in 1 .. VersionFrames /\ frames \in Seq(VersionPart)
      /\ sid = "0x22" => StartPlace = Len(frames) /\ Collected = 2 * (After - Len(frames)) /\ N(OwnAhead) = 0
      /\ sid # "0x22" => StartPlace = Skip /\ Collected = 0
  BY <1>1, Gathering
<1>4. PICK x \in Nat : x = RunCost(f, StartRun)
  BY DEF RunCost
<1>5. RunTo(f, StartRun) = 0 /\ 0 # Skip /\ Skip <= 0
  BY <1>1 DEF RunTo, Skip
<1> HIDE DEF f
<1>6. PICK k \in 1 .. VersionFrames : k = Len(frames)
  BY <1>3
<1>7. PICK o \in 0 .. 1 : o = N(OwnAhead)
  BY DEF Typed
<1>8. CASE Fail /\ (f.sn # k \/ sid # "0x22")
  <2>1. CASE sid = "0x22"
    <3>1. GroupCost(f, StartPlace) = 2 + Group /\ GroupTo(f, StartPlace) = 0
      BY <1>1, <1>2, <1>3, <1>6, <1>8, <2>1, AnswerCosts
    <3>2. 0 + 2 * (After - k) + 1 <= x + (2 + Group)
      BY Sizes
    <3>3. N(OwnAhead) + Collected + 1 <= RunCost(f, StartRun) + GroupCost(f, StartPlace)
      BY <1>3, <1>4, <1>6, <2>1, <3>1, <3>2
    <3>4. QED
      BY <1>1, <1>5, <1>8, <3>1, <3>3, FailCosts DEF f
  <2>2. CASE sid # "0x22"
    <3>1. GroupCost(f, StartPlace) = 2 /\ GroupTo(f, StartPlace) = 0
      BY <1>1, <1>2, <1>3, <1>5, <2>2, AnswerCosts
    <3>2. o + 0 + 1 <= x + 2
      BY <1>7
    <3>3. N(OwnAhead) + Collected + 1 <= RunCost(f, StartRun) + GroupCost(f, StartPlace)
      BY <1>3, <1>4, <1>7, <2>2, <3>1, <3>2
    <3>4. QED
      BY <1>1, <1>5, <1>8, <3>1, <3>3, FailCosts DEF f
  <2>3. QED
    BY <2>1, <2>2
<1>9. ASSUME frames' = Append(frames, Part(f)), UNCHANGED failures
      PROVE  Len(frames') = k + 1 /\ k + 1 \in Nat /\ failures' = failures + 0 /\ 0 \in Nat
  <2>1. frames' \in Seq(VersionPart) \/ pc' # "cf"
    BY DEF Ordered, ClientInv, Types, FramesTypes
  <2>2. Len(frames') = Len(frames) + 1
    <3>1. Part(f) \in {Part(f)} /\ frames \in Seq(VersionPart \union {Part(f)})
      BY <1>3
    <3>2. Part(f) \in VersionPart \union {Part(f)}
      BY <3>1
    <3>3. Len(Append(frames, Part(f))) = Len(frames) + 1
      BY <1>3, <3>1, <3>2, AppendProperties
    <3>4. QED
      BY <1>9, <3>3
  <2>3. QED
    BY <1>6, <1>9, <2>2 DEF Typed
<1>10. FlowDue' \in {0, FlowDue}
  <2>1. pc' = pc \/ pc' # "wait"
    BY <1>1 DEF CollectConsecutive, Fail
  <2>2. QED
    BY <1>1, <2>1, TakenAhead
<1>11. CASE f.sn = k /\ k < VersionFrames
  <2>1. frames' = Append(frames, Part(f)) /\ UNCHANGED <<pc, failures>>
    BY <1>6, <1>11 DEF CollectConsecutive, f
  <2>2. Len(frames') = k + 1 /\ failures' = failures + 0
    BY <1>9, <2>1
  <2>3. StartRun' = 0 /\ StartRun' <= RunTo(f, StartRun)
    BY <1>1, <1>5, <2>1 DEF StartRun
  <2>4. CASE sid = "0x22"
    <3>1. GroupCost(f, StartPlace) = 2 /\ GroupTo(f, StartPlace) = k + 1
      BY <1>1, <1>2, <1>3, <1>6, <1>11, <2>4, AnswerCosts
    <3>2. StartPlace' = k + 1 /\ Collected' = 2 * (After - (k + 1)) /\ N(OwnAhead') = 0
      BY <1>1, <2>1, <2>2, <2>4 DEF StartPlace, Collected, OwnAhead, N
    <3>3. GroupGap(Group, StartPlace', GroupTo(f, StartPlace)) = 0
      BY <3>1, <3>2, SameGap
    <3>4. 0 + 2 * (After - k) + 0 + 0 <= 0 + 2 * (After - (k + 1)) + x + 2
      BY Sizes
    <3>5. N(OwnAhead) + Collected + 0 + GroupGap(Group, StartPlace', GroupTo(f, StartPlace))
            <= N(OwnAhead') + Collected' + RunCost(f, StartRun) + GroupCost(f, StartPlace)
      BY <1>3, <1>4, <1>6, <2>4, <3>1, <3>2, <3>3, <3>4
    <3>6. 0 \in Nat
      OBVIOUS
    <3>7. QED
      BY <1>1, <1>10, <2>2, <2>3, <3>5, <3>6, PaidFor DEF f
  <2>5. CASE sid # "0x22"
    <3>1. GroupCost(f, StartPlace) = 2 /\ GroupTo(f, StartPlace) = 0
      BY <1>1, <1>2, <1>3, <1>5, <2>5, AnswerCosts
    <3>2. StartPlace' = Skip /\ Collected' = 0
      BY <1>1, <2>1, <2>5 DEF StartPlace, Collected
    <3>3. GroupGap(Group, StartPlace', GroupTo(f, StartPlace)) = 0
      BY <3>1, <3>2 DEF GroupGap, Nearer
    <3>4. PICK p \in 0 .. 1 : p = N(OwnAhead')
      BY DEF Typed
    <3>5. o + 0 + 0 + 0 <= p + 0 + x + 2
      BY <1>7, <3>4
    <3>6. N(OwnAhead) + Collected + 0 + GroupGap(Group, StartPlace', GroupTo(f, StartPlace))
            <= N(OwnAhead') + Collected' + RunCost(f, StartRun) + GroupCost(f, StartPlace)
      BY <1>3, <1>4, <1>7, <2>5, <3>1, <3>2, <3>3, <3>4, <3>5
    <3>7. 0 \in Nat
      OBVIOUS
    <3>8. QED
      BY <1>1, <1>10, <2>2, <2>3, <3>6, <3>7, PaidFor DEF f
  <2>6. QED
    BY <2>4, <2>5
<1>12. CASE f.sn = k /\ k = VersionFrames /\ sid = "0x22"
  <2>1. frames' = Append(frames, Part(f)) /\ UNCHANGED failures /\ pc' = "ok"
    BY <1>6, <1>12 DEF CollectConsecutive, f
  <2>2. failures' = failures + 0
    BY <1>9, <2>1
  <2>3. /\ StartRun' = 0 /\ StartRun' <= RunTo(f, StartRun)
        /\ StartPlace' = 0 /\ Collected' = 0 /\ N(OwnAhead') = 0
    BY <1>5, <2>1 DEF StartRun, StartPlace, Collected, OwnAhead, Running, N
  <2>4. GroupCost(f, StartPlace) = 2 /\ GroupTo(f, StartPlace) = 0
    BY <1>1, <1>2, <1>3, <1>6, <1>12, AnswerCosts, Sizes
  <2>5. GroupGap(Group, StartPlace', GroupTo(f, StartPlace)) = 0
    BY <2>3, <2>4, SameGap
  <2>6. 0 + 2 * (After - k) + 0 + 0 <= 0 + 0 + x + 2
    BY <1>12, Sizes
  <2>7. N(OwnAhead) + Collected + 0 + GroupGap(Group, StartPlace', GroupTo(f, StartPlace))
            <= N(OwnAhead') + Collected' + RunCost(f, StartRun) + GroupCost(f, StartPlace)
    BY <1>3, <1>4, <1>6, <1>12, <2>3, <2>4, <2>5, <2>6
  <2>8. 0 \in Nat
    OBVIOUS
  <2>9. QED
    BY <1>1, <1>10, <2>2, <2>3, <2>7, <2>8, PaidFor DEF f
<1>13. QED
  <2>1. CASE f.sn # k
    <3>1. Fail
      BY <1>6, <2>1 DEF CollectConsecutive, f
    <3>2. QED
      BY <1>8, <2>1, <3>1
  <2>2. CASE f.sn = k /\ k < VersionFrames
    BY <1>11, <2>2
  <2>3. CASE f.sn = k /\ ~(k < VersionFrames)
    <3>1. k = VersionFrames
      BY <2>3, Sizes
    <3>2. CASE sid = "0x22"
      BY <1>12, <2>3, <3>1, <3>2
    <3>3. CASE sid # "0x22"
      <4>1. Fail
        BY <1>6, <2>3, <3>3 DEF CollectConsecutive, f
      <4>2. QED
        BY <1>8, <3>3, <4>1
    <3>4. QED
      BY <3>2, <3>3
  <2>4. QED
    BY <2>1, <2>2, <2>3

-----------------------------------------------------------------------------
(* Answers that are taken.                                                 *)

(* The client does not move.                                               *)
LEMMA ClientStays ==
    ASSUME Typed, UNCHANGED client
    PROVE  /\ StartRun' = StartRun /\ StartPlace' = StartPlace /\ Collected' = Collected
           /\ failures' = failures /\ UNCHANGED <<pc, sid, att, bsn, frames, pending>>
           /\ (FirstAhead' => FirstAhead) => FlowDue' \in {0, FlowDue}
<1>1. UNCHANGED <<pc, sid, att, bsn, frames, pending, failures>>
  BY DEF client, transfer, clock
<1>2. StartRun' = StartRun /\ StartPlace' = StartPlace /\ Collected' = Collected
  BY <1>1 DEF StartRun, StartPlace, Collected
<1>3. (FirstAhead' => FirstAhead) => FlowDue' \in {0, FlowDue}
  BY <1>1 DEF FlowDue
<1>4. QED
  BY <1>1, <1>2, <1>3

(* Then three sums are enough.                                             *)
LEMMA ThreeSums ==
    ASSUME Typed, Typed', UNCHANGED client, NEW a \in Int, NEW b \in Int, NEW c \in Int,
           RunsNow' <= RunsNow + a, GroupsNow' <= GroupsNow + b, N(OwnAhead) <= N(OwnAhead') + c
    PROVE  Rises(a + b + c)
<1>1. Collected' = Collected /\ failures' = failures /\ Collected \in Nat /\ failures \in Nat
  BY ClientStays DEF Typed
<1>2. Collected <= Collected' + 0 /\ failures' <= failures + 0 /\ 0 \in Int
  <2>1. PICK q, l \in Nat : q = Collected /\ l = failures
    BY <1>1
  <2>2. q <= q + 0 /\ l <= l + 0
    BY <2>1
  <2>3. QED
    BY <1>1, <2>1, <2>2
<1>3. Rises(a + b + c + 0 + 0)
  BY <1>2, Sums
<1>4. a + b + c + 0 + 0 = a + b + c
  OBVIOUS
<1>5. QED
  BY <1>3, <1>4

(* The ECU answers.                                                        *)
LEMMA AnsweredRuns ==
    ASSUME Ordered, Typed, Typed', NEW m, Answers(m), m.kind # "pending", toEcu' \in {<<>>, Tail(toEcu)},
           m.kind = "first" => Head(toEcu).sid = "0x22"
    PROVE  RunsNow' <= RunsNow + 0 /\ FlowDue' \in {0, FlowDue}
<1>1. /\ toEcu # <<>> /\ m \in Frame /\ toGw' = Append(toGw, m) /\ UNCHANGED client /\ ecu'.given = 0
      /\ toGw \in Queue(Frame) /\ toEcu \in Queue(Message) /\ Given \in Run /\ StartRun \in Run
  BY DEF Answers, Typed
<1>2. Given' \in Run
  BY DEF Typed
<1>3. StartRun' = StartRun
  BY <1>1, ClientStays
<1>4. InRuns(Append(toGw, m), Given', StartRun) <= InRuns(toGw, Given, StartRun)
  BY <1>1, <1>2, RunsAppended
<1>5. RunsNow' <= RunsNow
  BY <1>1, <1>3, <1>4 DEF RunsNow
<1>6. FirstAhead' => FirstAhead
  <2>1. /\ Len(toGw) \in Nat /\ toGw \in Seq(Frame) /\ Len(toEcu) \in Nat /\ Len(toEcu) >= 1
        /\ Head(toEcu) = toEcu[1] /\ Len(Tail(toEcu)) = Len(toEcu) - 1
        /\ \A i \in 1 .. Len(toEcu) - 1 : Tail(toEcu)[i] = toEcu[i + 1]
    BY <1>1, Queues
  <2>2. /\ Len(toGw') = Len(toGw) + 1 /\ toGw'[Len(toGw) + 1] = m
        /\ \A i \in 1 .. Len(toGw) : toGw'[i] = toGw[i]
    BY <1>1, <2>1, AppendProperties
  <2>3. ASSUME NEW i \in 1 .. Len(toGw'), toGw'[i].kind = "first" PROVE FirstAhead
    <3>1. CASE i \in 1 .. Len(toGw)
      BY <2>2, <2>3, <3>1 DEF FirstAhead
    <3>2. CASE i \notin 1 .. Len(toGw)
      <4>1. toGw'[i] = m
        BY <2>1, <2>2, <3>2
      <4>2. toEcu[1].sid = "0x22" /\ 1 \in 1 .. Len(toEcu)
        BY <2>1, <2>3, <4>1
      <4>3. QED
        BY <4>2 DEF FirstAhead
    <3>3. QED
      BY <3>1, <3>2
  <2>4. ASSUME NEW i \in 1 .. Len(toEcu'), toEcu'[i].sid = "0x22" PROVE FirstAhead
    <3>1. toEcu' = Tail(toEcu)
      <4>1. toEcu' # <<>>
        BY <2>4, Queues
      <4>2. QED
        BY <4>1
    <3>2. i + 1 \in 1 .. Len(toEcu) /\ toEcu'[i] = toEcu[i + 1]
      BY <2>1, <3>1
    <3>3. QED
      BY <2>4, <3>2 DEF FirstAhead
  <2>5. QED
    BY <2>3, <2>4 DEF FirstAhead
<1>7. FlowDue' \in {0, FlowDue}
  BY <1>1, <1>6, ClientStays
<1>8. PICK x, y \in Nat : x = RunsNow' /\ y = RunsNow
  BY DEF Typed
<1>9. x <= y + 0
  BY <1>5, <1>8
<1>10. QED
  BY <1>7, <1>8, <1>9

(* The call's own answer, when the ECU gives one.                          *)
LEMMA AnsweredOwn ==
    ASSUME Typed, NEW m, Answers(m), toEcu' \in {<<>>, Tail(toEcu)}, OwnAhead
    PROVE  /\ toEcu' = Tail(toEcu) /\ m.kind = "positive" /\ m.att = Head(toEcu).att => OwnAhead'
           /\ toEcu' = Tail(toEcu) /\ Head(toEcu).sid = "0x22" => OwnAhead'
           /\ m.kind = "positive" /\ m.att = Head(toEcu).att /\ ~OwnAhead' =>
                \E i \in 1 .. Len(Tail(toEcu)) : Tail(toEcu)[i].sid \notin {"0x22", "flow_control"}
<1>1. /\ toEcu # <<>> /\ m \in Frame /\ toGw' = Append(toGw, m) /\ UNCHANGED client
      /\ toGw \in Queue(Frame) /\ toEcu \in Queue(Message)
  BY DEF Answers, Typed
<1>2. UNCHANGED <<pc, sid, att>>
  BY <1>1, ClientStays
<1>3. /\ Len(toGw) \in Nat /\ toGw \in Seq(Frame) /\ Len(toEcu) \in Nat /\ Len(toEcu) >= 1
      /\ Head(toEcu) = toEcu[1] /\ Len(Tail(toEcu)) = Len(toEcu) - 1
      /\ \A i \in 1 .. Len(toEcu) - 1 : Tail(toEcu)[i] = toEcu[i + 1]
  BY <1>1, Queues
<1>4. /\ Len(toGw') = Len(toGw) + 1 /\ toGw'[Len(toGw) + 1] = m
      /\ \A i \in 1 .. Len(toGw) : toGw'[i] = toGw[i]
  BY <1>1, <1>3, AppendProperties
<1>5. pc' \in Running /\ sid' # "0x22"
  BY <1>2 DEF OwnAhead
<1>6. ASSUME NEW i \in 1 .. Len(toGw), toGw[i].att = att, toGw[i].kind = "positive"
      PROVE  OwnAhead'
  <2>1. i \in 1 .. Len(toGw') /\ toGw'[i] = toGw[i]
    BY <1>3, <1>4
  <2>2. QED
    BY <1>2, <1>5, <1>6, <2>1 DEF OwnAhead
<1>7. ASSUME NEW i \in 1 .. Len(toEcu), toEcu[i].att = att, Plain(toEcu[i])
      PROVE  /\ i = 1 /\ m.kind = "positive" /\ m.att = Head(toEcu).att => OwnAhead'
             /\ i # 1 => /\ i - 1 \in 1 .. Len(Tail(toEcu)) /\ Tail(toEcu)[i - 1] = toEcu[i]
                         /\ toEcu' = Tail(toEcu) => OwnAhead'
  <2>1. ASSUME i = 1, m.kind = "positive", m.att = Head(toEcu).att
        PROVE  OwnAhead'
    <3>1. Len(toGw) + 1 \in 1 .. Len(toGw') /\ toGw'[Len(toGw) + 1].att = att' /\ toGw'[Len(toGw) + 1].kind = "positive"
      BY <1>2, <1>3, <1>4, <1>7, <2>1
    <3>2. QED
      BY <1>5, <3>1 DEF OwnAhead
  <2>2. ASSUME i # 1
        PROVE  /\ i - 1 \in 1 .. Len(Tail(toEcu)) /\ Tail(toEcu)[i - 1] = toEcu[i]
               /\ toEcu' = Tail(toEcu) => OwnAhead'
    <3>1. i - 1 \in 1 .. Len(toEcu) - 1 /\ (i - 1) + 1 = i
      BY <1>3, <2>2
    <3>2. i - 1 \in 1 .. Len(Tail(toEcu)) /\ Tail(toEcu)[i - 1] = toEcu[i]
      BY <1>3, <3>1
    <3>3. ASSUME toEcu' = Tail(toEcu) PROVE OwnAhead'
      <4>1. i - 1 \in 1 .. Len(toEcu') /\ toEcu'[i - 1].att = att' /\ Plain(toEcu'[i - 1])
        BY <1>2, <1>7, <3>2, <3>3
      <4>2. QED
        BY <1>5, <4>1 DEF OwnAhead, Plain
    <3>4. QED
      BY <3>2, <3>3
  <2>3. QED
    BY <2>1, <2>2
<1>8. QED
  <2>1. CASE \E i \in 1 .. Len(toGw) : toGw[i].att = att /\ toGw[i].kind = "positive"
    BY <1>6, <2>1
  <2>2. CASE \E i \in 1 .. Len(toEcu) : toEcu[i].att = att /\ Plain(toEcu[i])
    <3>1. PICK i \in 1 .. Len(toEcu) : toEcu[i].att = att /\ Plain(toEcu[i])
      BY <2>2
    <3>2. CASE i = 1
      <4>1. Head(toEcu).sid # "0x22"
        BY <1>3, <3>1, <3>2 DEF Plain
      <4>2. QED
        BY <1>7, <3>1, <3>2, <4>1
    <3>3. CASE i # 1
      <4>1. /\ i - 1 \in 1 .. Len(Tail(toEcu)) /\ Tail(toEcu)[i - 1] = toEcu[i]
            /\ toEcu' = Tail(toEcu) => OwnAhead'
        BY <1>7, <3>1, <3>3
      <4>2. Tail(toEcu)[i - 1].sid \notin {"0x22", "flow_control"}
        BY <3>1, <4>1 DEF Plain
      <4>3. QED
        BY <4>1, <4>2
    <3>4. QED
      BY <3>2, <3>3
  <2>3. QED
    BY <2>1, <2>2 DEF OwnAhead

-----------------------------------------------------------------------------
(* What the ECU answers.                                                   *)

(* What an answer in a single frame costs, against what it was owed for.   *)
LEMMA SingleGroups ==
    ASSUME Typed, Typed', UNCHANGED client, NEW m \in Frame, toGw' = Append(toGw, m),
           m.kind \in {"pending", "negative", "positive"}, NEW c \in Int,
           \A b \in 0 .. 1 : GroupCost(m, 0) + Owing(toEcu', FlowDue', b, N(ecu.owes'))
                               <= Owing(toEcu, FlowDue, b, N(ecu.owes)) + c
    PROVE  GroupsNow' <= GroupsNow + c
<1>1. /\ toGw \in Queue(Frame) /\ toEcu \in Queue(Message) /\ toEcu' \in Queue(Message)
      /\ N(ecu.owes) \in 0 .. 1 /\ N(ecu.owes') \in 0 .. 1 /\ FlowDue \in {0, Group} /\ FlowDue' \in {0, Group}
      /\ StartPlace \in Place
  BY DEF Typed
<1>2. StartPlace' = StartPlace
  BY ClientStays
<1>3. InGroups(Append(toGw, m), GroupEnd(toEcu', N(ecu.owes'), FlowDue'), StartPlace)
        <= InGroups(toGw, GroupEnd(toEcu, N(ecu.owes), FlowDue), StartPlace) + c
  BY <1>1, SingleAppended
<1>4. QED
  BY <1>2, <1>3 DEF GroupsNow

(* A positive answer was owed.                                             *)
LEMMA PositiveFalls ==
    ASSUME Ordered, Typed, Typed', EcuSession \/ EcuRequestDownload \/ EcuTransferData \/ EcuTransferExit
    PROVE  Rises(0)
<1>1. PICK m \in Frame : Answers(m) /\ PositiveAnswer(m)
  BY EcuAnswersWell DEF Ordered
<1>2. /\ toEcu # <<>> /\ toEcu' \in {<<>>, Tail(toEcu)} /\ Head(toEcu).sid \in {"0x10", "0x34", "0x36", "0x37"}
      /\ m.kind = "positive" /\ m.sid = Head(toEcu).sid /\ m.att = Head(toEcu).att
      /\ toGw' = Append(toGw, m) /\ UNCHANGED client /\ ecu.owes' = FALSE
  BY <1>1, EcuAnswersWell DEF Ordered, Answers, PositiveAnswer
<1>3. RunsNow' <= RunsNow + 0 /\ FlowDue' \in {0, FlowDue}
  BY <1>1, <1>2, AnsweredRuns
<1>4. /\ toEcu \in Queue(Message) /\ Tail(toEcu) \in Queue(Message) /\ toEcu' \in Queue(Message)
      /\ N(ecu.owes) \in 0 .. 1 /\ FlowDue \in {0, Group} /\ FlowDue' \in {0, Group} /\ 0 \in 0 .. 1 /\ N(ecu.owes') = 0
  BY <1>2, Queues DEF Typed, N
<1>5. 0 \in Place /\ GroupCost(m, 0) = (IF m.sid = "0x10" THEN 1 ELSE 2)
  <2>1. 0 \in Place
    BY Sizes DEF Place, Skip
  <2>2. QED
    BY <1>2, <2>1, AnswerCosts
<1>6. ASSUME NEW b \in 0 .. 1
      PROVE  /\ Owing(Tail(toEcu), FlowDue, b, 0) \in Nat
             /\ Owing(toEcu, FlowDue, b, N(ecu.owes)) = GroupCost(m, 0) + Owing(Tail(toEcu), FlowDue, b, 0)
  <2>1. Owing(Tail(toEcu), FlowDue, b, 0) \in Nat
    BY <1>4, OwingTyped
  <2>2. /\ Head(toEcu).sid = "0x10" => Owing(toEcu, FlowDue, b, N(ecu.owes)) = 1 + Owing(Tail(toEcu), FlowDue, b, 0)
        /\ Head(toEcu).sid \notin {"flow_control", "0x22", "0x10"} =>
             Owing(toEcu, FlowDue, b, N(ecu.owes)) = 2 + Owing(Tail(toEcu), FlowDue, b, 0)
    BY <1>2, <1>4, RequestRead
  <2>3. QED
    BY <1>2, <1>5, <2>1, <2>2
<1>7. GroupCost(m, 0) \in Nat
  BY <1>5
<1>8. CASE toEcu' = Tail(toEcu)
  <2>1. \A b \in 0 .. 1 : GroupCost(m, 0) + Owing(toEcu', FlowDue', b, N(ecu.owes'))
                               <= Owing(toEcu, FlowDue, b, N(ecu.owes)) + 0
    <3>1. SUFFICES ASSUME NEW b \in 0 .. 1
                   PROVE  GroupCost(m, 0) + Owing(toEcu', FlowDue', b, N(ecu.owes'))
                            <= Owing(toEcu, FlowDue, b, N(ecu.owes)) + 0
      OBVIOUS
    <3>2. Owing(Tail(toEcu), FlowDue', b, 0) \in Nat /\ Owing(Tail(toEcu), FlowDue', b, 0) <= Owing(Tail(toEcu), FlowDue, b, 0)
      <4>1. Owing(Tail(toEcu), 0, b, 0) <= Owing(Tail(toEcu), FlowDue, b, 0)
        BY <1>4, OwingLess
      <4>2. Owing(Tail(toEcu), FlowDue, b, 0) \in Nat /\ Owing(Tail(toEcu), FlowDue', b, 0) \in Nat
        BY <1>4, OwingTyped
      <4>3. QED
        BY <1>3, <4>1, <4>2
    <3>3. PICK x, y, z \in Nat : /\ x = Owing(Tail(toEcu), FlowDue', b, 0) /\ y = Owing(Tail(toEcu), FlowDue, b, 0)
                                 /\ z = GroupCost(m, 0)
      BY <1>6, <1>7, <3>2
    <3>4. z + x <= (z + y) + 0
      BY <3>2, <3>3
    <3>5. QED
      BY <1>4, <1>6, <1>8, <3>3, <3>4
  <2>2. GroupsNow' <= GroupsNow + 0
    BY <1>2, <2>1, SingleGroups
  <2>3. OwnAhead => OwnAhead'
    BY <1>1, <1>2, <1>8, AnsweredOwn
  <2>4. N(OwnAhead) <= N(OwnAhead') + 0
    BY <2>3, Implied
  <2>5. Rises(0 + 0 + 0)
    BY <1>2, <1>3, <2>2, <2>4, ThreeSums
  <2>6. 0 + 0 + 0 = 0
    OBVIOUS
  <2>7. QED
    BY <2>5, <2>6
<1>9. CASE toEcu' = <<>>
  <2>1. ASSUME NEW c \in Int, c \in {0, -1},
               c = -1 => \E i \in 1 .. Len(Tail(toEcu)) : Tail(toEcu)[i].sid \notin {"0x22", "flow_control"}
        PROVE  GroupsNow' <= GroupsNow + c
    <3>1. \A b \in 0 .. 1 : GroupCost(m, 0) + Owing(toEcu', FlowDue', b, N(ecu.owes'))
                               <= Owing(toEcu, FlowDue, b, N(ecu.owes)) + c
      <4>1. SUFFICES ASSUME NEW b \in 0 .. 1
                     PROVE  GroupCost(m, 0) + Owing(toEcu', FlowDue', b, N(ecu.owes'))
                              <= Owing(toEcu, FlowDue, b, N(ecu.owes)) + c
        OBVIOUS
      <4>2. Owing(toEcu', FlowDue', b, 0) = (IF b = 1 THEN Group ELSE 0)
        BY <1>4, <1>9, NothingOwed
      <4>3. /\ Owing(Tail(toEcu), FlowDue, b, 0) >= b * Group
            /\ c = -1 => Owing(Tail(toEcu), FlowDue, b, 0) >= b * Group + 1
        BY <1>4, <2>1, OwingAtLeast
      <4>4. PICK y, z \in Nat : y = Owing(Tail(toEcu), FlowDue, b, 0) /\ z = GroupCost(m, 0)
        BY <1>6, <1>7
      <4>5. CASE b = 1
        <5>1. y >= Group /\ (c = -1 => y >= Group + 1)
          BY <4>3, <4>4, <4>5, Sizes
        <5>2. z + Group <= (z + y) + c
          BY <2>1, <5>1, Sizes
        <5>3. QED
          BY <1>4, <1>6, <4>2, <4>4, <4>5, <5>2
      <4>6. CASE b = 0
        <5>1. c = -1 => y >= 1
          BY <4>3, <4>4, <4>6, Sizes
        <5>2. z + 0 <= (z + y) + c
          BY <2>1, <5>1
        <5>3. QED
          BY <1>4, <1>6, <4>2, <4>4, <4>6, <5>2
      <4>7. QED
        BY <4>5, <4>6
    <3>2. QED
      BY <1>2, <2>1, <3>1, SingleGroups
  <2>2. CASE OwnAhead /\ ~OwnAhead'
    <3>1. \E i \in 1 .. Len(Tail(toEcu)) : Tail(toEcu)[i].sid \notin {"0x22", "flow_control"}
      BY <1>1, <1>2, <1>9, <2>2, AnsweredOwn
    <3>2. GroupsNow' <= GroupsNow + (-1)
      BY <2>1, <3>1
    <3>3. N(OwnAhead) <= N(OwnAhead') + 1
      BY <2>2 DEF N
    <3>4. Rises(0 + (-1) + 1)
      BY <1>2, <1>3, <3>2, <3>3, ThreeSums
    <3>5. 0 + (-1) + 1 = 0
      OBVIOUS
    <3>6. QED
      BY <3>4, <3>5
  <2>3. CASE ~(OwnAhead /\ ~OwnAhead')
    <3>1. GroupsNow' <= GroupsNow + 0
      <4>1. 0 \in Int /\ 0 \in {0, -1} /\ ~(0 = -1)
        OBVIOUS
      <4>2. QED
        BY <2>1, <4>1
    <3>2. N(OwnAhead) <= N(OwnAhead') + 0
      BY <2>3, Implied
    <3>3. Rises(0 + 0 + 0)
      BY <1>2, <1>3, <3>1, <3>2, ThreeSums
    <3>4. 0 + 0 + 0 = 0
      OBVIOUS
    <3>5. QED
      BY <3>3, <3>4
  <2>4. QED
    BY <2>2, <2>3
<1>10. QED
  BY <1>2, <1>8, <1>9

(* A version is read: the frames are owed as they were.                    *)
LEMMA VersionFalls ==
    ASSUME Ordered, Typed, Typed', EcuReadVersion
    PROVE  Rises(0)
<1>1. PICK m \in Frame : Answers(m) /\ m.kind = "first"
  BY EcuReadsWell DEF Ordered
<1>2. /\ toEcu # <<>> /\ toEcu' = Tail(toEcu) /\ Head(toEcu).sid = "0x22"
      /\ toGw' = Append(toGw, m) /\ UNCHANGED client /\ N(ecu.owes') = 1
  BY <1>1, EcuReadsWell DEF Ordered, Answers, N
<1>3. RunsNow' <= RunsNow + 0
  BY <1>1, <1>2, AnsweredRuns
<1>4. /\ toGw \in Queue(Frame) /\ toEcu \in Queue(Message) /\ StartPlace \in Place
      /\ N(ecu.owes) \in 0 .. 1 /\ FlowDue \in {0, Group}
  BY DEF Typed
<1>5. FlowDue' = FlowDue /\ StartPlace' = StartPlace
  <2>1. FirstAhead
    <3>1. 1 \in 1 .. Len(toEcu) /\ toEcu[1].sid = "0x22"
      BY <1>2, <1>4, Queues
    <3>2. QED
      BY <3>1 DEF FirstAhead
  <2>2. FirstAhead'
    <3>1. Len(toGw) \in Nat /\ toGw \in Seq(Frame)
      BY <1>4, Queues
    <3>2. Len(toGw') = Len(toGw) + 1 /\ toGw'[Len(toGw) + 1] = m
      BY <1>2, <3>1, AppendProperties
    <3>3. Len(toGw) + 1 \in 1 .. Len(toGw') /\ toGw'[Len(toGw) + 1].kind = "first"
      BY <1>1, <3>1, <3>2
    <3>4. QED
      BY <3>3 DEF FirstAhead
  <2>3. UNCHANGED <<pc, sid>> /\ StartPlace' = StartPlace
    BY <1>2, ClientStays
  <2>4. QED
    BY <2>1, <2>2, <2>3 DEF FlowDue
<1>6. GroupsNow' <= GroupsNow
  <2>1. InGroups(Append(toGw, m), GroupEnd(Tail(toEcu), 1, FlowDue), StartPlace)
          <= InGroups(toGw, GroupEnd(toEcu, N(ecu.owes), FlowDue), StartPlace)
    BY <1>1, <1>2, <1>4, FirstAppended
  <2>2. QED
    BY <1>2, <1>5, <2>1 DEF GroupsNow
<1>7. GroupsNow' <= GroupsNow + 0
  <2>1. PICK x, y \in Nat : x = GroupsNow' /\ y = GroupsNow
    BY DEF Typed
  <2>2. x <= y + 0
    BY <1>6, <2>1
  <2>3. QED
    BY <2>1, <2>2
<1>8. OwnAhead => OwnAhead'
  BY <1>1, <1>2, AnsweredOwn
<1>9. N(OwnAhead) <= N(OwnAhead') + 0
  BY <1>8, Implied
<1>10. Rises(0 + 0 + 0)
  BY <1>2, <1>3, <1>7, <1>9, ThreeSums
<1>11. 0 + 0 + 0 = 0
  OBVIOUS
<1>12. QED
  BY <1>10, <1>11

-----------------------------------------------------------------------------
(* Requests, flow control and "pending" answers.                           *)

(* Positive answers and requests that stay keep the call's own.            *)
LEMMA OwnStays ==
    ASSUME UNCHANGED client,
           \A i \in 1 .. Len(toGw) : toGw[i].kind = "positive" => \E j \in 1 .. Len(toGw') : toGw'[j] = toGw[i],
           \A i \in 1 .. Len(toEcu) : Plain(toEcu[i]) => \E j \in 1 .. Len(toEcu') : toEcu'[j] = toEcu[i]
    PROVE  OwnAhead => OwnAhead'
<1> SUFFICES ASSUME OwnAhead PROVE OwnAhead'
  OBVIOUS
<1>1. UNCHANGED <<pc, sid, att>>
  BY DEF client
<1>2. CASE \E i \in 1 .. Len(toGw) : toGw[i].att = att /\ toGw[i].kind = "positive"
  <2>1. PICK i \in 1 .. Len(toGw) : toGw[i].att = att /\ toGw[i].kind = "positive"
    BY <1>2
  <2>2. PICK j \in 1 .. Len(toGw') : toGw'[j] = toGw[i]
    BY <2>1
  <2>3. toGw'[j].att = att' /\ toGw'[j].kind = "positive"
    BY <1>1, <2>1, <2>2
  <2>4. QED
    BY <1>1, <2>3 DEF OwnAhead
<1>3. CASE \E i \in 1 .. Len(toEcu) : toEcu[i].att = att /\ Plain(toEcu[i])
  <2>1. PICK i \in 1 .. Len(toEcu) : toEcu[i].att = att /\ Plain(toEcu[i])
    BY <1>3
  <2>2. PICK j \in 1 .. Len(toEcu') : toEcu'[j] = toEcu[i]
    BY <2>1
  <2>3. toEcu'[j].att = att' /\ Plain(toEcu'[j])
    BY <1>1, <2>1, <2>2
  <2>4. QED
    BY <1>1, <2>3 DEF OwnAhead, Plain
<1>4. QED
  BY <1>2, <1>3 DEF OwnAhead

(* No first frame, and no request for one, that was not there.             *)
LEMMA FirstStays ==
    ASSUME \A i \in 1 .. Len(toGw') : toGw'[i].kind = "first" => \E j \in 1 .. Len(toGw) : toGw[j] = toGw'[i],
           \A i \in 1 .. Len(toEcu') : \E j \in 1 .. Len(toEcu) : toEcu[j] = toEcu'[i]
    PROVE  FirstAhead' => FirstAhead
<1>1. ASSUME NEW i \in 1 .. Len(toGw'), toGw'[i].kind = "first" PROVE FirstAhead
  <2>1. PICK j \in 1 .. Len(toGw) : toGw[j] = toGw'[i]
    BY <1>1
  <2>2. QED
    BY <1>1, <2>1 DEF FirstAhead
<1>2. ASSUME NEW i \in 1 .. Len(toEcu'), toEcu'[i].sid = "0x22" PROVE FirstAhead
  <2>1. PICK j \in 1 .. Len(toEcu) : toEcu[j] = toEcu'[i]
    OBVIOUS
  <2>2. QED
    BY <1>2, <2>1 DEF FirstAhead
<1>3. QED
  BY <1>1, <1>2 DEF FirstAhead

(* The requests behind the first.                                          *)
LEMMA TailRequests ==
    ASSUME Typed, toEcu # <<>>, toEcu' = Tail(toEcu)
    PROVE  /\ \A i \in 1 .. Len(toEcu') : \E j \in 1 .. Len(toEcu) : toEcu[j] = toEcu'[i]
           /\ ~Plain(Head(toEcu)) =>
                \A i \in 1 .. Len(toEcu) : Plain(toEcu[i]) => \E j \in 1 .. Len(toEcu') : toEcu'[j] = toEcu[i]
<1>1. /\ Len(toEcu) \in Nat /\ Len(toEcu) >= 1 /\ Head(toEcu) = toEcu[1] /\ Len(toEcu') = Len(toEcu) - 1
      /\ \A i \in 1 .. Len(toEcu) - 1 : toEcu'[i] = toEcu[i + 1]
  BY Queues DEF Typed
<1>2. ASSUME NEW i \in 1 .. Len(toEcu') PROVE \E j \in 1 .. Len(toEcu) : toEcu[j] = toEcu'[i]
  <2>1. i + 1 \in 1 .. Len(toEcu) /\ toEcu[i + 1] = toEcu'[i]
    BY <1>1
  <2>2. QED
    BY <2>1
<1>3. ASSUME ~Plain(Head(toEcu)), NEW i \in 1 .. Len(toEcu), Plain(toEcu[i])
      PROVE  \E j \in 1 .. Len(toEcu') : toEcu'[j] = toEcu[i]
  <2>1. i # 1
    BY <1>1, <1>3
  <2>2. i - 1 \in 1 .. Len(toEcu') /\ i - 1 \in 1 .. Len(toEcu) - 1 /\ (i - 1) + 1 = i
    BY <1>1, <2>1
  <2>3. toEcu'[i - 1] = toEcu[i]
    BY <1>1, <2>2
  <2>4. QED
    BY <2>2, <2>3
<1>4. QED
  BY <1>2, <1>3

(* The answers before what is put behind them.                             *)
LEMMA MoreAnswers ==
    ASSUME Typed, NEW x \in Queue(Frame), toGw' = toGw \o x
    PROVE  /\ \A i \in 1 .. Len(toGw) : \E j \in 1 .. Len(toGw') : toGw'[j] = toGw[i]
           /\ (\A i \in 1 .. Len(x) : x[i].kind # "first") =>
                \A i \in 1 .. Len(toGw') : toGw'[i].kind = "first" => \E j \in 1 .. Len(toGw) : toGw[j] = toGw'[i]
<1>1. /\ toGw \in Seq(Frame) /\ x \in Seq(Frame) /\ Len(toGw) \in Nat /\ Len(x) \in Nat
  BY Queues DEF Typed
<1>2. /\ Len(toGw') = Len(toGw) + Len(x)
      /\ \A i \in 1 .. Len(toGw) + Len(x) : toGw'[i] = IF i <= Len(toGw) THEN toGw[i] ELSE x[i - Len(toGw)]
  BY <1>1, ConcatProperties
<1>3. ASSUME NEW i \in 1 .. Len(toGw) PROVE \E j \in 1 .. Len(toGw') : toGw'[j] = toGw[i]
  <2>1. i \in 1 .. Len(toGw') /\ toGw'[i] = toGw[i]
    BY <1>1, <1>2
  <2>2. QED
    BY <2>1
<1>4. ASSUME \A i \in 1 .. Len(x) : x[i].kind # "first",
             NEW i \in 1 .. Len(toGw'), toGw'[i].kind = "first"
      PROVE  \E j \in 1 .. Len(toGw) : toGw[j] = toGw'[i]
  <2>1. CASE i <= Len(toGw)
    <3>1. i \in 1 .. Len(toGw) /\ toGw'[i] = toGw[i]
      BY <1>1, <1>2, <2>1
    <3>2. QED
      BY <3>1
  <2>2. CASE ~(i <= Len(toGw))
    <3>1. i - Len(toGw) \in 1 .. Len(x) /\ toGw'[i] = x[i - Len(toGw)]
      BY <1>1, <1>2, <2>2
    <3>2. QED
      BY <1>4, <3>1
  <2>3. QED
    BY <2>1, <2>2
<1>5. QED
  BY <1>3, <1>4

(* An answer that is appended leaves those that are there.                 *)
LEMMA OneAnswer ==
    ASSUME Typed, NEW m \in Frame, toGw' = Append(toGw, m)
    PROVE  /\ \A i \in 1 .. Len(toGw) : \E j \in 1 .. Len(toGw') : toGw'[j] = toGw[i]
           /\ m.kind # "first" =>
                \A i \in 1 .. Len(toGw') : toGw'[i].kind = "first" => \E j \in 1 .. Len(toGw) : toGw[j] = toGw'[i]
<1>1. <<m>> \in Queue(Frame) /\ toGw' = toGw \o <<m>>
  BY Queues DEF Typed
<1>2. m.kind # "first" => \A i \in 1 .. Len(<<m>>) : <<m>>[i].kind # "first"
  OBVIOUS
<1>3. QED
  BY <1>1, <1>2, MoreAnswers

(* What is owed for less is worth less.                                    *)
LEMMA DueLess ==
    ASSUME NEW s \in Queue(Message), NEW n \in {0, Group}, NEW m \in {0, n}, NEW b \in 0 .. 1, NEW o \in 0 .. 1
    PROVE  Owing(s, m, b, o) \in Nat /\ Owing(s, n, b, o) \in Nat /\ Owing(s, m, b, o) <= Owing(s, n, b, o) + 0
<1>1. m \in {0, Group}
  OBVIOUS
<1>2. Owing(s, 0, b, o) <= Owing(s, n, b, o)
  BY OwingLess
<1>3. Owing(s, m, b, o) \in Nat /\ Owing(s, n, b, o) \in Nat
  BY <1>1, OwingTyped
<1>4. PICK x, y \in Nat : x = Owing(s, m, b, o) /\ y = Owing(s, n, b, o)
  BY <1>3
<1>5. x <= y + 0
  BY <1>2, <1>4
<1>6. QED
  BY <1>3, <1>4, <1>5

(* Nothing added is no more.                                               *)
LEMMA NoMore == ASSUME NEW x \in Nat, NEW y \in Nat, x <= y PROVE x <= y + 0
  OBVIOUS

(* Flow control is taken.                                                  *)
LEMMA FlowFalls ==
    ASSUME Ordered, Typed, Typed', EcuFlowControlled
    PROVE  Rises(0)
<1>1. /\ toEcu # <<>> /\ toEcu' = Tail(toEcu) /\ ecu'.given = ecu.given
      /\ Head(toEcu).sid = "flow_control" /\ UNCHANGED client /\ ecu'.owes = FALSE
      /\ ~ecu.owes => toGw' = toGw
      /\ ecu.owes => \E x : Rest(x, 1) /\ toGw' = toGw \o x
  BY EcuFlowsWell DEF Ordered
<1>2. /\ toGw \in Queue(Frame) /\ toEcu \in Queue(Message) /\ StartPlace \in Place
      /\ N(ecu.owes) \in 0 .. 1 /\ FlowDue \in {0, Group} /\ FlowDue' \in {0, Group}
      /\ Given \in Run /\ StartRun \in Run /\ Tail(toEcu) \in Queue(Message) /\ 0 \in 0 .. 1
      /\ RunsNow \in Nat /\ RunsNow' \in Nat /\ GroupsNow \in Nat /\ GroupsNow' \in Nat
  BY <1>1, Queues DEF Typed
<1>3. StartPlace' = StartPlace /\ StartRun' = StartRun /\ Given' = Given /\ N(ecu.owes') = 0
  BY <1>1, ClientStays DEF Given, N
<1>4. PICK x \in Queue(Frame) : /\ toGw' = toGw \o x /\ \A i \in 1 .. Len(x) : x[i].kind # "first"
                                /\ IF ecu.owes THEN Rest(x, 1) ELSE x = <<>>
  <2>1. CASE ecu.owes
    <3>1. PICK x : Rest(x, 1) /\ toGw' = toGw \o x
      BY <1>1, <2>1
    <3>2. x \in Queue(Frame) /\ \A i \in 1 .. Len(x) : x[i].kind # "first"
      BY <3>1 DEF Rest
    <3>3. QED
      BY <2>1, <3>1, <3>2
  <2>2. CASE ~ecu.owes
    <3>1. <<>> \in Queue(Frame) /\ toGw' = toGw \o <<>> /\ \A i \in 1 .. Len(<<>>) : <<>>[i].kind # "first"
      BY <1>1, <1>2, <2>2, Queues
    <3>2. QED
      BY <2>2, <3>1
  <2>3. QED
    BY <2>1, <2>2
<1>5. FlowDue' \in {0, FlowDue}
  <2>1. FirstAhead' => FirstAhead
    BY <1>1, <1>4, MoreAnswers, TailRequests, FirstStays
  <2>2. QED
    BY <1>1, <2>1, ClientStays
<1>6. OwnAhead => OwnAhead'
  <2>1. ~Plain(Head(toEcu))
    BY <1>1 DEF Plain
  <2>2. QED
    BY <1>1, <1>4, <2>1, MoreAnswers, TailRequests, OwnStays
<1>7. RunsNow' <= RunsNow /\ GroupsNow' <= GroupsNow
  <2>1. CASE ecu.owes
    <3>1. Rest(x, 1) /\ N(ecu.owes) = 1
      BY <1>4, <2>1 DEF N
    <3>2. /\ toGw' \in Queue(Frame)
          /\ InGroups(toGw', GroupEnd(Tail(toEcu), 0, FlowDue), StartPlace) <= InGroups(toGw, GroupEnd(toEcu, 1, FlowDue), StartPlace)
          /\ InRuns(toGw', Given, StartRun) <= InRuns(toGw, Given, StartRun)
      BY <1>1, <1>2, <1>4, <3>1, FramesAppended
    <3>3. RunsNow' <= RunsNow
      BY <1>3, <3>2 DEF RunsNow
    <3>4. /\ InGroups(toGw', GroupEnd(Tail(toEcu), 0, FlowDue'), StartPlace) \in Nat
          /\ InGroups(toGw', GroupEnd(Tail(toEcu), 0, FlowDue), StartPlace) \in Nat
          /\ InGroups(toGw', GroupEnd(Tail(toEcu), 0, FlowDue'), StartPlace)
               <= InGroups(toGw', GroupEnd(Tail(toEcu), 0, FlowDue), StartPlace) + GroupGap(Group, StartPlace, StartPlace) + 0
      <4>1. \A b \in 0 .. 1 : Owing(Tail(toEcu), FlowDue', b, 0) <= Owing(Tail(toEcu), FlowDue, b, 0) + 0
        BY <1>2, <1>5, DueLess
      <4>2. QED
        BY <1>2, <3>2, <4>1, GroupsOwe
    <3>5. GroupGap(Group, StartPlace, StartPlace) = 0
      BY SameGap
    <3>6. GroupsNow' = InGroups(toGw', GroupEnd(Tail(toEcu), 0, FlowDue'), StartPlace)
      BY <1>1, <1>3 DEF GroupsNow
    <3>7. GroupsNow = InGroups(toGw, GroupEnd(toEcu, 1, FlowDue), StartPlace)
      BY <3>1 DEF GroupsNow
    <3>8. PICK y, z \in Nat : y = GroupsNow' /\ z = InGroups(toGw', GroupEnd(Tail(toEcu), 0, FlowDue), StartPlace)
      BY <3>4, <3>6
    <3>9. y <= z
      BY <3>4, <3>5, <3>6, <3>8
    <3>10. PICK g \in Nat : g = GroupsNow
      BY <1>2
    <3>11. z <= g
      BY <3>2, <3>7, <3>8, <3>10
    <3>12. y <= g
      BY <3>9, <3>11
    <3>13. QED
      BY <3>3, <3>8, <3>10, <3>12
  <2>2. CASE ~ecu.owes
    <3>1. N(ecu.owes) = 0 /\ toGw' = toGw
      BY <1>1, <2>2 DEF N
    <3>2. RunsNow' = RunsNow
      BY <1>3, <3>1 DEF RunsNow
    <3>3. /\ InGroups(toGw, GroupEnd(Tail(toEcu), 0, FlowDue'), StartPlace)
               <= InGroups(toGw, GroupEnd(toEcu, 0, FlowDue), StartPlace) + GroupGap(Group, StartPlace, StartPlace) + 0
      <4>1. ASSUME NEW b \in 0 .. 1
            PROVE  Owing(Tail(toEcu), FlowDue', b, 0) <= Owing(toEcu, FlowDue, b, 0) + 0
        <5>1. Owing(Tail(toEcu), FlowDue', b, 0) <= Owing(Tail(toEcu), FlowDue, b, 0) + 0
          BY <1>2, <1>5, DueLess
        <5>2. Owing(toEcu, FlowDue, b, 0) = Owing(Tail(toEcu), FlowDue, b, 0)
          BY <1>1, <1>2, RequestRead
        <5>3. QED
          BY <5>1, <5>2
      <4>2. QED
        BY <1>2, <4>1, GroupsOwe
    <3>4. GroupGap(Group, StartPlace, StartPlace) = 0
      BY SameGap
    <3>5. GroupsNow' = InGroups(toGw, GroupEnd(Tail(toEcu), 0, FlowDue'), StartPlace)
      BY <1>1, <1>3, <3>1 DEF GroupsNow
    <3>6. GroupsNow = InGroups(toGw, GroupEnd(toEcu, 0, FlowDue), StartPlace)
      BY <3>1 DEF GroupsNow
    <3>7. GroupsNow' <= GroupsNow + 0 + 0
      BY <3>3, <3>4, <3>5, <3>6
    <3>8. QED
      BY <1>2, <3>2, <3>7
  <2>3. QED
    BY <2>1, <2>2
<1>8. RunsNow' <= RunsNow + 0 /\ GroupsNow' <= GroupsNow + 0
  BY <1>2, <1>7, NoMore
<1>9. N(OwnAhead) <= N(OwnAhead') + 0
  BY <1>6, Implied
<1>10. Rises(0 + 0 + 0)
  BY <1>1, <1>8, <1>9, ThreeSums
<1>11. 0 + 0 + 0 = 0
  OBVIOUS
<1>12. QED
  BY <1>10, <1>11

(* A "pending" answer: only one too many can cost a call.                  *)
LEMMA KeepAliveRises ==
    ASSUME Ordered, Typed, Typed', EcuKeepAlive
    PROVE  Rises(2) /\ (ecu.given < MaxPending => Rises(0))
<1>1. /\ toEcu # <<>> /\ UNCHANGED <<client, toEcu>> /\ ecu'.given = ecu.given + 1 /\ ecu'.owes = FALSE
      /\ \E m \in Frame : toGw' = Append(toGw, m) /\ m.kind = "pending"
  BY KeepsAliveWell DEF Ordered
<1>2. PICK m \in Frame : toGw' = Append(toGw, m) /\ m.kind = "pending"
  BY <1>1
<1>3. /\ toGw \in Queue(Frame) /\ toEcu \in Queue(Message) /\ StartPlace \in Place
      /\ N(ecu.owes) \in 0 .. 1 /\ FlowDue \in {0, Group} /\ FlowDue' \in {0, Group}
      /\ Given \in Run /\ Given' \in Run /\ StartRun \in Run /\ 0 \in 0 .. 1 /\ N(ecu.owes') = 0
      /\ RunsNow \in Nat /\ RunsNow' \in Nat /\ GroupsNow \in Nat /\ GroupsNow' \in Nat
  BY <1>1 DEF Typed, N
<1>4. ecu.given \in Nat
  BY DEF Ordered, ClientInv, Types, EcuTypes
<1>5. StartRun' = StartRun
  BY <1>1, ClientStays
<1>6. (FirstAhead' => FirstAhead) /\ (OwnAhead => OwnAhead')
  <2>1. /\ \A i \in 1 .. Len(toEcu') : \E j \in 1 .. Len(toEcu) : toEcu[j] = toEcu'[i]
        /\ \A i \in 1 .. Len(toEcu) : Plain(toEcu[i]) => \E j \in 1 .. Len(toEcu') : toEcu'[j] = toEcu[i]
    BY <1>1
  <2>2. m.kind # "first"
    BY <1>2
  <2>3. FirstAhead' => FirstAhead
    BY <1>2, <2>1, <2>2, OneAnswer, FirstStays
  <2>4. OwnAhead => OwnAhead'
    BY <1>1, <1>2, <2>1, OneAnswer, OwnStays
  <2>5. QED
    BY <2>3, <2>4
<1>7. FlowDue' \in {0, FlowDue} /\ N(OwnAhead) <= N(OwnAhead') + 0
  BY <1>1, <1>6, ClientStays, Implied
<1>8. GroupsNow' <= GroupsNow + 0
  <2>1. 0 \in Place
    BY Sizes DEF Place, Skip
  <2>2. GroupCost(m, 0) = 0
    BY <1>2, <2>1, AnswerCosts
  <2>3. ASSUME NEW b \in 0 .. 1
        PROVE  GroupCost(m, 0) + Owing(toEcu', FlowDue', b, N(ecu.owes')) <= Owing(toEcu, FlowDue, b, N(ecu.owes)) + 0
    <3>1. /\ Owing(toEcu, FlowDue', b, 0) \in Nat /\ Owing(toEcu, FlowDue, b, 0) \in Nat
          /\ Owing(toEcu, FlowDue', b, 0) <= Owing(toEcu, FlowDue, b, 0) + 0
      BY <1>3, <1>7, DueLess
    <3>2. Owing(toEcu, FlowDue, b, 0) <= Owing(toEcu, FlowDue, b, N(ecu.owes)) /\ Owing(toEcu, FlowDue, b, N(ecu.owes)) \in Nat
      BY <1>3, OwingLess, OwingTyped
    <3>3. PICK x, y, z \in Nat : /\ x = Owing(toEcu, FlowDue', b, 0) /\ y = Owing(toEcu, FlowDue, b, 0)
                                 /\ z = Owing(toEcu, FlowDue, b, N(ecu.owes))
      BY <3>1, <3>2
    <3>4. x <= y + 0 /\ y <= z
      BY <3>1, <3>2, <3>3
    <3>5. 0 + x <= z + 0
      BY <3>4
    <3>6. QED
      BY <1>1, <1>3, <2>2, <3>3, <3>5
  <2>4. m.kind \in {"pending", "negative", "positive"}
    BY <1>2
  <2>5. QED
    BY <1>1, <1>2, <2>3, <2>4, SingleGroups
<1>9. RunsNow' = InRuns(Append(toGw, m), Given', StartRun) /\ RunsNow = InRuns(toGw, Given, StartRun)
  BY <1>2, <1>5 DEF RunsNow
<1>10. ASSUME ecu.given < MaxPending PROVE Rises(0)
  <2>1. Given' = Given + 1
    BY <1>1, <1>4, <1>10, Sizes DEF Given, Min2
  <2>2. RunsNow' <= RunsNow
    BY <1>2, <1>3, <1>9, <2>1, RunsAppended
  <2>3. RunsNow' <= RunsNow + 0
    BY <1>3, <2>2, NoMore
  <2>4. Rises(0 + 0 + 0)
    BY <1>1, <1>7, <1>8, <2>3, ThreeSums
  <2>5. 0 + 0 + 0 = 0
    OBVIOUS
  <2>6. QED
    BY <2>4, <2>5
<1>11. ASSUME ~(ecu.given < MaxPending) PROVE Rises(2)
  <2>1. Given' = Given
    BY <1>1, <1>4, <1>11, Sizes DEF Given, Min2
  <2>2. RunsNow' <= RunsNow + 2
    BY <1>2, <1>3, <1>9, <2>1, RunsAppended
  <2>3. Rises(2 + 0 + 0)
    BY <1>1, <1>7, <1>8, <2>2, ThreeSums
  <2>4. 2 + 0 + 0 = 2
    OBVIOUS
  <2>5. QED
    BY <2>3, <2>4
<1>12. 0 \in Int /\ 2 \in Int /\ 0 <= 2
  OBVIOUS
<1>13. QED
  BY <1>10, <1>11, <1>12, RisesMore

-----------------------------------------------------------------------------
(* Refusals and losses.                                                    *)

(* What is left is what was there, without the one.                        *)
LEMMA StillThere ==
    ASSUME NEW A, NEW s \in Queue(A), NEW j \in 1 .. Len(s)
    PROVE  /\ \A i \in 1 .. Len(s) : i # j => \E k \in 1 .. Len(RemoveAt(s, j)) : RemoveAt(s, j)[k] = s[i]
           /\ \A k \in 1 .. Len(RemoveAt(s, j)) : \E i \in 1 .. Len(s) : s[i] = RemoveAt(s, j)[k]
<1>1. s \in Seq(A) /\ Len(s) \in Nat
  BY Queues
<1>2. /\ Len(RemoveAt(s, j)) = Len(s) - 1
      /\ \A i \in 1 .. Len(s) - 1 : RemoveAt(s, j)[i] = IF i < j THEN s[i] ELSE s[i + 1]
  BY <1>1, RemovedOne
<1>3. ASSUME NEW i \in 1 .. Len(s), i # j
      PROVE  \E k \in 1 .. Len(RemoveAt(s, j)) : RemoveAt(s, j)[k] = s[i]
  <2>1. CASE i < j
    <3>1. i \in 1 .. Len(s) - 1 /\ RemoveAt(s, j)[i] = s[i]
      BY <1>1, <1>2, <2>1
    <3>2. QED
      BY <1>2, <3>1
  <2>2. CASE ~(i < j)
    <3>1. i - 1 \in 1 .. Len(s) - 1 /\ ~(i - 1 < j) /\ (i - 1) + 1 = i
      BY <1>1, <1>3, <2>2
    <3>2. RemoveAt(s, j)[i - 1] = s[i]
      BY <1>2, <3>1
    <3>3. QED
      BY <1>2, <3>1, <3>2
  <2>3. QED
    BY <2>1, <2>2
<1>4. ASSUME NEW k \in 1 .. Len(RemoveAt(s, j))
      PROVE  \E i \in 1 .. Len(s) : s[i] = RemoveAt(s, j)[k]
  <2>1. k \in 1 .. Len(s) - 1 /\ k \in 1 .. Len(s) /\ k + 1 \in 1 .. Len(s)
    BY <1>1, <1>2
  <2>2. RemoveAt(s, j)[k] = s[k] \/ RemoveAt(s, j)[k] = s[k + 1]
    BY <1>2, <2>1
  <2>3. QED
    BY <2>1, <2>2
<1>5. QED
  BY <1>3, <1>4

(* A request is refused.                                                   *)
LEMMA RefuseRises ==
    ASSUME Ordered, Typed, Typed', EcuRefuse
    PROVE  Rises(2)
<1>1. PICK m \in Frame : Answers(m) /\ m.kind = "negative"
  BY EcuRefusesWell DEF Ordered
<1>2. /\ toEcu # <<>> /\ toEcu' = Tail(toEcu) /\ Head(toEcu).sid # "flow_control"
      /\ toGw' = Append(toGw, m) /\ UNCHANGED client /\ ecu.owes' = FALSE
  BY <1>1, EcuRefusesWell DEF Ordered, Answers
<1>3. RunsNow' <= RunsNow + 0 /\ FlowDue' \in {0, FlowDue}
  BY <1>1, <1>2, AnsweredRuns
<1>4. /\ toEcu \in Queue(Message) /\ Tail(toEcu) \in Queue(Message)
      /\ N(ecu.owes) \in 0 .. 1 /\ FlowDue \in {0, Group} /\ 0 \in 0 .. 1 /\ 1 \in 0 .. 1 /\ N(ecu.owes') = 0
  <2>1. toEcu \in Queue(Message) /\ N(ecu.owes) \in 0 .. 1 /\ FlowDue \in {0, Group}
    BY DEF Typed
  <2>2. Tail(toEcu) \in Queue(Message)
    BY <1>2, <2>1, Queues
  <2>3. N(ecu.owes') = 0
    BY <1>2 DEF N
  <2>4. QED
    BY <2>1, <2>2, <2>3
<1>5. GroupCost(m, 0) = 2
  <2>1. 0 \in Place
    BY Sizes DEF Place, Skip
  <2>2. QED
    BY <1>1, <2>1, AnswerCosts
<1>6. ASSUME NEW c \in Int,
             \A b \in 0 .. 1 : Owing(Tail(toEcu), FlowDue, b, 0) + 2 <= Owing(toEcu, FlowDue, b, N(ecu.owes)) + c
      PROVE  GroupsNow' <= GroupsNow + c
  <2>1. ASSUME NEW b \in 0 .. 1
        PROVE  GroupCost(m, 0) + Owing(toEcu', FlowDue', b, N(ecu.owes')) <= Owing(toEcu, FlowDue, b, N(ecu.owes)) + c
    <3>1. /\ Owing(Tail(toEcu), FlowDue', b, 0) \in Nat /\ Owing(Tail(toEcu), FlowDue, b, 0) \in Nat
          /\ Owing(Tail(toEcu), FlowDue', b, 0) <= Owing(Tail(toEcu), FlowDue, b, 0) + 0
      BY <1>3, <1>4, DueLess
    <3>2. Owing(toEcu, FlowDue, b, N(ecu.owes)) \in Nat
      BY <1>4, OwingTyped
    <3>3. PICK x, y, z \in Nat : /\ x = Owing(Tail(toEcu), FlowDue', b, 0) /\ y = Owing(Tail(toEcu), FlowDue, b, 0)
                                 /\ z = Owing(toEcu, FlowDue, b, N(ecu.owes))
      BY <3>1, <3>2
    <3>4. x <= y + 0
      BY <3>1, <3>3
    <3>5. y + 2 <= z + c
      BY <1>6, <3>3
    <3>6. 2 + x <= z + c
      BY <3>4, <3>5
    <3>7. QED
      BY <1>2, <1>4, <1>5, <3>3, <3>6
  <2>2. m.kind \in {"pending", "negative", "positive"}
    BY <1>1
  <2>3. QED
    BY <1>2, <2>1, <2>2, SingleGroups
<1>7. ASSUME NEW b \in 0 .. 1
      PROVE  /\ Owing(Tail(toEcu), FlowDue, b, 0) \in Nat /\ Owing(Tail(toEcu), FlowDue, b, 1) \in Nat
             /\ Owing(Tail(toEcu), FlowDue, b, 0) <= Owing(Tail(toEcu), FlowDue, b, 1)
             /\ Head(toEcu).sid = "0x22" => Owing(toEcu, FlowDue, b, N(ecu.owes)) = Owing(Tail(toEcu), FlowDue, b, 1)
             /\ Head(toEcu).sid = "0x10" => Owing(toEcu, FlowDue, b, N(ecu.owes)) = 1 + Owing(Tail(toEcu), FlowDue, b, 0)
             /\ Head(toEcu).sid \notin {"0x22", "0x10"} =>
                  Owing(toEcu, FlowDue, b, N(ecu.owes)) = 2 + Owing(Tail(toEcu), FlowDue, b, 0)
  <2>1. Owing(Tail(toEcu), FlowDue, b, 0) \in Nat /\ Owing(Tail(toEcu), FlowDue, b, 1) \in Nat
    BY <1>4, OwingTyped
  <2>2. Owing(Tail(toEcu), FlowDue, b, 0) <= Owing(Tail(toEcu), FlowDue, b, 1)
    BY <1>4, OwingLess
  <2>3. Head(toEcu).sid = "0x22" => Owing(toEcu, FlowDue, b, N(ecu.owes)) = Owing(Tail(toEcu), FlowDue, b, 1)
    BY <1>2, <1>4, RequestRead
  <2>4. Head(toEcu).sid = "0x10" => Owing(toEcu, FlowDue, b, N(ecu.owes)) = 1 + Owing(Tail(toEcu), FlowDue, b, 0)
    BY <1>2, <1>4, RequestRead
  <2>5. Head(toEcu).sid \notin {"0x22", "0x10"} =>
           Owing(toEcu, FlowDue, b, N(ecu.owes)) = 2 + Owing(Tail(toEcu), FlowDue, b, 0)
    BY <1>2, <1>4, RequestRead
  <2>6. QED
    BY <2>1, <2>2, <2>3, <2>4, <2>5
<1>8. N(OwnAhead) <= N(OwnAhead') + 1
  BY DEF N
<1>9. CASE Head(toEcu).sid = "0x22"
  <2>1. \A b \in 0 .. 1 : Owing(Tail(toEcu), FlowDue, b, 0) + 2 <= Owing(toEcu, FlowDue, b, N(ecu.owes)) + 2
    BY <1>7, <1>9
  <2>2. GroupsNow' <= GroupsNow + 2
    BY <1>6, <2>1
  <2>3. OwnAhead => OwnAhead'
    BY <1>1, <1>2, <1>9, AnsweredOwn
  <2>4. N(OwnAhead) <= N(OwnAhead') + 0
    BY <2>3, Implied
  <2>5. Rises(0 + 2 + 0)
    BY <1>2, <1>3, <2>2, <2>4, ThreeSums
  <2>6. 0 + 2 + 0 = 2
    OBVIOUS
  <2>7. QED
    BY <2>5, <2>6
<1>10. CASE Head(toEcu).sid # "0x22"
  <2>1. \A b \in 0 .. 1 : Owing(Tail(toEcu), FlowDue, b, 0) + 2 <= Owing(toEcu, FlowDue, b, N(ecu.owes)) + 1
    BY <1>7, <1>10
  <2>2. GroupsNow' <= GroupsNow + 1
    BY <1>6, <2>1
  <2>3. Rises(0 + 1 + 1)
    BY <1>2, <1>3, <1>8, <2>2, ThreeSums
  <2>4. 0 + 1 + 1 = 2
    OBVIOUS
  <2>5. QED
    BY <2>3, <2>4
<1>11. QED
  BY <1>9, <1>10

(* An answer is lost.                                                      *)
LEMMA AnswerLossRises ==
    ASSUME Ordered, Typed, Typed', LoseAnswer
    PROVE  Rises(Group)
<1>1. PICK i \in 1 .. Len(toGw) : toGw' = RemoveAt(toGw, i)
  <2>1. DOMAIN toGw = 1 .. Len(toGw)
    BY Queues DEF Typed
  <2>2. QED
    BY <2>1 DEF LoseAnswer
<1>2. UNCHANGED <<client, toEcu, ecu>>
  BY DEF LoseAnswer
<1>3. /\ toGw \in Queue(Frame) /\ toEcu \in Queue(Message) /\ StartPlace \in Place
      /\ N(ecu.owes) \in 0 .. 1 /\ FlowDue \in {0, Group} /\ FlowDue' \in {0, Group}
      /\ Given \in Run /\ StartRun \in Run
      /\ GroupsNow \in Nat /\ GroupsNow' \in Nat
  BY DEF Typed
<1>4. StartRun' = StartRun /\ StartPlace' = StartPlace /\ Given' = Given /\ N(ecu.owes') = N(ecu.owes)
  BY <1>2, ClientStays DEF Given
<1>5. /\ \A k \in 1 .. Len(toGw) : k # i => \E j \in 1 .. Len(toGw') : toGw'[j] = toGw[k]
      /\ \A k \in 1 .. Len(toGw') : \E j \in 1 .. Len(toGw) : toGw[j] = toGw'[k]
  BY <1>1, <1>3, StillThere
<1>6. /\ \A k \in 1 .. Len(toEcu') : \E j \in 1 .. Len(toEcu) : toEcu[j] = toEcu'[k]
      /\ \A k \in 1 .. Len(toEcu) : Plain(toEcu[k]) => \E j \in 1 .. Len(toEcu') : toEcu'[j] = toEcu[k]
  BY <1>2
<1>7. FlowDue' \in {0, FlowDue}
  <2>1. FirstAhead' => FirstAhead
    BY <1>5, <1>6, FirstStays
  <2>2. QED
    BY <1>2, <2>1, ClientStays
<1>8. RunsNow' <= RunsNow + 2 /\ toGw' \in Queue(Frame)
  <2>1. InRuns(RemoveAt(toGw, i), Given, StartRun) <= InRuns(toGw, Given, StartRun) + 2 /\ RemoveAt(toGw, i) \in Queue(Frame)
    BY <1>3, RunsRemoved
  <2>2. QED
    BY <1>1, <1>4, <2>1 DEF RunsNow
<1> DEFINE g == InGroups(toGw', GroupEnd(toEcu, N(ecu.owes), FlowDue), StartPlace)
<1>9. g \in Nat /\ GroupsNow' <= g + 0
  <2>1. \A b \in 0 .. 1 : Owing(toEcu, FlowDue', b, N(ecu.owes)) <= Owing(toEcu, FlowDue, b, N(ecu.owes)) + 0
    BY <1>3, <1>7, DueLess
  <2>2. /\ g \in Nat
        /\ InGroups(toGw', GroupEnd(toEcu, N(ecu.owes), FlowDue'), StartPlace) <= g + GroupGap(Group, StartPlace, StartPlace) + 0
    BY <1>3, <1>8, <2>1, GroupsOwe
  <2>3. GroupGap(Group, StartPlace, StartPlace) = 0
    BY SameGap
  <2>4. GroupsNow' = InGroups(toGw', GroupEnd(toEcu, N(ecu.owes), FlowDue'), StartPlace)
    BY <1>2, <1>4 DEF GroupsNow
  <2> HIDE DEF g
  <2>5. GroupsNow' <= g + 0 + 0
    BY <2>2, <2>3, <2>4
  <2>6. QED
    BY <1>3, <2>2, <2>5
<1>10. g <= GroupsNow + (Group - 2) /\ (toGw[i].kind = "positive" => g <= GroupsNow - 1)
  BY <1>1, <1>3, GroupsRemoved DEF GroupsNow
<1> HIDE DEF g
<1>11. CASE toGw[i].kind = "positive"
  <2>1. GroupsNow' <= GroupsNow + (-1)
    BY <1>3, <1>9, <1>10, <1>11
  <2>2. N(OwnAhead) <= N(OwnAhead') + 1
    BY DEF N
  <2>3. Rises(2 + (-1) + 1)
    BY <1>2, <1>8, <2>1, <2>2, ThreeSums
  <2>4. 2 + (-1) + 1 = 2 /\ 2 \in Int /\ Group \in Int /\ 2 <= Group
    BY Sizes
  <2>5. Rises(2)
    BY <2>3, <2>4
  <2>6. QED
    BY <2>4, <2>5, RisesMore
<1>12. CASE toGw[i].kind # "positive"
  <2>1. GroupsNow' <= GroupsNow + (Group - 2)
    BY <1>3, <1>9, <1>10, Sizes
  <2>2. \A k \in 1 .. Len(toGw) : toGw[k].kind = "positive" => \E j \in 1 .. Len(toGw') : toGw'[j] = toGw[k]
    BY <1>5, <1>12
  <2>3. OwnAhead => OwnAhead'
    BY <1>2, <1>6, <2>2, OwnStays
  <2>4. N(OwnAhead) <= N(OwnAhead') + 0
    BY <2>3, Implied
  <2>5. Group - 2 \in Int /\ 2 + (Group - 2) + 0 = Group
    BY Sizes
  <2>6. Rises(2 + (Group - 2) + 0)
    BY <1>2, <1>8, <2>1, <2>4, <2>5, ThreeSums
  <2>7. QED
    BY <2>5, <2>6
<1>13. QED
  BY <1>11, <1>12

(* A request is lost.                                                      *)
LEMMA RequestLossRises ==
    ASSUME Ordered, Typed, Typed', LoseRequest
    PROVE  Rises(Group + 2) /\ ((\A i \in 1 .. Len(toEcu) : ~Plain(toEcu[i])) => Rises(2))
<1>1. /\ UNCHANGED <<client, toGw>> /\ ecu'.given = 0 /\ ecu'.owes = ecu.owes
      /\ \E i \in 1 .. Len(toEcu) : toEcu' = RemoveAt(toEcu, i)
  BY LossWell DEF Ordered
<1>2. PICK i \in 1 .. Len(toEcu) : toEcu' = RemoveAt(toEcu, i)
  BY <1>1
<1>3. /\ toGw \in Queue(Frame) /\ toEcu \in Queue(Message) /\ toEcu' \in Queue(Message) /\ StartPlace \in Place
      /\ N(ecu.owes) \in 0 .. 1 /\ FlowDue \in {0, Group} /\ FlowDue' \in {0, Group}
      /\ Given \in Run /\ Given' \in Run /\ StartRun \in Run /\ N(ecu.owes') = N(ecu.owes)
      /\ GroupsNow \in Nat /\ GroupsNow' \in Nat
  BY <1>1 DEF Typed
<1>4. StartRun' = StartRun /\ StartPlace' = StartPlace
  BY <1>1, ClientStays
<1>5. /\ \A k \in 1 .. Len(toEcu) : k # i => \E j \in 1 .. Len(toEcu') : toEcu'[j] = toEcu[k]
      /\ \A k \in 1 .. Len(toEcu') : \E j \in 1 .. Len(toEcu) : toEcu[j] = toEcu'[k]
  BY <1>2, <1>3, StillThere
<1>6. /\ \A k \in 1 .. Len(toGw') : \E j \in 1 .. Len(toGw) : toGw[j] = toGw'[k]
      /\ \A k \in 1 .. Len(toGw) : \E j \in 1 .. Len(toGw') : toGw'[j] = toGw[k]
  BY <1>1
<1>7. FlowDue' \in {0, FlowDue}
  <2>1. FirstAhead' => FirstAhead
    BY <1>5, <1>6, FirstStays
  <2>2. QED
    BY <1>1, <2>1, ClientStays
<1>8. RunsNow' <= RunsNow + 2
  <2>1. StartRun <= StartRun
    BY <1>3, Sizes DEF Run
  <2>2. InRuns(toGw, Given', StartRun) <= InRuns(toGw, Given, StartRun) + 2
    BY <1>3, <2>1, RunsEnd
  <2>3. QED
    BY <1>1, <1>4, <2>2 DEF RunsNow
<1>9. ASSUME NEW c \in Int, \A b \in 0 .. 1 : Owing(toEcu', FlowDue, b, N(ecu.owes)) <= Owing(toEcu, FlowDue, b, N(ecu.owes)) + c
      PROVE  GroupsNow' <= GroupsNow + c
  <2>1. ASSUME NEW b \in 0 .. 1
        PROVE  Owing(toEcu', FlowDue', b, N(ecu.owes)) <= Owing(toEcu, FlowDue, b, N(ecu.owes)) + c
    <3>1. /\ Owing(toEcu', FlowDue', b, N(ecu.owes)) \in Nat /\ Owing(toEcu', FlowDue, b, N(ecu.owes)) \in Nat
          /\ Owing(toEcu', FlowDue', b, N(ecu.owes)) <= Owing(toEcu', FlowDue, b, N(ecu.owes)) + 0
      BY <1>3, <1>7, DueLess
    <3>2. Owing(toEcu, FlowDue, b, N(ecu.owes)) \in Nat
      BY <1>3, OwingTyped
    <3>3. PICK x, y, z \in Nat : /\ x = Owing(toEcu', FlowDue', b, N(ecu.owes)) /\ y = Owing(toEcu', FlowDue, b, N(ecu.owes))
                                 /\ z = Owing(toEcu, FlowDue, b, N(ecu.owes))
      BY <3>1, <3>2
    <3>4. x <= y + 0
      BY <3>1, <3>3
    <3>5. y <= z + c
      BY <1>9, <3>3
    <3>6. x <= z + c
      BY <3>4, <3>5
    <3>7. QED
      BY <3>3, <3>6
  <2>2. InGroups(toGw, GroupEnd(toEcu', N(ecu.owes), FlowDue'), StartPlace)
          <= InGroups(toGw, GroupEnd(toEcu, N(ecu.owes), FlowDue), StartPlace) + GroupGap(Group, StartPlace, StartPlace) + c
    BY <1>3, <2>1, GroupsOwe
  <2>3. GroupGap(Group, StartPlace, StartPlace) = 0
    BY SameGap
  <2>4. /\ GroupsNow' = InGroups(toGw, GroupEnd(toEcu', N(ecu.owes), FlowDue'), StartPlace)
        /\ GroupsNow = InGroups(toGw, GroupEnd(toEcu, N(ecu.owes), FlowDue), StartPlace)
    BY <1>1, <1>3, <1>4 DEF GroupsNow
  <2>5. GroupsNow' <= GroupsNow + 0 + c
    BY <2>2, <2>3, <2>4
  <2>6. QED
    BY <1>3, <2>5
<1>10. CASE Plain(toEcu[i])
  <2>1. Group - 1 \in Int /\ 2 + (Group - 1) + 1 = Group + 2
    BY Sizes
  <2>2. \A b \in 0 .. 1 : Owing(toEcu', FlowDue, b, N(ecu.owes)) <= Owing(toEcu, FlowDue, b, N(ecu.owes)) + (Group - 1)
    BY <1>2, <1>3, LosingCosts
  <2>3. GroupsNow' <= GroupsNow + (Group - 1)
    BY <1>9, <2>1, <2>2
  <2>4. N(OwnAhead) <= N(OwnAhead') + 1
    BY DEF N
  <2>5. Rises(2 + (Group - 1) + 1)
    BY <1>1, <1>8, <2>1, <2>3, <2>4, ThreeSums
  <2>6. Rises(Group + 2)
    BY <2>1, <2>5
  <2>7. QED
    BY <1>10, <2>6
<1>11. CASE ~Plain(toEcu[i])
  <2>1. toEcu[i].sid \in {"0x22", "flow_control"}
    BY <1>11 DEF Plain
  <2>2. \A b \in 0 .. 1 : Owing(toEcu', FlowDue, b, N(ecu.owes)) <= Owing(toEcu, FlowDue, b, N(ecu.owes)) + 0
    <3>1. SUFFICES ASSUME NEW b \in 0 .. 1
                   PROVE Owing(toEcu', FlowDue, b, N(ecu.owes)) <= Owing(toEcu, FlowDue, b, N(ecu.owes)) + 0
      OBVIOUS
    <3>2. Owing(toEcu', FlowDue, b, N(ecu.owes)) <= Owing(toEcu, FlowDue, b, N(ecu.owes))
      BY <1>2, <1>3, <2>1, LosingCosts
    <3>3. Owing(toEcu', FlowDue, b, N(ecu.owes)) \in Nat /\ Owing(toEcu, FlowDue, b, N(ecu.owes)) \in Nat
      BY <1>3, OwingTyped
    <3>4. QED
      BY <3>2, <3>3, NoMore
  <2>3. GroupsNow' <= GroupsNow + 0
    BY <1>9, <2>2
  <2>4. OwnAhead => OwnAhead'
    <3>1. \A k \in 1 .. Len(toEcu) : Plain(toEcu[k]) => \E j \in 1 .. Len(toEcu') : toEcu'[j] = toEcu[k]
      BY <1>5, <1>11
    <3>2. QED
      BY <1>1, <1>6, <3>1, OwnStays
  <2>5. N(OwnAhead) <= N(OwnAhead') + 0
    BY <2>4, Implied
  <2>6. Rises(2 + 0 + 0)
    BY <1>1, <1>8, <2>3, <2>5, ThreeSums
  <2>7. 2 + 0 + 0 = 2 /\ 2 \in Int /\ Group + 2 \in Int /\ 2 <= Group + 2
    BY Sizes
  <2>8. Rises(2)
    BY <2>6, <2>7
  <2>9. QED
    BY <2>7, <2>8, RisesMore
<1>12. QED
  BY <1>10, <1>11

-----------------------------------------------------------------------------
(* Steps of a client that waits, starts or stops.                          *)

(* Five sums that cancel out.                                              *)
LEMMA NoRise ==
    ASSUME Typed, Typed', NEW a \in Int, NEW b \in Int, NEW c \in Int, NEW d \in Int, NEW k \in Int,
           RunsNow' <= RunsNow + a, GroupsNow' <= GroupsNow + b, N(OwnAhead) <= N(OwnAhead') + c,
           Collected <= Collected' + d, failures' <= failures + k, NEW e \in Int, a + b + c + d + k = e
    PROVE  Rises(e)
<1>1. Rises(a + b + c + d + k)
  BY Sums
<1>2. QED
  BY <1>1

(* What is equal is no more.                                               *)
LEMMA EqualMore == ASSUME NEW x \in Nat, NEW y, y = x PROVE y <= x + 0 /\ x <= y + 0
  OBVIOUS

(* Waiting changes nothing.                                                *)
LEMMA LingerStays ==
    ASSUME Typed, UNCHANGED <<pc, sid, att, pending, frames, failures, toEcu, toGw, ecu>>
    PROVE  Rises(0)
<1>1. Psi' = Psi
  BY DEF Psi, RunsNow, GroupsNow, OwnAhead, Collected, StartRun, StartPlace, Given, FlowDue, FirstAhead
<1>2. PICK x \in Int : x = failures + Psi
  BY DEF Typed, Psi
<1>3. x <= x + 0
  OBVIOUS
<1>4. QED
  BY <1>1, <1>2, <1>3 DEF Rises

(* A call begins with a request, and what it costs is the call's own.      *)
LEMMA StartFalls ==
    ASSUME Ordered, Ordered', Typed, Typed', StartDownload \/ StartReadVersion
    PROVE  Rises(0)
<1>1. PICK s \in {"0x10", "0x22"} : Call(s)
  BY DEF StartDownload, StartReadVersion
<1> DEFINE r == Request(s, 0, 0, 0)
<1>2. /\ pc \in {"idle", "ok", "failed"} /\ pc' = "wait" /\ sid' = s /\ pending' = 0
      /\ toEcu' = Append(toEcu, r) /\ UNCHANGED <<toGw, ecu, failures>>
  BY <1>1 DEF Call, SendSingle, Fresh
<1>3. pc \notin Running /\ pc' \in Running
  BY <1>2 DEF Running
<1>4. r.sid = s /\ r.att = att'
  BY DEF Request
<1>5. StartPlace = 0 /\ StartRun = 0 /\ Collected = 0 /\ N(OwnAhead) = 0
  BY <1>3, Stopped
<1>6. StartPlace' = 0 /\ StartRun' = 0 /\ Collected' = 0 /\ Given' = Given /\ N(ecu.owes') = N(ecu.owes)
  BY <1>2 DEF StartPlace, StartRun, Collected, Given
<1>7. s = "0x22" => FlowDue' = 0 /\ N(OwnAhead') = 0
  BY <1>2 DEF FlowDue, OwnAhead, N
<1>8. /\ toGw \in Queue(Frame) /\ toEcu \in Queue(Message) /\ toEcu' \in Queue(Message) /\ 0 \in Place
      /\ N(ecu.owes) \in 0 .. 1 /\ FlowDue \in {0, Group} /\ FlowDue' \in {0, Group}
      /\ RunsNow \in Nat /\ GroupsNow \in Nat /\ GroupsNow' \in Nat /\ N(OwnAhead') \in Nat
      /\ failures \in Nat
  BY <1>5 DEF Typed
<1>9. /\ Len(toEcu) \in Nat /\ Len(toEcu') = Len(toEcu) + 1 /\ toEcu'[Len(toEcu) + 1] = r
  <2>1. toEcu \in Seq(Message \union {r}) /\ r \in Message \union {r} /\ Len(toEcu) \in Nat
    BY <1>8, Queues
  <2>2. QED
    BY <1>2, <2>1, AppendProperties
<1> HIDE DEF r
<1>10. r \in Message
  <2>1. Len(toEcu) + 1 \in 1 .. Len(toEcu')
    BY <1>9
  <2>2. toEcu' \in Seq(Message)
    BY <1>8, Queues
  <2>3. toEcu'[Len(toEcu) + 1] \in Message
    BY <2>1, <2>2, ElementOfSeq
  <2>4. QED
    BY <1>9, <2>3
<1>11. RunsNow' <= RunsNow + 0
  <2>1. RunsNow' = RunsNow
    BY <1>2, <1>5, <1>6 DEF RunsNow
  <2>2. QED
    BY <1>8, <2>1, EqualMore
<1>12. ASSUME NEW c \in Int, \A b \in 0 .. 1 : Owing(toEcu', FlowDue', b, N(ecu.owes)) <= Owing(toEcu, FlowDue, b, N(ecu.owes)) + c
       PROVE  GroupsNow' <= GroupsNow + c
  <2>1. InGroups(toGw, GroupEnd(toEcu', N(ecu.owes), FlowDue'), 0)
          <= InGroups(toGw, GroupEnd(toEcu, N(ecu.owes), FlowDue), 0) + GroupGap(Group, 0, 0) + c
    BY <1>8, <1>12, GroupsOwe
  <2>2. GroupGap(Group, 0, 0) = 0
    BY SameGap
  <2>3. /\ GroupsNow' = InGroups(toGw, GroupEnd(toEcu', N(ecu.owes), FlowDue'), 0)
        /\ GroupsNow = InGroups(toGw, GroupEnd(toEcu, N(ecu.owes), FlowDue), 0)
    BY <1>2, <1>5, <1>6 DEF GroupsNow
  <2>4. GroupsNow' <= GroupsNow + 0 + c
    BY <2>1, <2>2, <2>3
  <2>5. QED
    BY <1>8, <2>4
<1>13. failures' <= failures + 0 /\ Collected <= Collected' + 0
  <2>1. 0 <= 0 + 0
    OBVIOUS
  <2>2. QED
    BY <1>2, <1>5, <1>6, <1>8, <2>1, EqualMore
<1>14. 0 \in Int /\ 1 \in Int /\ -1 \in Int /\ 0 + 1 + (-1) + 0 + 0 = 0 /\ 0 + 0 + 0 + 0 + 0 = 0
  OBVIOUS
<1>15. CASE s = "0x10"
  <2>1. \A b \in 0 .. 1 : Owing(toEcu', FlowDue', b, N(ecu.owes)) <= Owing(toEcu, FlowDue, b, N(ecu.owes)) + 1
    BY <1>2, <1>4, <1>8, <1>10, <1>15, SendingCosts
  <2>2. GroupsNow' <= GroupsNow + 1
    BY <1>12, <1>14, <2>1
  <2>3. OwnAhead'
    <3>1. Len(toEcu) + 1 \in 1 .. Len(toEcu') /\ toEcu'[Len(toEcu) + 1].att = att' /\ Plain(toEcu'[Len(toEcu) + 1])
      BY <1>4, <1>9, <1>15 DEF Plain
    <3>2. sid' # "0x22"
      BY <1>2, <1>15
    <3>3. QED
      BY <1>3, <3>1, <3>2 DEF OwnAhead, Plain
  <2>4. N(OwnAhead) <= N(OwnAhead') + (-1)
    <3>1. N(OwnAhead') = 1 /\ 0 <= 1 + (-1)
      BY <2>3 DEF N
    <3>2. QED
      BY <1>5, <3>1
  <2>5. QED
    BY <1>11, <1>13, <1>14, <2>2, <2>4, NoRise
<1>16. CASE s = "0x22"
  <2>1. \A b \in 0 .. 1 : Owing(toEcu', FlowDue', b, N(ecu.owes)) <= Owing(toEcu, FlowDue, b, N(ecu.owes)) + 0
    <3>1. SUFFICES ASSUME NEW b \in 0 .. 1
                   PROVE Owing(toEcu', FlowDue', b, N(ecu.owes)) <= Owing(toEcu, FlowDue, b, N(ecu.owes)) + 0
      OBVIOUS
    <3>2. Owing(toEcu', FlowDue', b, N(ecu.owes)) <= Owing(toEcu, FlowDue, b, N(ecu.owes))
      BY <1>2, <1>4, <1>7, <1>8, <1>10, <1>16, SendingCosts
    <3>3. Owing(toEcu', FlowDue', b, N(ecu.owes)) \in Nat /\ Owing(toEcu, FlowDue, b, N(ecu.owes)) \in Nat
      BY <1>8, OwingTyped
    <3>4. QED
      BY <3>2, <3>3, NoMore
  <2>2. GroupsNow' <= GroupsNow + 0
    BY <1>12, <1>14, <2>1
  <2>3. N(OwnAhead) <= N(OwnAhead') + 0
    <3>1. 0 <= 0 + 0
      OBVIOUS
    <3>2. QED
      BY <1>5, <1>7, <1>16, <3>1
  <2>4. QED
    BY <1>11, <1>13, <1>14, <2>2, <2>3, NoRise
<1>17. QED
  BY <1>15, <1>16

(* A call fails with the queues as they are.                               *)
LEMMA StopRises ==
    ASSUME Ordered, Typed, Typed', Fail, UNCHANGED <<toGw, ecu, att>>, pc \in {"fc", "wait", "cf"}
    PROVE  /\ pc # "cf" => Rises(2)
           /\ pc = "cf" /\ sid = "0x22" => Rises(Group + 1)
           /\ pc = "cf" /\ sid # "0x22" => Rises(Group + 2)
<1>1. pc' = "failed" /\ failures' = failures + 1 /\ UNCHANGED <<sid, frames, toEcu>>
  BY DEF Fail
<1>2. /\ StartPlace' = 0 /\ StartRun' = 0 /\ Collected' = 0 /\ N(OwnAhead') = 0 /\ FlowDue' = 0
      /\ Given' = Given /\ N(ecu.owes') = N(ecu.owes)
  BY <1>1 DEF Running, StartPlace, StartRun, Collected, OwnAhead, FlowDue, N, Given
<1>3. /\ toGw \in Queue(Frame) /\ toEcu \in Queue(Message) /\ StartPlace \in Place /\ 0 \in Place
      /\ N(ecu.owes) \in 0 .. 1 /\ FlowDue \in {0, Group} /\ Given \in Run /\ StartRun \in Run /\ 0 \in Run
      /\ RunsNow \in Nat /\ GroupsNow \in Nat /\ RunsNow' \in Nat /\ GroupsNow' \in Nat
      /\ failures \in Nat /\ Collected \in Nat
  BY <1>2 DEF Typed
<1>4. RunsNow' <= RunsNow + 0
  <2>1. 0 <= StartRun /\ Given <= Given
    BY <1>3, Sizes DEF Run
  <2>2. InRuns(toGw, Given, 0) <= InRuns(toGw, Given, StartRun)
    BY <1>3, <2>1, RunsEnd
  <2>3. RunsNow' <= RunsNow
    BY <1>2, <2>2 DEF RunsNow
  <2>4. QED
    BY <1>3, <2>3, NoMore
<1>5. GroupsNow' <= GroupsNow + GroupGap(Group, 0, StartPlace)
  <2>1. \A b \in 0 .. 1 : Owing(toEcu, 0, b, N(ecu.owes)) <= Owing(toEcu, FlowDue, b, N(ecu.owes)) + 0
    BY <1>3, DueLess
  <2>2. InGroups(toGw, GroupEnd(toEcu, N(ecu.owes), 0), 0)
          <= InGroups(toGw, GroupEnd(toEcu, N(ecu.owes), FlowDue), StartPlace) + GroupGap(Group, 0, StartPlace) + 0
    BY <1>3, <2>1, GroupsOwe
  <2>3. /\ GroupsNow' = InGroups(toGw, GroupEnd(toEcu, N(ecu.owes), 0), 0)
        /\ GroupsNow = InGroups(toGw, GroupEnd(toEcu, N(ecu.owes), FlowDue), StartPlace)
    BY <1>1, <1>2 DEF GroupsNow
  <2>4. GroupGap(Group, 0, StartPlace) \in Nat
    BY <1>3, GroupsFar
  <2>5. GroupsNow' <= GroupsNow + GroupGap(Group, 0, StartPlace) + 0
    BY <2>2, <2>3
  <2>6. QED
    BY <1>3, <2>4, <2>5
<1>6. N(OwnAhead) <= N(OwnAhead') + 1 /\ failures' <= failures + 1
  <2>1. N(OwnAhead) <= N(OwnAhead') + 1
    BY DEF N
  <2>2. failures' <= failures + 1
    BY <1>1, <1>3
  <2>3. QED
    BY <2>1, <2>2
<1>7. /\ 0 \in Int /\ 1 \in Int /\ 2 \in Int /\ Group \in Int /\ Group + 1 \in Int /\ Group + 2 \in Int
      /\ 0 + 0 + 1 + 0 + 1 = 2 /\ 0 + 0 + 0 + Group + 1 = Group + 1 /\ 0 + Group + 1 + 0 + 1 = Group + 2
  BY Sizes
<1>8. ASSUME pc # "cf" PROVE Rises(2)
  <2>1. StartPlace = 0 /\ Collected = 0
    BY <1>8 DEF StartPlace, Collected
  <2>2. GroupGap(Group, 0, StartPlace) = 0
    BY <2>1, SameGap
  <2>3. GroupsNow' <= GroupsNow + 0
    BY <1>5, <2>2
  <2>4. Collected <= Collected' + 0
    <3>1. 0 <= 0 + 0
      OBVIOUS
    <3>2. QED
      BY <1>2, <2>1, <3>1
  <2>5. QED
    BY <1>4, <1>6, <1>7, <2>3, <2>4, NoRise
<1>9. ASSUME pc = "cf", sid = "0x22" PROVE Rises(Group + 1)
  <2>1. /\ Len(frames) \in 1 .. VersionFrames /\ StartPlace = Len(frames) /\ N(OwnAhead) = 0
        /\ Collected = 2 * (After - Len(frames))
    BY <1>9, Gathering
  <2>2. StartPlace # Skip
    BY <2>1, Sizes DEF Skip
  <2>3. GroupGap(Group, 0, StartPlace) = 0
    BY <1>3, <2>2, StopGap
  <2>4. GroupsNow' <= GroupsNow + 0
    BY <1>5, <2>3
  <2>5. PICK k \in 1 .. VersionFrames : k = Len(frames)
    BY <2>1
  <2>6. 2 * (After - k) <= 0 + Group
    BY Sizes
  <2>7. Collected <= Collected' + Group
    BY <1>2, <2>1, <2>5, <2>6
  <2>8. N(OwnAhead) <= N(OwnAhead') + 0
    <3>1. 0 <= 0 + 0
      OBVIOUS
    <3>2. QED
      BY <1>2, <2>1, <3>1
  <2>9. QED
    BY <1>4, <1>6, <1>7, <2>4, <2>7, <2>8, NoRise
<1>10. ASSUME pc = "cf", sid # "0x22" PROVE Rises(Group + 2)
  <2>1. Collected = 0
    BY <1>10, Gathering
  <2>2. GroupGap(Group, 0, StartPlace) \in {0, Group}
    BY <1>3, StopGap
  <2>3. GroupsNow' <= GroupsNow + Group
    BY <1>3, <1>5, <2>2, Sizes
  <2>4. Collected <= Collected' + 0
    <3>1. 0 <= 0 + 0
      OBVIOUS
    <3>2. QED
      BY <1>2, <2>1, <3>1
  <2>5. QED
    BY <1>4, <1>6, <1>7, <2>3, <2>4, NoRise
<1>11. QED
  BY <1>8, <1>9, <1>10

-----------------------------------------------------------------------------
(* The first frame of a version answer.                                    *)

(* What the call under way has ahead stays, where it runs on.              *)
LEMMA OwnKept ==
    ASSUME pc' \in Running, UNCHANGED <<sid, att>>,
           \A i \in 1 .. Len(toGw) : toGw[i].kind = "positive" => \E j \in 1 .. Len(toGw') : toGw'[j] = toGw[i],
           \A i \in 1 .. Len(toEcu) : \E j \in 1 .. Len(toEcu') : toEcu'[j] = toEcu[i]
    PROVE  OwnAhead => OwnAhead'
<1> SUFFICES ASSUME OwnAhead PROVE OwnAhead'
  OBVIOUS
<1>1. CASE \E i \in 1 .. Len(toGw) : toGw[i].att = att /\ toGw[i].kind = "positive"
  <2>1. PICK i \in 1 .. Len(toGw) : toGw[i].att = att /\ toGw[i].kind = "positive"
    BY <1>1
  <2>2. PICK j \in 1 .. Len(toGw') : toGw'[j] = toGw[i]
    BY <2>1
  <2>3. toGw'[j].att = att' /\ toGw'[j].kind = "positive"
    BY <2>1, <2>2
  <2>4. QED
    BY <2>3 DEF OwnAhead
<1>2. CASE \E i \in 1 .. Len(toEcu) : toEcu[i].att = att /\ Plain(toEcu[i])
  <2>1. PICK i \in 1 .. Len(toEcu) : toEcu[i].att = att /\ Plain(toEcu[i])
    BY <1>2
  <2>2. PICK j \in 1 .. Len(toEcu') : toEcu'[j] = toEcu[i]
    OBVIOUS
  <2>3. toEcu'[j].att = att' /\ Plain(toEcu'[j])
    BY <2>1, <2>2
  <2>4. QED
    BY <2>3 DEF OwnAhead, Plain
<1>3. QED
  BY <1>1, <1>2 DEF OwnAhead

(* A first frame is taken, and flow control sent: the frames it calls for  *)
(* are counted for a version, and had been for a session.                  *)
LEMMA FirstFalls ==
    ASSUME Ordered, Ordered', Typed, Typed', ReceiveFirst
    PROVE  Rises(0)
<1> DEFINE f == Head(toGw)
           r == Request("flow_control", 0, 0, 0)
           e == GroupEnd(toEcu, N(ecu.owes), FlowDue)
           o == N(ecu.owes)
<1>1. /\ pc = "wait" /\ toGw # <<>> /\ f.kind = "first" /\ toGw' = Tail(toGw)
      /\ frames' = <<Part(f)>> /\ toEcu' = Append(toEcu, r) /\ pc' = "cf"
      /\ UNCHANGED <<sid, att, failures, ecu>>
  BY DEF ReceiveFirst, Receive
<1>2. sid \in {"0x10", "0x22"}
  BY FirstOrderly DEF Ordered
<1>3. Len(frames') = 1 /\ r.sid = "flow_control"
  BY <1>1 DEF Request
<1>4. /\ toGw \in Queue(Frame) /\ toEcu \in Queue(Message) /\ toEcu' \in Queue(Message)
      /\ StartRun \in Run /\ Given \in Run /\ StartPlace \in Place /\ StartPlace = 0 /\ Collected = 0
      /\ FlowDue \in {0, Group} /\ o \in 0 .. 1 /\ e \in Prices(Groups)
      /\ RunsNow \in Nat /\ GroupsNow \in Nat /\ RunsNow' \in Nat /\ GroupsNow' \in Nat /\ failures \in Nat
  BY <1>1, Waiting DEF Typed
<1>5. /\ f \in Frame /\ Tail(toGw) \in Queue(Frame)
      /\ InRuns(toGw, Given, StartRun) = RunCost(f, StartRun) + InRuns(Tail(toGw), Given, RunTo(f, StartRun))
      /\ InGroups(toGw, e, StartPlace) = GroupCost(f, StartPlace) + InGroups(Tail(toGw), e, GroupTo(f, StartPlace))
  BY <1>1, <1>4, AnswerRead
<1>6. RunCost(f, StartRun) = 0 /\ RunTo(f, StartRun) = 0
  BY <1>1 DEF RunCost, RunTo
<1>7. GroupCost(f, StartPlace) = 0 /\ GroupTo(f, StartPlace) = After
  <2>1. 0 \notin Middle /\ 0 \in Place
    BY Sizes DEF Middle, Place, Skip
  <2>2. OnFirst(0) = After
    BY DEF OnFirst
  <2>3. QED
    BY <1>1, <1>4, <1>5, <2>1, <2>2, AnswerCosts
<1>8. StartRun' = 0 /\ Given' = Given /\ FlowDue' = 0 /\ N(ecu.owes') = o
  BY <1>1 DEF StartRun, Given, FlowDue
<1>9. /\ sid = "0x22" => StartPlace' = 1 /\ Collected' = 2 * (After - 1) /\ N(OwnAhead) = 0 /\ N(OwnAhead') = 0
      /\ sid = "0x10" => StartPlace' = Skip /\ Collected' = 0
  BY <1>1, <1>3 DEF StartPlace, Collected, OwnAhead, N
<1>10. \A i \in 1 .. Len(toEcu) : \E j \in 1 .. Len(toEcu') : toEcu'[j] = toEcu[i]
  <2>1. toEcu \in Seq(Message \union {r}) /\ r \in Message \union {r} /\ Len(toEcu) \in Nat
    BY <1>4, Queues
  <2>2. Len(toEcu') = Len(toEcu) + 1 /\ \A i \in 1 .. Len(toEcu) : toEcu'[i] = toEcu[i]
    BY <1>1, <2>1, AppendProperties
  <2>3. \A i \in 1 .. Len(toEcu) : i \in 1 .. Len(toEcu')
    BY <2>1, <2>2
  <2>4. QED
    BY <2>2, <2>3
<1>11. r \in Message
  <2>1. toEcu \in Seq(Message \union {r}) /\ r \in Message \union {r} /\ Len(toEcu) \in Nat /\ toEcu' \in Seq(Message)
    BY <1>4, Queues
  <2>2. Len(toEcu') = Len(toEcu) + 1 /\ toEcu'[Len(toEcu) + 1] = r
    BY <1>1, <2>1, AppendProperties
  <2>3. Len(toEcu) + 1 \in 1 .. Len(toEcu')
    BY <2>1, <2>2
  <2>4. toEcu'[Len(toEcu) + 1] \in Message
    BY <2>1, <2>3, ElementOfSeq
  <2>5. QED
    BY <2>2, <2>4
<1>12. RunsNow' <= RunsNow + 0
  <2>1. InRuns(Tail(toGw), Given, 0) \in Nat /\ RunsNow' = InRuns(Tail(toGw), Given, 0)
    BY <1>1, <1>4, <1>8 DEF RunsNow
  <2>2. RunsNow = 0 + InRuns(Tail(toGw), Given, 0)
    BY <1>5, <1>6 DEF RunsNow
  <2>3. RunsNow = RunsNow'
    BY <2>1, <2>2
  <2>4. QED
    BY <1>4, <2>3, EqualMore
<1>13. /\ InGroups(Tail(toGw), GroupEnd(toEcu', o, 0), 1) <= InGroups(Tail(toGw), e, After) + Group
       /\ FlowDue = Group =>
            InGroups(Tail(toGw), GroupEnd(toEcu', o, 0), Skip) <= InGroups(Tail(toGw), e, After)
       /\ InGroups(Tail(toGw), e, After) \in Nat
  BY <1>1, <1>3, <1>4, <1>5, <1>11, FlowAnswers
<1>14. GroupsNow = InGroups(Tail(toGw), e, After)
  <2>1. GroupsNow = InGroups(toGw, e, StartPlace)
    BY DEF GroupsNow
  <2>2. GroupsNow = 0 + InGroups(Tail(toGw), e, After)
    BY <1>5, <1>7, <2>1
  <2>3. QED
    BY <1>13, <2>2
<1>15. GroupsNow' = InGroups(Tail(toGw), GroupEnd(toEcu', o, 0), StartPlace')
  BY <1>1, <1>8 DEF GroupsNow
<1> HIDE DEF f, r, e, o
<1>16. failures' <= failures + 0
  BY <1>1, <1>4, EqualMore
<1>17. /\ 0 \in Int /\ Group \in Int /\ -Group \in Int /\ 0 + Group + 0 + (-Group) + 0 = 0
       /\ 0 + 0 + 0 + 0 + 0 = 0 /\ 0 <= 0 + 0
  BY Sizes
<1>18. CASE sid = "0x22"
  <2>1. GroupsNow' <= GroupsNow + Group
    BY <1>9, <1>13, <1>14, <1>15, <1>18
  <2>2. Collected <= Collected' + (-Group)
    <3>1. 0 <= 2 * (After - 1) + (-Group)
      BY Sizes
    <3>2. QED
      BY <1>4, <1>9, <1>18, <3>1
  <2>3. N(OwnAhead) <= N(OwnAhead') + 0
    BY <1>9, <1>17, <1>18
  <2>4. QED
    BY <1>12, <1>16, <1>17, <2>1, <2>2, <2>3, NoRise
<1>19. CASE sid = "0x10"
  <2>1. 1 \in 1 .. Len(toGw) /\ toGw[1].kind = "first"
    BY <1>1, FirstAnswer DEF f
  <2>2. FlowDue = Group
    BY <1>1, <1>19, <2>1 DEF FlowDue, FirstAhead
  <2>3. GroupsNow' <= GroupsNow
    BY <1>9, <1>13, <1>14, <1>15, <1>19, <2>2
  <2>4. GroupsNow' <= GroupsNow + 0
    BY <1>4, <2>3, NoMore
  <2>5. \A i \in 1 .. Len(toGw) : toGw[i].kind = "positive" => \E j \in 1 .. Len(toGw') : toGw'[j] = toGw[i]
    <3>1. /\ Len(toGw) \in Nat /\ Head(toGw) = toGw[1] /\ Len(toGw') = Len(toGw) - 1
          /\ \A i \in 1 .. Len(toGw) - 1 : toGw'[i] = toGw[i + 1]
      BY <1>1, <1>4, Queues
    <3>2. SUFFICES ASSUME NEW i \in 1 .. Len(toGw), toGw[i].kind = "positive"
                   PROVE  \E j \in 1 .. Len(toGw') : toGw'[j] = toGw[i]
      OBVIOUS
    <3>3. i # 1
      BY <2>1, <3>2
    <3>4. i - 1 \in 1 .. Len(toGw') /\ i - 1 \in 1 .. Len(toGw) - 1 /\ (i - 1) + 1 = i
      BY <3>1, <3>3
    <3>5. toGw'[i - 1] = toGw[i]
      BY <3>1, <3>4
    <3>6. QED
      BY <3>4, <3>5
  <2>6. OwnAhead => OwnAhead'
    <3>1. pc' \in Running
      BY <1>1 DEF Running
    <3>2. QED
      BY <1>1, <1>10, <2>5, <3>1, OwnKept
  <2>7. N(OwnAhead) <= N(OwnAhead') + 0
    BY <2>6, Implied
  <2>8. Collected <= Collected' + 0
    BY <1>4, <1>9, <1>17, <1>19
  <2>9. QED
    BY <1>12, <1>16, <1>17, <2>4, <2>7, <2>8, NoRise
<1>20. QED
  BY <1>2, <1>18, <1>19

-----------------------------------------------------------------------------
(* What a clean state has ahead.                                           *)

(* Queues of no element and of one.                                        *)
LEMMA ShortQueues ==
    ASSUME NEW A, NEW s \in Queue(A)
    PROVE  /\ Len(s) = 0 => s = <<>>
           /\ Len(s) = 1 => s # <<>> /\ Head(s) = s[1] /\ Tail(s) = <<>>
<1>1. Len(s) = 0 => s = <<>>
  BY Queues, EmptySeq
<1>2. ASSUME Len(s) = 1 PROVE s # <<>> /\ Head(s) = s[1] /\ Tail(s) = <<>>
  <2>1. s # <<>>
    <3>1. Len(<<>>) = 0
      BY Queues
    <3>2. QED
      BY <1>2, <3>1
  <2>2. Head(s) = s[1] /\ Tail(s) \in Queue(A) /\ Len(Tail(s)) = Len(s) - 1
    BY <2>1, Queues
  <2>3. Tail(s) \in Seq(A) /\ Len(Tail(s)) = 0
    <3>1. Tail(s) \in Seq(A)
      BY <2>2, Queues
    <3>2. 1 - 1 = 0
      OBVIOUS
    <3>3. QED
      BY <1>2, <2>2, <3>1, <3>2
  <2>4. Tail(s) = <<>>
    BY <2>3, EmptySeq
  <2>5. QED
    BY <2>1, <2>2, <2>4
<1>3. QED
  BY <1>1, <1>2

(* The one request there is.                                               *)
LEMMA OneOwed ==
    ASSUME NEW s \in Queue(Message), s # <<>>, Tail(s) = <<>>, NEW n \in {0, Group}, NEW b \in 0 .. 1, NEW o \in 0 .. 1
    PROVE  /\ Head(s).sid = "flow_control" /\ o = 1 => Owing(s, n, b, o) = Group + Owing(<<>>, n, 0, 0)
           /\ Head(s).sid = "0x22" => Owing(s, n, b, o) = Owing(<<>>, n, b, 1)
           /\ Head(s).sid = "0x10" => Owing(s, n, b, o) = 1 + Owing(<<>>, n, b, 0)
           /\ Head(s).sid \notin {"flow_control", "0x22", "0x10"} => Owing(s, n, b, o) = 2 + Owing(<<>>, n, b, 0)
<1>1. Head(s).sid = "flow_control" /\ o = 1 => Owing(s, n, b, o) = Group + Owing(Tail(s), n, 0, 0)
  BY RequestRead
<1>2. Head(s).sid = "0x22" => Owing(s, n, b, o) = Owing(Tail(s), n, b, 1)
  BY RequestRead
<1>3. Head(s).sid = "0x10" => Owing(s, n, b, o) = 1 + Owing(Tail(s), n, b, 0)
  BY RequestRead
<1>4. Head(s).sid \notin {"flow_control", "0x22", "0x10"} => Owing(s, n, b, o) = 2 + Owing(Tail(s), n, b, 0)
  BY RequestRead
<1>5. QED
  BY <1>1, <1>2, <1>3, <1>4

(* What can still fail is not less than nothing: the frames that are       *)
(* collected, and the call's own answer, have been counted.                *)
LEMMA PsiNat ==
    ASSUME Ordered, Typed
    PROVE  Psi \in Nat
<1>1. /\ toGw \in Queue(Frame) /\ toEcu \in Queue(Message) /\ StartPlace \in Place
      /\ N(ecu.owes) \in 0 .. 1 /\ FlowDue \in {0, Group} /\ RunsNow \in Nat /\ GroupsNow \in Nat
      /\ N(OwnAhead) \in 0 .. 1
  BY DEF Typed
<1>2. CASE pc = "cf" /\ sid = "0x22"
  <2>1. /\ Len(frames) \in 1 .. VersionFrames /\ StartPlace = Len(frames)
        /\ Collected = 2 * (After - Len(frames)) /\ N(OwnAhead) = 0
    BY <1>2, Gathering
  <2>2. GroupsNow >= 2 * (After - Len(frames))
    BY <1>1, <2>1, GroupsAtLeast DEF GroupsNow
  <2>3. PICK k \in 1 .. VersionFrames : k = Len(frames)
    BY <2>1
  <2>4. PICK x, y \in Nat : x = RunsNow /\ y = GroupsNow
    BY <1>1
  <2>5. x + y - 0 - 2 * (After - k) \in Nat
    BY <2>2, <2>3, <2>4, Sizes
  <2>6. QED
    BY <2>1, <2>3, <2>4, <2>5 DEF Psi
<1>3. CASE ~(pc = "cf" /\ sid = "0x22")
  <2>1. Collected = 0
    BY <1>3 DEF Collected
  <2>2. OwnAhead => GroupsNow >= 1
    <3>1. SUFFICES ASSUME OwnAhead PROVE GroupsNow >= 1
      OBVIOUS
    <3>2. \/ \E i \in 1 .. Len(toGw) : toGw[i].kind = "positive"
          \/ \E i \in 1 .. Len(toEcu) : toEcu[i].sid \notin {"0x22", "flow_control"}
      BY <3>1 DEF OwnAhead, Plain
    <3>3. QED
      BY <1>1, <3>2, GroupsOne DEF GroupsNow
  <2>3. N(OwnAhead) <= GroupsNow
    <3>1. CASE OwnAhead
      BY <1>1, <2>2, <3>1 DEF N
    <3>2. CASE ~OwnAhead
      BY <1>1, <3>2 DEF N
    <3>3. QED
      BY <3>1, <3>2
  <2>4. PICK x, y \in Nat : x = RunsNow /\ y = GroupsNow
    BY <1>1
  <2>5. PICK o \in 0 .. 1 : o = N(OwnAhead)
    BY <1>1
  <2>6. x + y - o - 0 \in Nat
    BY <2>3, <2>4, <2>5
  <2>7. QED
    BY <2>1, <2>4, <2>5, <2>6 DEF Psi
<1>4. QED
  BY <1>2, <1>3

(* Nothing is owed any more.                                               *)
LEMMA EmptyEnd ==
    ASSUME NEW o \in 0 .. 1
    PROVE  /\ GroupEnd(<<>>, o, 0) \in Prices(Groups) /\ 0 \in Place /\ After \in Place
           /\ At(GroupEnd(<<>>, o, 0), 0) = 0 /\ At(GroupEnd(<<>>, o, 0), After) = 0
<1>1. <<>> \in Queue(Message) /\ 0 \in {0, Group}
  BY Queues
<1>2. 0 \in Place /\ After \in Place /\ 0 \notin Middle /\ After \notin Middle /\ After # 1 /\ 0 # 1
  BY Sizes DEF Place, Skip, Middle
<1>3. N(0 = 1) = 0 /\ N(After = 1) = 0
  BY <1>2 DEF N
<1>4. /\ GroupEnd(<<>>, o, 0) \in Prices(Groups)
      /\ \A g \in Place : At(GroupEnd(<<>>, o, 0), g) = Owing(<<>>, 0, N(g = 1), o) + (IF g \in Middle THEN Group ELSE 0)
  BY <1>1, GroupEnds
<1>5. Owing(<<>>, 0, 0, o) = 0
  BY <1>1, NothingOwed
<1>6. At(GroupEnd(<<>>, o, 0), 0) = 0 + 0 /\ At(GroupEnd(<<>>, o, 0), After) = 0 + 0
  BY <1>2, <1>3, <1>4, <1>5
<1>7. QED
  BY <1>2, <1>4, <1>6

(* In a clean state it is next to nothing.                                 *)
LEMMA CleanSmall ==
    ASSUME Ordered, Typed, Clean
    PROVE  Psi <= 1 /\ (pc = "cf" => Psi <= 0)
<1> DEFINE o == N(ecu.owes)
<1>1. /\ toGw \in Queue(Frame) /\ toEcu \in Queue(Message) /\ StartPlace \in Place
      /\ o \in 0 .. 1 /\ FlowDue \in {0, Group} /\ RunsNow \in Nat /\ GroupsNow \in Nat
      /\ N(OwnAhead) \in 0 .. 1 /\ Given \in Run /\ StartRun \in Run /\ 0 \in Run
      /\ GroupEnd(toEcu, o, FlowDue) \in Prices(Groups)
  BY Sizes DEF Typed, Run
<1>2. RunsNow = InRuns(toGw, Given, StartRun) /\ GroupsNow = InGroups(toGw, GroupEnd(toEcu, o, FlowDue), StartPlace)
  BY DEF RunsNow, GroupsNow
<1>3. /\ GroupEnd(<<>>, o, 0) \in Prices(Groups) /\ 0 \in Place /\ After \in Place
      /\ At(GroupEnd(<<>>, o, 0), 0) = 0 /\ At(GroupEnd(<<>>, o, 0), After) = 0
  BY <1>1, EmptyEnd
<1> HIDE DEF o
<1>4. CASE pc \notin {"wait", "cf"}
  <2>1. toGw = <<>> /\ toEcu = <<>>
    BY <1>1, <1>4, ShortQueues DEF Clean
  <2>2. StartPlace = 0 /\ StartRun = 0 /\ Collected = 0 /\ FlowDue = 0
    BY <1>4 DEF StartPlace, StartRun, Collected, FlowDue
  <2>3. RunsNow = 0
    <3>1. ~(0 > Given)
      BY <1>1, Sizes DEF Run
    <3>2. QED
      BY <1>1, <1>2, <2>1, <2>2, <3>1, NothingAhead
  <2>4. GroupsNow = 0
    BY <1>1, <1>2, <1>3, <2>1, <2>2, NothingAhead
  <2>5. PICK p \in 0 .. 1 : p = N(OwnAhead)
    BY <1>1
  <2>6. 0 + 0 - p - 0 <= 1
    OBVIOUS
  <2>7. QED
    BY <1>4, <2>2, <2>3, <2>4, <2>5, <2>6 DEF Psi
<1>5. CASE pc = "wait" /\ CleanAsked
  <2>1. /\ Len(toEcu) = 1 /\ toEcu[1].sid = sid /\ toEcu[1].att = att
        /\ \A i \in 1 .. Len(toGw) : toGw[i].kind = "pending"
        /\ pending + Len(toGw) <= ecu.given /\ ecu.given <= MaxPending
    BY <1>5 DEF CleanAsked, OwnRequest, EachPending
  <2>2. toEcu # <<>> /\ Head(toEcu) = toEcu[1] /\ Tail(toEcu) = <<>>
    BY <1>1, <2>1, ShortQueues
  <2>3. StartPlace = 0 /\ StartRun = pending /\ Collected = 0
    BY <1>5, Waiting
  <2>4. Given = ecu.given
    <3>1. ecu.given \in Nat
      BY DEF Ordered, ClientInv, Types, EcuTypes
    <3>2. QED
      BY <2>1, <3>1, Sizes DEF Given, Min2
  <2>5. Waits(toGw, StartRun, Given)
    BY <1>1, <2>1, <2>3, <2>4 DEF Waits
  <2>6. RunsNow = 0 /\ GroupsNow = At(GroupEnd(toEcu, o, FlowDue), 0)
    BY <1>1, <1>2, <2>3, <2>5, WaitsTotal
  <2>7. GroupsNow = Owing(toEcu, FlowDue, 0, o)
    <3>1. 0 \notin Middle /\ N(0 = 1) = 0 /\ 0 \in 0 .. 1
      BY Sizes DEF Middle, N
    <3>2. At(GroupEnd(toEcu, o, FlowDue), 0) = Owing(toEcu, FlowDue, 0, o) + 0
      BY <1>1, <1>3, <3>1, GroupEnds
    <3>3. Owing(toEcu, FlowDue, 0, o) \in Nat
      BY <1>1, <3>1, OwingTyped
    <3>4. QED
      BY <2>6, <3>2, <3>3
  <2>8. /\ sid = "0x22" => GroupsNow = Owing(<<>>, FlowDue, 0, 1)
        /\ sid = "0x10" => GroupsNow = 1 + Owing(<<>>, FlowDue, 0, 0)
        /\ sid \notin {"flow_control", "0x22", "0x10"} => GroupsNow = 2 + Owing(<<>>, FlowDue, 0, 0)
    <3>1. 0 \in 0 .. 1 /\ Head(toEcu).sid = sid
      BY <2>1, <2>2
    <3>2. sid = "0x22" => Owing(toEcu, FlowDue, 0, o) = Owing(<<>>, FlowDue, 0, 1)
      BY <1>1, <2>2, <3>1, OneOwed
    <3>3. sid = "0x10" => Owing(toEcu, FlowDue, 0, o) = 1 + Owing(<<>>, FlowDue, 0, 0)
      BY <1>1, <2>2, <3>1, OneOwed
    <3>4. sid \notin {"flow_control", "0x22", "0x10"} => Owing(toEcu, FlowDue, 0, o) = 2 + Owing(<<>>, FlowDue, 0, 0)
      BY <1>1, <2>2, <3>1, OneOwed
    <3>5. QED
      BY <2>7, <3>2, <3>3, <3>4
  <2>9. Owing(<<>>, FlowDue, 0, 1) = FlowDue /\ Owing(<<>>, FlowDue, 0, 0) = 0
    <3>1. 0 \in 0 .. 1 /\ 1 \in 0 .. 1 /\ 0 # 1
      OBVIOUS
    <3>2. QED
      BY <1>1, <3>1, NothingOwed
  <2>10. sid # "flow_control"
    BY DEF Ordered, Supplement, Sids
  <2>11. sid = "0x22" => FlowDue = 0
    BY DEF FlowDue
  <2>12. sid # "0x22" => N(OwnAhead) = 1
    <3>1. sid # "0x22" => OwnAhead
      <4>1. SUFFICES ASSUME sid # "0x22" PROVE OwnAhead
        OBVIOUS
      <4>2. 1 \in 1 .. Len(toEcu) /\ toEcu[1].att = att /\ Plain(toEcu[1])
        BY <2>1, <2>10, <4>1 DEF Plain
      <4>3. QED
        BY <1>5, <4>1, <4>2 DEF OwnAhead, Running
    <3>2. QED
      BY <3>1 DEF N
  <2>13. CASE sid = "0x22"
    <3>1. GroupsNow = 0
      BY <2>8, <2>9, <2>11, <2>13
    <3>2. PICK p \in 0 .. 1 : p = N(OwnAhead)
      BY <1>1
    <3>3. 0 + 0 - p - 0 <= 1
      OBVIOUS
    <3>4. QED
      BY <1>5, <2>3, <2>6, <3>1, <3>2, <3>3 DEF Psi
  <2>14. CASE sid # "0x22"
    <3>1. GroupsNow \in {1, 2}
      BY <2>8, <2>9, <2>10, <2>14
    <3>2. PICK g \in {1, 2} : g = GroupsNow
      BY <3>1
    <3>3. 0 + g - 1 - 0 <= 1
      BY <3>2
    <3>4. QED
      BY <1>5, <2>3, <2>6, <2>12, <2>14, <3>2, <3>3 DEF Psi
  <2>15. QED
    BY <2>13, <2>14
<1>6. CASE pc = "wait" /\ CleanAnswered
  <2>1. /\ Len(toEcu) = 0 /\ Len(toGw) >= 1 /\ OwnAnswer(toGw[Len(toGw)])
        /\ \A i \in 1 .. Len(toGw) : i # Len(toGw) => toGw[i].kind = "pending"
        /\ pending + Len(toGw) - 1 <= MaxPending
    BY <1>6 DEF CleanAnswered
  <2> DEFINE a == toGw[Len(toGw)]
  <2>2. toEcu = <<>> /\ Len(toGw) \in 1 .. Len(toGw) /\ a \in Frame
    <3>1. toEcu = <<>>
      BY <1>1, <2>1, ShortQueues
    <3>2. Len(toGw) \in 1 .. Len(toGw) /\ toGw \in Seq(Frame)
      BY <1>1, <2>1, Queues
    <3>3. QED
      BY <3>1, <3>2, ElementOfSeq
  <2>3. StartPlace = 0 /\ StartRun = pending /\ Collected = 0
    BY <1>6, Waiting
  <2>4. a.kind \in {"first", "positive"} /\ (a.kind = "first" <=> sid = "0x22")
    BY <2>1 DEF OwnAnswer
  <2>5. a.kind = "positive" => a.sid = sid /\ a.att = att /\ OwnAhead
    <3>1. SUFFICES ASSUME a.kind = "positive" PROVE a.sid = sid /\ a.att = att /\ OwnAhead
      OBVIOUS
    <3>2. sid # "0x22"
      BY <2>4, <3>1
    <3>3. a.sid = sid /\ a.att = att
      BY <2>1, <3>2 DEF OwnAnswer
    <3>4. \E i \in 1 .. Len(toGw) : toGw[i].att = att /\ toGw[i].kind = "positive"
      BY <2>2, <3>1, <3>3
    <3>5. OwnAhead
      BY <1>6, <3>2, <3>4 DEF OwnAhead, Running
    <3>6. QED
      BY <3>3, <3>5
  <2> HIDE DEF a
  <2>6. FlowDue = 0
    <3>1. SUFFICES ASSUME sid = "0x10", FirstAhead PROVE FALSE
      BY DEF FlowDue
    <3>2. \A i \in 1 .. Len(toGw) : toGw[i].kind # "first"
      <4>1. SUFFICES ASSUME NEW i \in 1 .. Len(toGw) PROVE toGw[i].kind # "first"
        OBVIOUS
      <4>2. CASE i = Len(toGw)
        <5>1. a.kind # "first"
          BY <2>4, <3>1
        <5>2. QED
          BY <4>2, <5>1 DEF a
      <4>3. CASE i # Len(toGw)
        BY <2>1, <4>3
      <4>4. QED
        BY <4>2, <4>3
    <3>3. \A i \in 1 .. Len(toEcu) : FALSE
      BY <2>1
    <3>4. QED
      BY <3>1, <3>2, <3>3 DEF FirstAhead
  <2>7. Leads(toGw, a, StartRun)
    BY <1>1, <2>1, <2>2, <2>3, <2>4 DEF Leads, a
  <2>8. RunsNow = 0 /\ GroupsNow = GroupCost(a, 0) + At(GroupEnd(<<>>, o, 0), GroupTo(a, 0))
    BY <1>1, <1>2, <1>3, <2>2, <2>3, <2>6, <2>7, LeadsTotal
  <2>9. CASE a.kind = "first"
    <3>1. GroupCost(a, 0) = 0 /\ GroupTo(a, 0) = After
      <4>1. 0 \notin Middle /\ OnFirst(0) = After
        BY Sizes DEF Middle, OnFirst
      <4>2. QED
        BY <1>3, <2>2, <2>9, <4>1, AnswerCosts
    <3>2. GroupsNow = 0 + 0
      BY <1>3, <2>8, <3>1
    <3>3. PICK p \in 0 .. 1 : p = N(OwnAhead)
      BY <1>1
    <3>4. 0 + (0 + 0) - p - 0 <= 1
      OBVIOUS
    <3>5. QED
      BY <1>6, <2>3, <2>8, <3>2, <3>3, <3>4 DEF Psi
  <2>10. CASE a.kind = "positive"
    <3>1. GroupCost(a, 0) \in {1, 2} /\ GroupTo(a, 0) = 0
      BY <1>3, <2>2, <2>10, AnswerCosts
    <3>2. GroupsNow = GroupCost(a, 0) + 0
      BY <1>3, <2>8, <3>1
    <3>3. N(OwnAhead) = 1
      BY <2>5, <2>10 DEF N
    <3>4. PICK g \in {1, 2} : g = GroupCost(a, 0)
      BY <3>1
    <3>5. 0 + (g + 0) - 1 - 0 <= 1
      BY <3>4
    <3>6. QED
      BY <1>6, <2>3, <2>8, <3>2, <3>3, <3>4, <3>5 DEF Psi
  <2>11. QED
    BY <2>4, <2>9, <2>10
<1>7. ASSUME pc = "cf", sid = "0x22"
      PROVE  /\ StartRun = 0 /\ FlowDue = 0 /\ N(OwnAhead) = 0 /\ StartPlace = Len(frames)
             /\ Len(frames) \in 1 .. VersionFrames /\ Collected = 2 * (After - Len(frames))
  <2>1. FlowDue = 0
    BY <1>7 DEF FlowDue
  <2>2. QED
    BY <1>7, <2>1, Gathering
<1>8. CASE pc = "cf" /\ sid = "0x22" /\ CleanFlow
  <2>1. /\ Len(toEcu) = 1 /\ toEcu[1].sid = "flow_control" /\ Len(toGw) = 0 /\ o = 1 /\ Len(frames) = 1
    BY <1>8 DEF CleanFlow, o, N
  <2>2. toGw = <<>> /\ toEcu # <<>> /\ Head(toEcu) = toEcu[1] /\ Tail(toEcu) = <<>>
    BY <1>1, <2>1, ShortQueues
  <2>3. RunsNow = 0
    <3>1. ~(0 > Given)
      BY <1>1, Sizes DEF Run
    <3>2. QED
      BY <1>1, <1>2, <1>7, <1>8, <2>2, <3>1, NothingAhead
  <2>4. GroupsNow = At(GroupEnd(toEcu, 1, 0), 1)
    BY <1>1, <1>2, <1>7, <1>8, <2>1, <2>2, NothingAhead
  <2>5. At(GroupEnd(toEcu, 1, 0), 1) = Owing(toEcu, 0, 1, 1) + 0
    <3>1. 1 \notin Middle /\ N(1 = 1) = 1 /\ 1 \in Place /\ 1 \in 0 .. 1 /\ 0 \in {0, Group}
      BY Sizes DEF Middle, N, Place, Skip
    <3>2. QED
      BY <1>1, <3>1, GroupEnds
  <2>6. Owing(toEcu, 0, 1, 1) = Group + 0
    <3>1. 1 \in 0 .. 1 /\ 0 \in 0 .. 1 /\ 0 \in {0, Group}
      OBVIOUS
    <3>2. Owing(toEcu, 0, 1, 1) = Group + Owing(<<>>, 0, 0, 0)
      BY <1>1, <2>1, <2>2, <3>1, OneOwed
    <3>3. Owing(<<>>, 0, 0, 0) = 0
      BY <3>1, NothingOwed
    <3>4. QED
      BY <3>2, <3>3
  <2>7. GroupsNow = Group
    BY <2>4, <2>5, <2>6, Sizes
  <2>8. Collected = Group
    BY <1>7, <1>8, <2>1, Sizes
  <2>9. 0 + Group - 0 - Group <= 0 /\ 0 + Group - 0 - Group <= 1
    BY Sizes
  <2>10. QED
    BY <1>7, <1>8, <2>3, <2>7, <2>8, <2>9 DEF Psi
<1>9. CASE pc = "cf" /\ sid = "0x22" /\ CleanFrames
  <2>1. PICK k \in 1 .. VersionFrames : k = Len(frames)
    BY <1>7, <1>9
  <2>2. toEcu = <<>> /\ Rest(toGw, k) /\ k < After /\ k \in Place /\ k > 0 /\ Awaited(k) = k
    <3>1. toEcu = <<>>
      BY <1>1, <1>9, ShortQueues DEF CleanFrames
    <3>2. k \in 1 .. After /\ k < After /\ k > 0 /\ k # After /\ k \in Place
      BY Sizes DEF Place, Skip
    <3>3. Rest(toGw, k)
      BY <1>1, <1>9, <2>1, <3>2 DEF CleanFrames, Rest
    <3>4. QED
      BY <3>1, <3>2, <3>3 DEF Awaited
  <2>3. RunsNow = 0
    BY <1>1, <1>2, <1>7, <1>9, <2>2, RestRuns
  <2>4. GroupsNow = 2 * (After - k) + 0
    <3>1. InGroups(toGw, GroupEnd(<<>>, o, 0), k) = 2 * (After - k) + At(GroupEnd(<<>>, o, 0), 0)
      BY <1>3, <2>2, RestTotal
    <3>2. QED
      BY <1>2, <1>3, <1>7, <1>9, <2>1, <2>2, <3>1
  <2>5. 0 + (2 * (After - k) + 0) - 0 - 2 * (After - k) <= 0 /\ 0 + (2 * (After - k) + 0) - 0 - 2 * (After - k) <= 1
    BY Sizes
  <2>6. QED
    BY <1>7, <1>9, <2>1, <2>3, <2>4, <2>5 DEF Psi
<1>10. QED
  BY <1>4, <1>5, <1>6, <1>8, <1>9 DEF Clean

-----------------------------------------------------------------------------
(* A clean state stays clean.                                              *)

(* Where a clean client has anything in its queues.                        *)
LEMMA CleanQueues ==
    ASSUME Ordered, Typed, Clean
    PROVE  /\ toEcu # <<>> => \/ /\ pc = "wait" /\ CleanAsked /\ Head(toEcu) = toEcu[1] /\ Tail(toEcu) = <<>>
                                 /\ Head(toEcu).sid = sid /\ sid # "flow_control"
                              \/ /\ pc = "cf" /\ CleanFlow /\ sid = "0x22" /\ Head(toEcu) = toEcu[1]
                                 /\ Head(toEcu).sid = "flow_control" /\ Tail(toEcu) = <<>>
           /\ pc = "wait" /\ CleanAnswered => toEcu = <<>>
           /\ toEcu = <<>> /\ toGw = <<>> => pc \notin {"wait", "cf"}
           /\ Len(toEcu) = 0 <=> toEcu = <<>>
           /\ Len(toGw) = 0 <=> toGw = <<>>
<1>1. /\ toGw \in Queue(Frame) /\ toEcu \in Queue(Message) /\ Len(<<>>) = 0
  BY Queues DEF Typed
<1>2. (Len(toEcu) = 0 <=> toEcu = <<>>) /\ (Len(toGw) = 0 <=> toGw = <<>>)
  BY <1>1, ShortQueues
<1>3. Len(toEcu) = 1 => toEcu # <<>> /\ Head(toEcu) = toEcu[1] /\ Tail(toEcu) = <<>>
  BY <1>1, ShortQueues
<1>4. sid # "flow_control"
  BY DEF Ordered, Supplement, Sids
<1>5. pc = "wait" => CleanAsked \/ CleanAnswered
  BY DEF Clean
<1>6. pc = "cf" => sid = "0x22" /\ (CleanFlow \/ CleanFrames)
  BY DEF Clean
<1>7. CleanAsked => Len(toEcu) = 1 /\ toEcu[1].sid = sid
  BY DEF CleanAsked, OwnRequest
<1>8. CleanAnswered => Len(toEcu) = 0 /\ Len(toGw) # 0
  BY <1>1 DEF CleanAnswered
<1>9. CleanFlow => Len(toEcu) = 1 /\ toEcu[1].sid = "flow_control"
  BY DEF CleanFlow
<1>10. pc = "cf" /\ CleanFrames => Len(toEcu) = 0 /\ Len(toGw) # 0
  <2>1. SUFFICES ASSUME pc = "cf", CleanFrames PROVE Len(toEcu) = 0 /\ Len(toGw) # 0
    OBVIOUS
  <2>2. Len(frames) \in 1 .. VersionFrames
    BY <2>1, Gathering
  <2>3. Len(toGw) = After - Len(frames) /\ Len(toEcu) = 0
    BY <2>1 DEF CleanFrames
  <2>4. After - Len(frames) # 0
    BY <2>2, Sizes
  <2>5. QED
    BY <2>3, <2>4
<1>11. pc \notin {"wait", "cf"} => Len(toEcu) = 0
  BY DEF Clean
<1>12. toEcu # <<>> => \/ pc = "wait" /\ CleanAsked
                       \/ pc = "cf" /\ CleanFlow
  BY <1>2, <1>5, <1>6, <1>8, <1>10, <1>11
<1>13. toEcu = <<>> /\ toGw = <<>> => pc \notin {"wait", "cf"}
  BY <1>2, <1>3, <1>5, <1>6, <1>7, <1>8, <1>9, <1>10
<1>14. QED
  BY <1>2, <1>3, <1>4, <1>6, <1>7, <1>8, <1>9, <1>12, <1>13

(* A call begins on empty queues.                                          *)
LEMMA StartClean ==
    ASSUME Ordered, Ordered', Typed, Typed', Clean, StartDownload \/ StartReadVersion
    PROVE  Clean' /\ failures' = failures
<1>1. PICK s \in {"0x10", "0x22"} : Call(s)
  BY DEF StartDownload, StartReadVersion
<1> DEFINE r == Request(s, 0, 0, 0)
<1>2. /\ pc \in {"idle", "ok", "failed"} /\ pc' = "wait" /\ sid' = s /\ pending' = 0
      /\ toEcu' = Append(toEcu, r) /\ UNCHANGED <<toGw, ecu, failures>>
  BY <1>1 DEF Call, SendSingle, Fresh
<1>3. r.sid = s /\ r.att = att'
  BY DEF Request
<1> HIDE DEF r
<1>4. toGw = <<>> /\ toEcu = <<>> /\ Len(toGw) = 0 /\ Len(toEcu) = 0
  <2>1. Len(toGw) = 0 /\ Len(toEcu) = 0
    BY <1>2 DEF Clean
  <2>2. QED
    BY <2>1, CleanQueues
<1>5. Len(toEcu') = 1 /\ toEcu'[1] = r
  BY <1>2, <1>4
<1>6. ecu.given = 0
  BY <1>4, NoneThere DEF Ordered
<1>7. pending' + Len(toGw') <= ecu'.given /\ ecu'.given <= MaxPending
  <2>1. 0 + 0 <= 0 /\ 0 <= MaxPending
    BY Sizes
  <2>2. QED
    BY <1>2, <1>4, <1>6, <2>1
<1>8. EachPending'
  BY <1>2, <1>4 DEF EachPending
<1>9. OwnRequest(toEcu[1])'
  BY <1>2, <1>3, <1>5 DEF OwnRequest
<1>10. CleanAsked'
  BY <1>5, <1>7, <1>8, <1>9 DEF CleanAsked
<1>11. QED
  BY <1>2, <1>10 DEF Clean

(* What is left of the answers behind the first.                           *)
LEMMA TailAnswers ==
    ASSUME Typed, toGw # <<>>, toGw' = Tail(toGw)
    PROVE  /\ Len(toGw) \in Nat /\ Len(toGw) >= 1 /\ Head(toGw) = toGw[1] /\ Len(toGw') = Len(toGw) - 1
           /\ \A i \in 1 .. Len(toGw') : i + 1 \in 1 .. Len(toGw) /\ toGw'[i] = toGw[i + 1]
<1>1. /\ Len(toGw) \in Nat /\ Len(toGw) >= 1 /\ Head(toGw) = toGw[1] /\ Len(toGw') = Len(toGw) - 1
      /\ \A i \in 1 .. Len(toGw) - 1 : toGw'[i] = toGw[i + 1]
  BY Queues DEF Typed
<1>2. ASSUME NEW i \in 1 .. Len(toGw') PROVE i + 1 \in 1 .. Len(toGw) /\ toGw'[i] = toGw[i + 1]
  <2>1. i \in 1 .. Len(toGw) - 1 /\ i + 1 \in 1 .. Len(toGw)
    BY <1>1
  <2>2. QED
    BY <1>1, <2>1
<1>3. QED
  BY <1>1, <1>2

(* "pending" is waited out.                                                *)
LEMMA PendingClean ==
    ASSUME Ordered, Ordered', Typed, Typed', Clean, ReceivePending
    PROVE  Clean' /\ failures' = failures
<1>1. /\ pc = "wait" /\ toGw # <<>> /\ Head(toGw).kind = "pending" /\ toGw' = Tail(toGw)
      /\ UNCHANGED <<att, ecu>>
  BY DEF ReceivePending, Receive
<1>2. /\ Len(toGw) \in Nat /\ Len(toGw) >= 1 /\ Head(toGw) = toGw[1] /\ Len(toGw') = Len(toGw) - 1
      /\ \A i \in 1 .. Len(toGw') : i + 1 \in 1 .. Len(toGw) /\ toGw'[i] = toGw[i + 1]
  BY <1>1, TailAnswers
<1>3. pending \in Nat /\ MaxPending \in Nat /\ ecu.given \in Nat
  <2>1. pending \in Run
    BY <1>1, Waiting DEF Typed
  <2>2. ecu.given \in Nat
    BY DEF Ordered, ClientInv, Types, EcuTypes
  <2>3. QED
    BY <2>1, <2>2, Sizes DEF Run
<1>4. ASSUME pending + 1 <= MaxPending
      PROVE  /\ pending' = pending + 1 /\ UNCHANGED <<pc, sid, bsn, toEcu, failures>>
  BY <1>3, <1>4 DEF ReceivePending, transfer
<1>5. CASE CleanAsked
  <2>1. /\ Len(toEcu) = 1 /\ OwnRequest(toEcu[1]) /\ EachPending
        /\ pending + Len(toGw) <= ecu.given /\ ecu.given <= MaxPending
    BY <1>5 DEF CleanAsked
  <2>2. pending + 1 <= MaxPending
    BY <1>2, <1>3, <2>1
  <2>3. pending' = pending + 1 /\ UNCHANGED <<pc, sid, bsn, toEcu, failures>>
    BY <1>4, <2>2
  <2>4. pending' + Len(toGw') <= ecu'.given /\ ecu'.given <= MaxPending
    <3>1. (pending + 1) + (Len(toGw) - 1) <= ecu.given
      BY <1>2, <1>3, <2>1
    <3>2. QED
      BY <1>1, <1>2, <2>1, <2>3, <3>1
  <2>5. EachPending'
    BY <1>2, <2>1 DEF EachPending
  <2>6. OwnRequest(toEcu[1])'
    BY <1>1, <2>1, <2>3 DEF OwnRequest
  <2>7. CleanAsked'
    BY <2>1, <2>3, <2>4, <2>5, <2>6 DEF CleanAsked
  <2>8. QED
    BY <1>1, <2>3, <2>7 DEF Clean
<1>6. CASE CleanAnswered
  <2>1. /\ Len(toEcu) = 0 /\ Len(toGw) >= 1 /\ OwnAnswer(toGw[Len(toGw)])
        /\ \A i \in 1 .. Len(toGw) : i # Len(toGw) => toGw[i].kind = "pending"
        /\ pending + Len(toGw) - 1 <= MaxPending
    BY <1>6 DEF CleanAnswered
  <2>2. Len(toGw) # 1
    <3>1. toGw[Len(toGw)].kind # "pending"
      BY <2>1 DEF OwnAnswer
    <3>2. QED
      BY <1>1, <1>2, <3>1
  <2>3. Len(toGw) >= 2
    BY <1>2, <2>2
  <2>4. pending + 1 <= MaxPending
    BY <1>2, <1>3, <2>1, <2>3
  <2>5. pending' = pending + 1 /\ UNCHANGED <<pc, sid, bsn, toEcu, failures>>
    BY <1>4, <2>4
  <2>6. pending' + Len(toGw') - 1 <= MaxPending /\ Len(toGw') >= 1
    <3>1. (pending + 1) + (Len(toGw) - 1) - 1 <= MaxPending
      BY <1>2, <1>3, <2>1
    <3>2. QED
      BY <1>2, <2>3, <2>5, <3>1
  <2>7. toGw'[Len(toGw')] = toGw[Len(toGw)]
    <3>1. Len(toGw') \in 1 .. Len(toGw') /\ Len(toGw') + 1 = Len(toGw)
      BY <1>2, <2>3
    <3>2. QED
      BY <1>2, <3>1
  <2>8. OwnAnswer(toGw[Len(toGw)])'
    BY <1>1, <2>1, <2>5, <2>7 DEF OwnAnswer
  <2>9. \A i \in 1 .. Len(toGw') : i # Len(toGw') => toGw'[i].kind = "pending"
    <3>1. SUFFICES ASSUME NEW i \in 1 .. Len(toGw'), i # Len(toGw') PROVE toGw'[i].kind = "pending"
      OBVIOUS
    <3>2. i + 1 \in 1 .. Len(toGw) /\ i + 1 # Len(toGw) /\ toGw'[i] = toGw[i + 1]
      BY <1>2, <3>1
    <3>3. QED
      BY <2>1, <3>2
  <2>10. CleanAnswered'
    BY <2>1, <2>5, <2>6, <2>8, <2>9 DEF CleanAnswered
  <2>11. QED
    BY <1>1, <2>5, <2>10 DEF Clean
<1>7. QED
  BY <1>1, <1>5, <1>6 DEF Clean

(* The first answer, where it is not "pending", is the call's own.         *)
LEMMA OwnFirst ==
    ASSUME Ordered, Typed, Clean, pc = "wait", toGw # <<>>, Head(toGw).kind # "pending"
    PROVE  OwnAnswer(Head(toGw)) /\ Len(toGw) = 1 /\ toEcu = <<>>
<1>1. /\ Len(toGw) \in Nat /\ Len(toGw) >= 1 /\ Head(toGw) = toGw[1] /\ 1 \in 1 .. Len(toGw)
  BY FirstAnswer
<1>2. ~CleanAsked
  BY <1>1 DEF CleanAsked, EachPending
<1>3. CleanAnswered
  BY <1>2 DEF Clean
<1>4. Len(toGw) = 1
  BY <1>1, <1>3 DEF CleanAnswered
<1>5. QED
  BY <1>1, <1>3, <1>4, CleanQueues DEF CleanAnswered

(* So no answer makes a clean client fail.                                 *)
LEMMA OwnClean ==
    ASSUME Ordered, Ordered', Typed, Typed', Clean,
           \/ ReceiveNegative \/ ReceiveUnexpected \/ ReceiveSession \/ ReceiveDownload
           \/ ReceiveTransfer \/ ReceiveExit \/ ReceiveFirst \/ ReceiveStray
    PROVE  Clean' /\ failures' = failures
<1>1. /\ pc = "wait" /\ toGw # <<>> /\ Head(toGw).kind # "pending" /\ toGw' = Tail(toGw)
      /\ UNCHANGED <<att, ecu>>
  BY DEF ReceiveNegative, ReceiveUnexpected, ReceiveSession, ReceiveDownload,
         ReceiveTransfer, ReceiveExit, ReceiveFirst, ReceiveStray, ReceivePositive, Receive
<1>2. OwnAnswer(Head(toGw)) /\ Len(toGw) = 1 /\ toEcu = <<>>
  BY <1>1, OwnFirst
<1>3. Len(toGw') = 0
  <2>1. Len(toGw') = 1 - 1
    BY <1>1, <1>2, TailAnswers
  <2>2. QED
    BY <2>1
<1>4. /\ sid = "0x22" => Head(toGw).kind = "first" /\ ecu.owes
      /\ sid # "0x22" => Head(toGw).kind = "positive" /\ Head(toGw).sid = sid /\ (sid = "0x36" => Head(toGw).bsn = bsn)
  BY <1>2 DEF OwnAnswer
<1>5. ~ReceiveNegative /\ ~ReceiveStray
  BY <1>4 DEF ReceiveNegative, ReceiveStray, Receive
<1>6. ~ReceiveUnexpected
  BY <1>4 DEF ReceiveUnexpected, Receive
<1>7. CASE ReceiveSession
  <2>1. pc' = "fc" /\ toEcu' = toEcu /\ failures' = failures
    BY <1>7 DEF ReceiveSession, AwaitFlowControl
  <2>2. Len(toEcu') = 0
    BY <1>2, <2>1
  <2>3. QED
    BY <1>3, <2>1, <2>2 DEF Clean
<1>8. CASE ReceiveDownload
  BY <1>8, AskingOrderly DEF Ordered
<1>9. CASE ReceiveTransfer
  <2>1. sid = "0x36"
    BY <1>9 DEF ReceiveTransfer, ReceivePositive
  <2>2. Head(toGw).bsn = bsn
    BY <1>4, <2>1
  <2>3. QED
    BY <1>9, <2>2, AskingOrderly DEF Ordered
<1>10. CASE ReceiveExit
  <2>1. pc' = "ok" /\ toEcu' = toEcu /\ failures' = failures
    BY <1>10 DEF ReceiveExit
  <2>2. Len(toEcu') = 0
    BY <1>2, <2>1
  <2>3. QED
    BY <1>3, <2>1, <2>2 DEF Clean
<1>11. CASE ReceiveFirst
  <2> DEFINE r == Request("flow_control", 0, 0, 0)
  <2>1. /\ frames' = <<Part(Head(toGw))>> /\ toEcu' = Append(toEcu, r) /\ pc' = "cf"
        /\ UNCHANGED <<sid, failures>> /\ Head(toGw).kind = "first"
    BY <1>11 DEF ReceiveFirst, Receive
  <2>2. Len(frames') = 1 /\ r.sid = "flow_control"
    BY <2>1 DEF Request
  <2> HIDE DEF r
  <2>3. sid = "0x22" /\ ecu.owes
    BY <1>4, <2>1
  <2>4. Len(toEcu') = 1 /\ toEcu'[1] = r
    BY <1>2, <2>1
  <2>5. CleanFlow'
    BY <1>1, <1>3, <2>2, <2>3, <2>4 DEF CleanFlow
  <2>6. QED
    BY <2>1, <2>3, <2>5 DEF Clean
<1>12. QED
  BY <1>5, <1>6, <1>7, <1>8, <1>9, <1>10, <1>11

(* The frames of the version are the ones that are waited for.             *)
LEMMA CollectClean ==
    ASSUME Ordered, Ordered', Typed, Typed', Clean, CollectOther \/ CollectConsecutive
    PROVE  Clean' /\ failures' = failures
<1>1. pc = "cf" /\ toGw # <<>> /\ toGw' = Tail(toGw) /\ UNCHANGED <<att, ecu>>
  BY DEF CollectOther, CollectConsecutive, Collect
<1>2. /\ Len(toGw) \in Nat /\ Len(toGw) >= 1 /\ Head(toGw) = toGw[1] /\ Len(toGw') = Len(toGw) - 1
      /\ \A i \in 1 .. Len(toGw') : i + 1 \in 1 .. Len(toGw) /\ toGw'[i] = toGw[i + 1]
  BY <1>1, TailAnswers
<1>3. sid = "0x22" /\ CleanFrames
  <2>1. Len(toGw) # 0
    BY <1>2
  <2>2. QED
    BY <1>1, <2>1 DEF Clean, CleanFlow
<1>4. PICK k \in 1 .. VersionFrames : k = Len(frames)
  BY <1>1, Gathering
<1>5. /\ Len(toEcu) = 0 /\ Len(toGw) = After - k
      /\ \A i \in 1 .. Len(toGw) : toGw[i].kind = "consecutive" /\ toGw[i].sn = k + i - 1
  BY <1>3, <1>4 DEF CleanFrames
<1>6. Head(toGw).kind = "consecutive" /\ Head(toGw).sn = Len(frames)
  <2>1. 1 \in 1 .. Len(toGw) /\ k + 1 - 1 = k
    BY <1>2, <1>4
  <2>2. QED
    BY <1>2, <1>4, <1>5, <2>1
<1>7. CollectConsecutive
  BY <1>6 DEF CollectOther
<1>8. toEcu' = toEcu /\ failures' = failures /\ sid' = sid /\ frames' = Append(frames, Part(Head(toGw)))
      /\ (k < VersionFrames => pc' = pc) /\ (~(k < VersionFrames) => pc' = "ok")
  BY <1>3, <1>4, <1>6, <1>7 DEF CollectConsecutive
<1>9. CASE k < VersionFrames
  <2>1. Len(frames') = k + 1
    <3>1. frames \in Seq(VersionPart)
      BY <1>1, Gathering
    <3>2. Part(Head(toGw)) \in VersionPart \union {Part(Head(toGw))} /\ frames \in Seq(VersionPart \union {Part(Head(toGw))})
      BY <3>1
    <3>3. Len(Append(frames, Part(Head(toGw)))) = Len(frames) + 1
      BY <3>2, AppendProperties
    <3>4. QED
      BY <1>4, <1>8, <3>3
  <2>2. Len(toGw') = After - (k + 1)
    BY <1>2, <1>4, <1>5, Sizes
  <2>3. \A i \in 1 .. Len(toGw') : toGw'[i].kind = "consecutive" /\ toGw'[i].sn = (k + 1) + i - 1
    <3>1. SUFFICES ASSUME NEW i \in 1 .. Len(toGw')
                   PROVE  toGw'[i].kind = "consecutive" /\ toGw'[i].sn = (k + 1) + i - 1
      OBVIOUS
    <3>2. i + 1 \in 1 .. Len(toGw) /\ toGw'[i] = toGw[i + 1]
      BY <1>2
    <3>3. toGw[i + 1].kind = "consecutive" /\ toGw[i + 1].sn = k + (i + 1) - 1
      BY <1>5, <3>2
    <3>4. k + (i + 1) - 1 = (k + 1) + i - 1
      BY <1>2, <1>4
    <3>5. QED
      BY <3>2, <3>3, <3>4
  <2>4. CleanFrames'
    BY <1>5, <1>8, <2>1, <2>2, <2>3 DEF CleanFrames
  <2>5. QED
    BY <1>1, <1>3, <1>8, <1>9, <2>4 DEF Clean
<1>10. CASE ~(k < VersionFrames)
  <2>1. Len(toGw') = 0
    BY <1>2, <1>4, <1>5, <1>10, Sizes
  <2>2. Len(toEcu') = 0 /\ pc' = "ok"
    BY <1>5, <1>8, <1>10
  <2>3. QED
    BY <1>8, <2>1, <2>2 DEF Clean
<1>11. QED
  BY <1>9, <1>10

-----------------------------------------------------------------------------
(* A step that is no fault.                                                *)

(* One answer more.                                                        *)
LEMMA LastAnswer ==
    ASSUME Typed, NEW m \in Frame, toGw' = Append(toGw, m)
    PROVE  /\ Len(toGw) \in Nat /\ Len(toGw') = Len(toGw) + 1 /\ toGw'[Len(toGw')] = m
           /\ \A i \in 1 .. Len(toGw') : i # Len(toGw') => i \in 1 .. Len(toGw) /\ toGw'[i] = toGw[i]
<1>1. toGw \in Seq(Frame) /\ Len(toGw) \in Nat
  BY Queues DEF Typed
<1>2. /\ Len(toGw') = Len(toGw) + 1 /\ toGw'[Len(toGw) + 1] = m
      /\ \A i \in 1 .. Len(toGw) : toGw'[i] = toGw[i]
  BY <1>1, AppendProperties
<1>3. \A i \in 1 .. Len(toGw') : i # Len(toGw') => i \in 1 .. Len(toGw)
  BY <1>1, <1>2
<1>4. QED
  BY <1>1, <1>2, <1>3

(* The ECU answers what the call has asked.                                *)
LEMMA AnsweredClean ==
    ASSUME Ordered, Typed, Clean, NEW m, Answers(m), toEcu' \in {<<>>, Tail(toEcu)},
           Head(toEcu).sid # "flow_control",
           IF Head(toEcu).sid = "0x22" THEN m.kind = "first"
           ELSE m.kind = "positive" /\ m.sid = Head(toEcu).sid /\ m.att = Head(toEcu).att /\ m.bsn = Head(toEcu).bsn
    PROVE  Clean' /\ failures' = failures
<1>1. /\ toEcu # <<>> /\ m \in Frame /\ toGw' = Append(toGw, m) /\ UNCHANGED client
      /\ ecu'.owes = (m.kind = "first")
  BY DEF Answers
<1>2. /\ pc = "wait" /\ CleanAsked /\ Head(toEcu) = toEcu[1] /\ Tail(toEcu) = <<>> /\ Head(toEcu).sid = sid
  BY <1>1, CleanQueues
<1>3. /\ OwnRequest(toEcu[1]) /\ EachPending
      /\ pending + Len(toGw) <= ecu.given /\ ecu.given <= MaxPending
  BY <1>2 DEF CleanAsked
<1>4. UNCHANGED <<pc, sid, att, bsn, pending, failures>>
  BY <1>1, ClientStays
<1>5. Len(toEcu') = 0
  <2>1. toEcu' = <<>> /\ Len(<<>>) = 0
    BY <1>2, Queues
  <2>2. QED
    BY <2>1
<1>6. /\ Len(toGw) \in Nat /\ Len(toGw') = Len(toGw) + 1 /\ toGw'[Len(toGw')] = m
      /\ \A i \in 1 .. Len(toGw') : i # Len(toGw') => i \in 1 .. Len(toGw) /\ toGw'[i] = toGw[i]
  BY <1>1, LastAnswer
<1>7. OwnAnswer(toGw[Len(toGw)])'
  <2>1. CASE sid = "0x22"
    <3>1. m.kind = "first"
      BY <1>2, <2>1
    <3>2. QED
      BY <1>1, <1>4, <1>6, <2>1, <3>1 DEF OwnAnswer
  <2>2. CASE sid # "0x22"
    <3>1. m.kind = "positive" /\ m.sid = sid /\ m.att = att /\ (sid = "0x36" => m.bsn = bsn)
      BY <1>2, <1>3, <2>2 DEF OwnRequest
    <3>2. QED
      BY <1>4, <1>6, <2>2, <3>1 DEF OwnAnswer
  <2>3. QED
    BY <2>1, <2>2
<1>8. \A i \in 1 .. Len(toGw') : i # Len(toGw') => toGw'[i].kind = "pending"
  BY <1>3, <1>6 DEF EachPending
<1>9. Len(toGw') >= 1 /\ pending' + Len(toGw') - 1 <= MaxPending
  <2>1. pending \in Nat /\ MaxPending \in Nat /\ ecu.given \in Nat
    <3>1. pending \in Run
      BY <1>2, Waiting DEF Typed
    <3>2. ecu.given \in Nat
      BY DEF Ordered, ClientInv, Types, EcuTypes
    <3>3. QED
      BY <3>1, <3>2, Sizes DEF Run
  <2>2. pending + (Len(toGw) + 1) - 1 <= MaxPending /\ Len(toGw) + 1 >= 1
    BY <1>3, <1>6, <2>1
  <2>3. QED
    BY <1>4, <1>6, <2>2
<1>10. CleanAnswered'
  BY <1>5, <1>7, <1>8, <1>9 DEF CleanAnswered
<1>11. QED
  BY <1>2, <1>4, <1>10 DEF Clean

(* A positive answer, the beginning of a version, its frames.              *)
LEMMA EcuClean ==
    ASSUME Ordered, Typed, Clean,
           \/ EcuSession \/ EcuRequestDownload \/ EcuTransferData \/ EcuTransferExit
           \/ EcuReadVersion \/ EcuFlowControlled
    PROVE  Clean' /\ failures' = failures
<1>1. CASE EcuSession \/ EcuRequestDownload \/ EcuTransferData \/ EcuTransferExit
  <2>1. PICK m \in Frame : Answers(m) /\ PositiveAnswer(m)
    BY <1>1, EcuAnswersWell DEF Ordered
  <2>2. toEcu' \in {<<>>, Tail(toEcu)} /\ Head(toEcu).sid \in {"0x10", "0x34", "0x36", "0x37"}
    BY <1>1, EcuAnswersWell DEF Ordered
  <2>3. m.kind = "positive" /\ m.sid = Head(toEcu).sid /\ m.att = Head(toEcu).att /\ m.bsn = Head(toEcu).bsn
    BY <2>1 DEF PositiveAnswer
  <2>4. QED
    BY <2>1, <2>2, <2>3, AnsweredClean
<1>2. CASE EcuReadVersion
  <2>1. PICK m \in Frame : Answers(m) /\ m.kind = "first"
    BY <1>2, EcuReadsWell DEF Ordered
  <2>2. toEcu' = Tail(toEcu) /\ Head(toEcu).sid = "0x22"
    BY <1>2, EcuReadsWell DEF Ordered
  <2>3. QED
    BY <2>1, <2>2, AnsweredClean
<1>3. CASE EcuFlowControlled
  <2>1. /\ toEcu # <<>> /\ toEcu' = Tail(toEcu) /\ Head(toEcu).sid = "flow_control" /\ UNCHANGED client
        /\ ecu.owes => \E x : Rest(x, 1) /\ toGw' = toGw \o x
    BY <1>3, EcuFlowsWell DEF Ordered
  <2>2. pc = "cf" /\ CleanFlow /\ sid = "0x22" /\ Tail(toEcu) = <<>>
    BY <2>1, CleanQueues
  <2>3. Len(toGw) = 0 /\ ecu.owes /\ Len(frames) = 1
    BY <2>2 DEF CleanFlow
  <2>4. PICK x : Rest(x, 1) /\ toGw' = toGw \o x
    BY <2>1, <2>3
  <2>5. toGw' = x
    <3>1. toGw = <<>> /\ x \in Queue(Frame)
      BY <2>3, <2>4, CleanQueues DEF Rest
    <3>2. QED
      BY <2>4, <3>1, Queues
  <2>6. UNCHANGED <<pc, sid, frames, failures>>
    BY <2>1, ClientStays
  <2>7. Len(toEcu') = 0
    <3>1. toEcu' = <<>> /\ Len(<<>>) = 0
      BY <2>1, <2>2, Queues
    <3>2. QED
      BY <3>1
  <2>8. CleanFrames'
    <3>1. Len(x) = After - 1 /\ \A i \in 1 .. Len(x) : x[i].kind = "consecutive" /\ x[i].sn = 1 + i - 1
      BY <2>4 DEF Rest
    <3>2. QED
      BY <2>3, <2>5, <2>6, <2>7, <3>1 DEF CleanFrames
  <2>9. QED
    BY <2>2, <2>6, <2>8 DEF Clean
<1>4. QED
  BY <1>1, <1>2, <1>3

(* A "pending" answer that is not one too many.                            *)
LEMMA KeepAliveClean ==
    ASSUME Ordered, Typed, Clean, EcuKeepAlive, ecu.given < MaxPending
    PROVE  Clean' /\ failures' = failures
<1>1. /\ toEcu # <<>> /\ Head(toEcu).sid # "flow_control" /\ UNCHANGED <<client, toEcu>>
      /\ ecu'.given = ecu.given + 1
      /\ \E m \in Frame : toGw' = Append(toGw, m) /\ m.kind = "pending"
  BY KeepsAliveWell DEF Ordered
<1>2. PICK m \in Frame : toGw' = Append(toGw, m) /\ m.kind = "pending"
  BY <1>1
<1>3. pc = "wait" /\ CleanAsked
  BY <1>1, CleanQueues
<1>4. /\ Len(toEcu) = 1 /\ OwnRequest(toEcu[1]) /\ EachPending
      /\ pending + Len(toGw) <= ecu.given /\ ecu.given <= MaxPending
  BY <1>3 DEF CleanAsked
<1>5. UNCHANGED <<pc, sid, att, bsn, pending, failures>>
  BY <1>1, ClientStays
<1>6. /\ Len(toGw) \in Nat /\ Len(toGw') = Len(toGw) + 1 /\ toGw'[Len(toGw')] = m
      /\ \A i \in 1 .. Len(toGw') : i # Len(toGw') => i \in 1 .. Len(toGw) /\ toGw'[i] = toGw[i]
  BY <1>2, LastAnswer
<1>7. EachPending'
  BY <1>2, <1>4, <1>6 DEF EachPending
<1>8. pending' + Len(toGw') <= ecu'.given /\ ecu'.given <= MaxPending
  <2>1. pending \in Nat /\ MaxPending \in Nat /\ ecu.given \in Nat
    <3>1. pending \in Run
      BY <1>3, Waiting DEF Typed
    <3>2. ecu.given \in Nat
      BY DEF Ordered, ClientInv, Types, EcuTypes
    <3>3. QED
      BY <3>1, <3>2, Sizes DEF Run
  <2>2. pending + (Len(toGw) + 1) <= ecu.given + 1 /\ ecu.given + 1 <= MaxPending
    BY <1>4, <1>6, <2>1
  <2>3. QED
    BY <1>1, <1>5, <1>6, <2>2
<1>9. OwnRequest(toEcu[1])'
  BY <1>1, <1>4, <1>5 DEF OwnRequest
<1>10. CleanAsked'
  BY <1>1, <1>4, <1>7, <1>8, <1>9 DEF CleanAsked
<1>11. QED
  BY <1>3, <1>5, <1>10 DEF Clean

(* Waiting leaves a state clean.                                           *)
LEMMA LingerClean ==
    ASSUME Clean, UNCHANGED <<pc, sid, att, bsn, pending, frames, failures, toEcu, toGw, ecu>>
    PROVE  Clean' /\ failures' = failures
<1>1. Clean' = Clean
  BY DEF Clean, CleanAsked, CleanAnswered, CleanFlow, CleanFrames, OwnRequest, OwnAnswer, EachPending
<1>2. QED
  BY <1>1

-----------------------------------------------------------------------------
(* The steps that are no fault: what can still fail does not grow, and the *)
(* call under way fails only when nothing is left that could make another  *)
(* one fail; a clean state stays clean, and no call fails.                 *)
LEMMA QuietSteps ==
    ASSUME Ordered, Ordered', Typed, Typed', [Next]_vars, faults' = faults, faults \in Nat
    PROVE  /\ Rises(0) \/ (Clean' /\ failures' <= failures + 1)
           /\ Clean => Clean' /\ failures' = failures
<1> DEFINE Goal == /\ Rises(0) \/ (Clean' /\ failures' <= failures + 1)
                   /\ Clean => Clean' /\ failures' = failures
<1>1. ~Fault
  <2>1. SUFFICES ASSUME Fault PROVE FALSE
    OBVIOUS
  <2>2. faults' = faults + 1
    BY <2>1 DEF Fault
  <2>3. QED
    BY <2>2
<1>2. failures \in Nat
  BY DEF Typed
<1>3. ASSUME Clean', failures' = failures PROVE Goal
  BY <1>2, <1>3
<1> HIDE DEF Goal
<1>4. ASSUME Rises(0), Clean => Clean' /\ failures' = failures PROVE Goal
  BY <1>4 DEF Goal
<1>5. CASE StartDownload \/ StartReadVersion
  BY <1>4, <1>5, StartFalls, StartClean
<1>6. CASE FlowControl \/ ReceiveDownload \/ (ReceiveTransfer /\ Head(toGw).bsn = bsn)
  <2>1. Clean' /\ failures' = failures
    BY <1>6, AskingOrderly DEF Ordered
  <2>2. QED
    BY <1>3, <2>1 DEF Goal
<1>7. CASE ReceivePending
  BY <1>4, <1>7, PendingFalls, PendingClean
<1>8. CASE ReceiveNegative \/ ReceiveUnexpected \/ ReceiveStray \/ (ReceiveTransfer /\ Head(toGw).bsn # bsn)
  BY <1>4, <1>8, WrongFalls, OwnClean
<1>9. CASE ReceiveSession \/ ReceiveExit
  BY <1>4, <1>9, SettledFalls, OwnClean
<1>10. CASE ReceiveFirst
  BY <1>4, <1>10, FirstFalls, OwnClean
<1>11. CASE CollectOther
  BY <1>4, <1>11, SkippedFalls, CollectClean
<1>12. CASE CollectConsecutive
  BY <1>4, <1>12, CollectedFalls, CollectClean
<1>13. CASE Tick \/ ReceiveForeign \/ UNCHANGED vars
  <2>1. UNCHANGED <<pc, sid, att, bsn, pending, frames, failures, toEcu, toGw, ecu>>
    BY <1>13 DEF Tick, ReceiveForeign, vars, client, transfer, clock
  <2>2. QED
    BY <1>4, <2>1, LingerStays, LingerClean
<1>14. CASE ReceiveTimeout
  <2>1. pc \in {"wait", "cf"} /\ toGw = <<>> /\ toEcu = <<>> /\ Fail /\ UNCHANGED toGw
    BY <1>1, <1>14 DEF ReceiveTimeout
  <2>2. pc' = "failed" /\ failures' = failures + 1 /\ UNCHANGED toEcu
    BY <2>1 DEF Fail
  <2>3. Len(toGw') = 0 /\ Len(toEcu') = 0
    BY <2>1, <2>2
  <2>4. Clean'
    BY <2>2, <2>3 DEF Clean
  <2>5. ~Clean
    BY <2>1, CleanQueues
  <2>6. failures' <= failures + 1
    BY <1>2, <2>2
  <2>7. QED
    BY <2>4, <2>5, <2>6 DEF Goal
<1>15. CASE FlowControlTimeout \/ LoseAnswer \/ LoseRequest
  BY <1>1, <1>15 DEF FlowControlTimeout, LoseAnswer, LoseRequest
<1>16. CASE EcuSession \/ EcuRequestDownload \/ EcuTransferData \/ EcuTransferExit
  BY <1>4, <1>16, PositiveFalls, EcuClean
<1>17. CASE EcuReadVersion
  BY <1>4, <1>17, VersionFalls, EcuClean
<1>18. CASE EcuFlowControlled
  BY <1>4, <1>18, FlowFalls, EcuClean
<1>19. CASE EcuRefuse
  BY <1>1, <1>19, RefusalIsFault DEF Ordered
<1>20. CASE EcuKeepAlive
  <2>1. ecu.given < MaxPending
    BY <1>1, <1>20, KeepsAliveWell DEF Ordered
  <2>2. QED
    BY <1>4, <1>20, <2>1, KeepAliveRises, KeepAliveClean
<1>21. CASE Gateway
  BY <1>6, <1>7, <1>8, <1>9, <1>10, <1>11, <1>12, <1>13, <1>14, <1>21 DEF Gateway
<1>22. CASE Ecu
  BY <1>16, <1>17, <1>18, <1>19, <1>22 DEF Ecu
<1>23. CASE Network
  BY <1>13, <1>15, <1>20, <1>23 DEF Network
<1>24. QED
  BY <1>5, <1>13, <1>21, <1>22, <1>23 DEF Next

-----------------------------------------------------------------------------
(* Faults, and the bound.                                                  *)

(* From a clean state a fault costs less.                                  *)
LEMMA CleanPays ==
    ASSUME Ordered, Typed, Typed', Clean, NEW d \in Int, Rises(d), d <= Group \/ (pc = "cf" /\ d <= Group + 1)
    PROVE  failures' + Psi' <= failures + (Group + 1)
<1>1. Psi <= 1 /\ (pc = "cf" => Psi <= 0) /\ Psi \in Nat
  BY CleanSmall, PsiNat
<1>2. PICK x, y \in Nat : x = failures /\ y = Psi
  BY <1>1 DEF Typed
<1>3. y + d <= Group + 1
  <2>1. Group \in Nat
    BY Sizes
  <2>2. CASE pc = "cf"
    <3>1. y = 0
      BY <1>1, <1>2, <2>2
    <3>2. d <= Group + 1
      BY <2>1
    <3>3. QED
      BY <2>1, <3>1, <3>2
  <2>3. CASE pc # "cf"
    <3>1. d <= Group /\ y <= 1
      BY <1>1, <1>2, <2>3
    <3>2. QED
      BY <2>1, <3>1
  <2>4. QED
    BY <2>2, <2>3
<1>4. x + y + d <= x + (Group + 1)
  BY <1>3, Sizes
<1>5. failures' + Psi' <= x + y + d
  BY <1>2 DEF Rises
<1>6. PICK z \in Int : z = failures' + Psi'
  BY DEF Typed, Psi
<1>7. z <= x + (Group + 1)
  BY <1>3, <1>5, <1>6, Sizes
<1>8. QED
  BY <1>2, <1>6, <1>7

(* The one request of a clean client is lost: what is left ahead of it are *)
(* "pending" answers.                                                      *)
LEMMA AskedLost ==
    ASSUME Ordered, Typed, Typed', pc = "wait", CleanAsked, LoseRequest
    PROVE  failures' + Psi' <= failures + (Group + 1)
<1> DEFINE o == N(ecu.owes)
<1>1. /\ UNCHANGED <<client, toGw>> /\ ecu'.given = 0 /\ ecu'.owes = ecu.owes
      /\ \E i \in 1 .. Len(toEcu) : toEcu' = RemoveAt(toEcu, i)
  BY LossWell DEF Ordered
<1>2. /\ Len(toEcu) = 1 /\ EachPending /\ pending + Len(toGw) <= ecu.given /\ ecu.given <= MaxPending
  BY DEF CleanAsked
<1>3. /\ toGw \in Queue(Frame) /\ toEcu \in Queue(Message) /\ toEcu' \in Queue(Message)
      /\ o \in 0 .. 1 /\ Given \in Run /\ Given' \in Run /\ StartRun \in Run
      /\ failures \in Nat /\ RunsNow' \in Nat /\ GroupsNow' \in Nat /\ N(OwnAhead') \in Nat
  BY DEF Typed
<1>4. StartPlace = 0 /\ StartRun = pending /\ Collected = 0
  BY Waiting
<1>5. StartPlace' = 0 /\ StartRun' = pending /\ Collected' = 0 /\ failures' = failures /\ N(ecu.owes') = o
  BY <1>1, <1>4, ClientStays
<1>6. toEcu' = <<>>
  <2>1. PICK i \in 1 .. Len(toEcu) : toEcu' = RemoveAt(toEcu, i)
    BY <1>1
  <2>2. i = 1 /\ toEcu \in Seq(Message)
    BY <1>2, <1>3, <2>1, Queues
  <2>3. RemoveAt(toEcu, i) = Tail(toEcu)
    BY <2>2, RemovedHead
  <2>4. QED
    BY <1>2, <1>3, <2>1, <2>3, ShortQueues
<1>7. FlowDue' = 0
  <2>1. \A i \in 1 .. Len(toGw') : toGw'[i].kind # "first"
    BY <1>1, <1>2 DEF EachPending
  <2>2. \A i \in 1 .. Len(toEcu') : FALSE
    BY <1>6, Queues
  <2>3. ~FirstAhead'
    BY <2>1, <2>2 DEF FirstAhead
  <2>4. QED
    BY <2>3 DEF FlowDue
<1>8. /\ GroupEnd(<<>>, o, 0) \in Prices(Groups) /\ 0 \in Place /\ At(GroupEnd(<<>>, o, 0), 0) = 0
  BY <1>3, EmptyEnd
<1>9. Waits(toGw, StartRun, Given)
  <2>1. Given = ecu.given
    <3>1. ecu.given \in Nat
      BY DEF Ordered, ClientInv, Types, EcuTypes
    <3>2. QED
      BY <1>2, <3>1, Sizes DEF Given, Min2
  <2>2. QED
    BY <1>2, <1>3, <1>4, <2>1 DEF Waits, EachPending
<1>10. InRuns(toGw, Given, StartRun) = 0 /\ InGroups(toGw, GroupEnd(<<>>, o, 0), 0) = 0
  BY <1>3, <1>8, <1>9, WaitsTotal
<1>11. RunsNow' <= 0 + 2
  <2>1. StartRun <= StartRun
    BY <1>3, Sizes DEF Run
  <2>2. InRuns(toGw, Given', StartRun) <= InRuns(toGw, Given, StartRun) + 2
    BY <1>3, <2>1, RunsEnd
  <2>3. RunsNow' = InRuns(toGw, Given', StartRun)
    BY <1>1, <1>4, <1>5 DEF RunsNow
  <2>4. QED
    BY <1>10, <2>2, <2>3
<1>12. GroupsNow' = 0
  BY <1>1, <1>5, <1>6, <1>7, <1>10 DEF GroupsNow
<1>13. PICK r, p, l \in Nat : r = RunsNow' /\ p = N(OwnAhead') /\ l = failures
  BY <1>3
<1>14. l + (r + 0 - p - 0) <= l + (Group + 1)
  BY <1>11, <1>13, Sizes
<1>15. QED
  BY <1>5, <1>12, <1>13, <1>14 DEF Psi

-----------------------------------------------------------------------------
(* The steps that are faults, if they count as one.                        *)
Faulty == FlowControlTimeout \/ ReceiveTimeout \/ EcuKeepAlive \/ EcuRefuse \/ LoseAnswer \/ LoseRequest

(* A fault makes at most Group + 2 more calls fail, and from a clean state *)
(* one less.                                                               *)
LEMMA FaultySteps ==
    ASSUME Ordered, Typed, Typed', Faulty
    PROVE  Rises(Group + 2) /\ (Clean => failures' + Psi' <= failures + (Group + 1))
<1>1. /\ 2 \in Int /\ Group \in Int /\ Group + 1 \in Int /\ Group + 2 \in Int
      /\ 2 <= Group /\ Group <= Group /\ 2 <= Group + 2 /\ Group <= Group + 2
      /\ Group + 1 <= Group + 1 /\ Group + 1 <= Group + 2 /\ 2 <= Group + 1
  BY Sizes
<1>2. ASSUME Rises(2)
      PROVE  Rises(Group + 2) /\ (Clean => failures' + Psi' <= failures + (Group + 1))
  BY <1>1, <1>2, RisesMore, CleanPays
<1>3. CASE FlowControlTimeout
  <2>1. pc = "fc" /\ Fail /\ UNCHANGED <<toGw, ecu, att>>
    BY <1>3 DEF FlowControlTimeout
  <2>2. Rises(2)
    BY <2>1, StopRises
  <2>3. QED
    BY <1>2, <2>2
<1>4. CASE ReceiveTimeout
  <2>1. pc \in {"wait", "cf"} /\ Fail /\ UNCHANGED <<toGw, ecu, att>>
    BY <1>4 DEF ReceiveTimeout
  <2>2. CASE pc = "wait"
    <3>1. Rises(2)
      BY <2>1, <2>2, StopRises
    <3>2. QED
      BY <1>2, <3>1
  <2>3. CASE pc = "cf" /\ sid = "0x22"
    <3>1. Rises(Group + 1)
      BY <2>1, <2>3, StopRises
    <3>2. Rises(Group + 2)
      BY <1>1, <3>1, RisesMore
    <3>3. Clean => failures' + Psi' <= failures + (Group + 1)
      BY <1>1, <2>3, <3>1, CleanPays
    <3>4. QED
      BY <3>2, <3>3
  <2>4. CASE pc = "cf" /\ sid # "0x22"
    <3>1. Rises(Group + 2)
      BY <2>1, <2>4, StopRises
    <3>2. ~Clean
      BY <2>4 DEF Clean
    <3>3. QED
      BY <3>1, <3>2
  <2>5. QED
    BY <2>1, <2>2, <2>3, <2>4
<1>5. CASE EcuKeepAlive
  <2>1. Rises(2)
    BY <1>5, KeepAliveRises
  <2>2. QED
    BY <1>2, <2>1
<1>6. CASE EcuRefuse
  <2>1. Rises(2)
    BY <1>6, RefuseRises
  <2>2. QED
    BY <1>2, <2>1
<1>7. CASE LoseAnswer
  <2>1. Rises(Group)
    BY <1>7, AnswerLossRises
  <2>2. Rises(Group + 2)
    BY <1>1, <2>1, RisesMore
  <2>3. Clean => failures' + Psi' <= failures + (Group + 1)
    BY <1>1, <2>1, CleanPays
  <2>4. QED
    BY <2>2, <2>3
<1>8. CASE LoseRequest
  <2>1. Rises(Group + 2)
    BY <1>8, RequestLossRises
  <2>2. ASSUME Clean PROVE failures' + Psi' <= failures + (Group + 1)
    <3>1. toEcu # <<>>
      <4>1. PICK i \in 1 .. Len(toEcu) : TRUE
        BY <1>8, LossWell DEF Ordered
      <4>2. 1 .. Len(<<>>) = {}
        BY Queues
      <4>3. QED
        BY <4>1, <4>2
    <3>2. CASE pc = "wait" /\ CleanAsked
      BY <1>8, <3>2, AskedLost
    <3>3. CASE CleanFlow
      <4>1. \A i \in 1 .. Len(toEcu) : ~Plain(toEcu[i])
        <5>1. Len(toEcu) = 1 /\ toEcu[1].sid = "flow_control"
          BY <3>3 DEF CleanFlow
        <5>2. \A i \in 1 .. Len(toEcu) : i = 1
          BY <5>1
        <5>3. QED
          BY <5>1, <5>2 DEF Plain
      <4>2. Rises(2)
        BY <1>8, <4>1, RequestLossRises
      <4>3. QED
        BY <1>2, <2>2, <4>2
    <3>4. QED
      BY <2>2, <3>1, <3>2, <3>3, CleanQueues
  <2>3. QED
    BY <2>1, <2>2
<1>9. QED
  BY <1>3, <1>4, <1>5, <1>6, <1>7, <1>8 DEF Faulty

(* A step is one of these and counts as a fault, or is none.               *)
LEMMA FaultsCount ==
    ASSUME Ordered, [Next]_vars
    PROVE  faults' = faults \/ (faults' = faults + 1 /\ Faulty)
<1>1. CASE StartDownload \/ StartReadVersion
  BY <1>1 DEF StartDownload, StartReadVersion, Call
<1>2. CASE Gateway
  <2>1. CASE ReceiveTimeout
    BY <2>1 DEF ReceiveTimeout, Fault, Faulty
  <2>2. CASE FlowControl \/ ReceivePending \/ ReceiveNegative \/ ReceiveUnexpected \/ ReceiveStray \/ ReceiveFirst
    BY <2>2 DEF FlowControl, ReceivePending, ReceiveNegative, ReceiveUnexpected, ReceiveStray, ReceiveFirst, Receive
  <2>3. CASE ReceiveSession \/ ReceiveDownload \/ ReceiveTransfer \/ ReceiveExit
    BY <2>3 DEF ReceiveSession, ReceiveDownload, ReceiveTransfer, ReceiveExit, ReceivePositive, Receive
  <2>4. CASE CollectOther \/ CollectConsecutive \/ Tick
    BY <2>4 DEF CollectOther, CollectConsecutive, Collect, Tick
  <2>5. QED
    BY <1>2, <2>1, <2>2, <2>3, <2>4 DEF Gateway
<1>3. CASE Ecu
  <2>1. CASE EcuRefuse
    BY <2>1, RefusalIsFault DEF Ordered, Fault, Faulty
  <2>2. CASE EcuSession \/ EcuRequestDownload \/ EcuTransferData \/ EcuTransferExit
    BY <2>2, EcuAnswersWell DEF Ordered, PositiveAnswer
  <2>3. CASE EcuReadVersion
    BY <2>3, EcuReadsWell DEF Ordered
  <2>4. CASE EcuFlowControlled
    BY <2>4, EcuFlowsWell DEF Ordered
  <2>5. QED
    BY <1>3, <2>1, <2>2, <2>3, <2>4 DEF Ecu
<1>4. CASE Network
  <2>1. CASE FlowControlTimeout \/ LoseAnswer \/ LoseRequest
    BY <2>1 DEF FlowControlTimeout, LoseAnswer, LoseRequest, Fault, Faulty
  <2>2. CASE EcuKeepAlive
    BY <2>2, KeepsAliveWell DEF Ordered, Fault, Faulty
  <2>3. CASE ReceiveForeign
    BY <2>3 DEF ReceiveForeign
  <2>4. QED
    BY <1>4, <2>1, <2>2, <2>3 DEF Network
<1>5. CASE UNCHANGED vars
  BY <1>5 DEF vars
<1>6. QED
  BY <1>1, <1>2, <1>3, <1>4, <1>5 DEF Next

-----------------------------------------------------------------------------
(* What the debt is: nothing but the failures while the client is clean.   *)
DebtSound ==
    /\ failures \in Nat /\ Psi \in Nat /\ Debt \in Nat
    /\ failures <= Debt /\ Debt <= failures + (1 + Psi)
    /\ (Clean => Debt = failures)
    /\ (~Clean => Debt = failures + (1 + Psi))

(* In a well-ordered state the debt is so.                                 *)
LEMMA DebtTyped == Ordered /\ Typed => DebtSound
<1> SUFFICES ASSUME Ordered, Typed PROVE DebtSound
  OBVIOUS
<1>1. PICK x, y \in Nat : x = failures /\ y = Psi
  BY PsiNat DEF Typed
<1>2. /\ (Clean => Debt = x + 0)
      /\ (~Clean => Debt = x + (1 + y))
  BY <1>1 DEF Debt
<1>3. QED
  BY <1>1, <1>2 DEF DebtSound

(* Calls that failed or can still fail grow by a bounded number for every  *)
(* fault, and by no other step.                                            *)
LEMMA DebtSteps ==
    ASSUME Ordered, Ordered', Typed, Typed', [Next]_vars, faults \in Nat
    PROVE  \/ faults' = faults /\ Debt' <= Debt
           \/ faults' = faults + 1 /\ Debt' <= Debt + (Group + 2)
<1>1. DebtSound
  BY DebtTyped
<1>2. (Ordered /\ Typed => DebtSound)'
  BY DebtTyped, PTL
<1>3. DebtSound'
  BY <1>2
<1>4. PICK f, y, d \in Nat : f = failures /\ y = Psi /\ d = Debt
  BY <1>1 DEF DebtSound
<1>5. PICK g, z, e \in Nat : g = failures' /\ z = Psi' /\ e = Debt'
  BY <1>3 DEF DebtSound
<1>6. /\ (Clean => d = f)
      /\ (~Clean => d = f + (1 + y))
      /\ e <= g + (1 + z)
      /\ (Clean' => e = g)
  BY <1>1, <1>3, <1>4, <1>5 DEF DebtSound
<1>7. CASE faults' = faults
  <2>1. /\ (g + z <= f + y + 0) \/ (Clean' /\ g <= f + 1)
        /\ (Clean => (Clean' /\ g = f))
    BY <1>4, <1>5, <1>7, QuietSteps DEF Rises
  <2>2. e <= d
    BY <1>6, <2>1
  <2>3. QED
    BY <1>4, <1>5, <1>7, <2>2
<1>8. CASE faults' = faults + 1 /\ Faulty
  <2>1. /\ g + z <= f + y + (Group + 2)
        /\ (Clean => g + z <= f + (Group + 1))
    BY <1>4, <1>5, <1>8, FaultySteps DEF Rises
  <2>2. e <= d + (Group + 2)
    BY <1>6, <2>1, Sizes
  <2>3. QED
    BY <1>4, <1>5, <1>8, <2>2
<1>9. QED
  BY <1>7, <1>8, FaultsCount

(* The inductive invariant: the debt is what the faults pay for.           *)
FailuresInv == Ordered /\ faults \in Nat /\ DebtBounded

(* It holds at the start: the state is clean and nothing failed.           *)
LEMMA InitFailuresInv == Init => FailuresInv
<1> SUFFICES ASSUME Init PROVE FailuresInv
  OBVIOUS
<1>1. Ordered
  BY InitOrdered
<1>2. failures = 0 /\ faults = 0 /\ pc = "idle" /\ toEcu = <<>> /\ toGw = <<>>
  BY DEF Init
<1>3. Len(toEcu) = 0 /\ Len(toGw) = 0
  BY <1>2, Queues
<1>4. Clean
  BY <1>2, <1>3 DEF Clean
<1>5. Debt = 0 + 0
  BY <1>2, <1>4 DEF Debt
<1>6. 0 + 0 <= (Group + 2) * 0
  BY Sizes
<1>7. DebtBounded
  BY <1>2, <1>5, <1>6 DEF DebtBounded
<1>8. faults \in Nat
  BY <1>2
<1>9. QED
  BY <1>1, <1>7, <1>8 DEF FailuresInv

(* One fault more pays for one rise more.                                  *)
LEMMA More ==
    ASSUME NEW a \in Nat, NEW b \in Nat, NEW k \in Nat, NEW n \in Nat, a <= k * n, b <= a + k
    PROVE  b <= k * (n + 1)
<1>1. k * (n + 1) = k * n + k
  OBVIOUS
<1>2. k * n \in Nat
  OBVIOUS
<1>3. QED
  BY <1>1, <1>2

(* Every step keeps it.                                                    *)
LEMMA NextFailuresInv == FailuresInv /\ [Next]_vars => FailuresInv'
<1> SUFFICES ASSUME FailuresInv, [Next]_vars PROVE FailuresInv'
  OBVIOUS
<1>1. Ordered /\ faults \in Nat /\ Debt <= (Group + 2) * faults
  BY DEF FailuresInv, DebtBounded
<1>2. Ordered'
  BY <1>1, NextOrdered
<1>3. Typed /\ Typed'
  BY <1>1, <1>2, StateTyped, NextTyped
<1>4. \/ faults' = faults /\ Debt' <= Debt
      \/ faults' = faults + 1 /\ Debt' <= Debt + (Group + 2)
  BY <1>1, <1>2, <1>3, DebtSteps
<1>5. Debt \in Nat /\ Debt' \in Nat
  <2>1. (Ordered /\ Typed => DebtSound)'
    BY DebtTyped, PTL
  <2>2. DebtSound /\ DebtSound'
    BY <1>1, <1>2, <1>3, <2>1, DebtTyped
  <2>3. QED
    BY <2>2 DEF DebtSound
<1>6. PICK d, e, n, k \in Nat : d = Debt /\ e = Debt' /\ n = faults /\ k = Group + 2
  BY <1>1, <1>5, Sizes
<1>7. d <= k * n
  BY <1>1, <1>6
<1>8. CASE faults' = faults /\ Debt' <= Debt
  <2>1. e <= d
    BY <1>6, <1>8
  <2>2. k * n \in Nat
    OBVIOUS
  <2>3. e <= k * n
    BY <1>7, <2>1, <2>2
  <2>4. Debt' <= (Group + 2) * faults'
    BY <1>6, <1>8, <2>3
  <2>5. DebtBounded'
    BY <2>4 DEF DebtBounded
  <2>6. QED
    BY <1>1, <1>2, <1>8, <2>5 DEF FailuresInv
<1>9. CASE faults' = faults + 1 /\ Debt' <= Debt + (Group + 2)
  <2>1. e <= d + k
    BY <1>6, <1>9
  <2>2. e <= k * (n + 1)
    BY <1>7, <2>1, More
  <2>3. Debt' <= (Group + 2) * faults'
    BY <1>6, <1>9, <2>2
  <2>4. DebtBounded'
    BY <2>3 DEF DebtBounded
  <2>5. faults' \in Nat
    BY <1>1, <1>9
  <2>6. QED
    BY <1>2, <2>4, <2>5 DEF FailuresInv
<1>10. QED
  BY <1>4, <1>8, <1>9

(* At any time the faults so far pay for the calls that failed and for     *)
(* those that what is in the queues may still make fail.                   *)
THEOREM FaultsPayForFailures == Spec => []FailuresInv
<1>1. QED
  BY InitFailuresInv, NextFailuresInv, PTL DEF Spec

(* One lost, late or negative answer makes a bounded number of calls fail. *)
THEOREM FailuresStayBounded == Spec => []FailuresBounded
<1>1. FailuresInv => FailuresBounded
  <2>1. SUFFICES ASSUME FailuresInv PROVE FailuresBounded
    OBVIOUS
  <2>2. Ordered /\ faults \in Nat /\ Debt <= (Group + 2) * faults
    BY <2>1 DEF FailuresInv, DebtBounded
  <2>3. failures \in Nat /\ Debt \in Nat /\ failures <= Debt
    BY <2>2, StateTyped, DebtTyped DEF DebtSound
  <2>4. Group + 2 = 2 * (VersionFrames + 1)
    BY Sizes
  <2>5. PICK f, d, n, k \in Nat : f = failures /\ d = Debt /\ n = faults /\ k = Group + 2
    BY <2>2, <2>3, Sizes
  <2>6. d <= k * n /\ f <= d
    BY <2>2, <2>3, <2>5
  <2>7. k * n \in Nat
    OBVIOUS
  <2>8. f <= k * n
    BY <2>6, <2>7
  <2>9. QED
    BY <2>4, <2>5, <2>8 DEF FailuresBounded
<1>2. QED
  BY <1>1, FaultsPayForFailures, PTL
=============================================================================
