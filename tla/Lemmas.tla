------------------------------- MODULE Lemmas -------------------------------
(***************************************************************************)
(* Facts about the operators that the models are built from, which the     *)
(* proofs about them share, for every value of their parameters:           *)
(*   - induction over the numbers up to n, smallest and largest elements;  *)
(*   - the ring buffer of the web servers: the remainder modulo its size,  *)
(*     and a buffer that holds consecutive requests in consecutive slots;  *)
(*   - the list of list.c: what insert(), delete() and next do to it;      *)
(*   - sums, and the times that are read off a timeline.                   *)
(***************************************************************************)
EXTENDS LinkedList, Timelines, SequenceTheorems, WellFoundedInduction, TLAPS

(* Induction, smallest and largest elements *)

(* The order of the natural numbers as a relation that is well founded.    *)
Below == OpToRel(<, Nat)

(* A pair is in the relation exactly if its numbers are in order.          *)
LEMMA BelowIs == \A x, y \in Nat : <<x, y>> \in Below <=> x < y
  BY DEF Below, OpToRel

(* A set of natural numbers that is not empty has a smallest element. *)
LEMMA SmallestExists ==
  ASSUME NEW S, S \subseteq Nat, S # {}
  PROVE  \E x \in S : \A y \in S : x <= y
<1>1. IsWellFoundedOn(Below, Nat)
  BY NatLessThanWellFounded DEF Below
<1>2. PICK x \in S : \A y \in S : ~ (<<y, x>> \in Below)
  BY <1>1, WFMin
<1>3. ASSUME NEW y \in S PROVE x <= y
  <2>1. x \in Nat /\ y \in Nat
    OBVIOUS
  <2>2. ~ (y < x)
    <3>1. <<y, x>> \in Below <=> y < x
      BY <2>1, BelowIs
    <3> QED
      BY <1>2, <3>1
  <2> QED
    BY <2>1, <2>2
<1> QED
  BY <1>3

(* Induction up to n, with the set of the numbers that have the property   *)
(* in the place of the property.                                           *)
LEMMA UpTo ==
  ASSUME NEW n \in Nat, NEW S, 0 \in S, \A k \in 1 .. n : k - 1 \in S => k \in S
  PROVE  \A k \in 0 .. n : k \in S
<1> DEFINE Bad == {k \in 0 .. n : k \notin S}
<1>1. SUFFICES ASSUME Bad # {} PROVE FALSE
  OBVIOUS
<1>2. Bad \subseteq Nat
  OBVIOUS
<1> HIDE DEF Bad
<1>3. PICK k \in Bad : \A j \in Bad : k <= j
  BY <1>1, <1>2, SmallestExists
<1>4. k \in 0 .. n /\ k \notin S
  BY <1>3 DEF Bad
<1>5. k \in 1 .. n /\ k - 1 \in 0 .. n
  BY <1>4
<1>6. k - 1 \notin Bad
  BY <1>3, <1>5
<1> QED
  BY <1>4, <1>5, <1>6 DEF Bad

(* So Min of the community modules is that element. *)
LEMMA MinIs ==
  ASSUME NEW S, S \subseteq Nat, S # {}
  PROVE  Min(S) \in S /\ \A y \in S : Min(S) <= y
<1>1. \E x \in S : \A y \in S : x <= y
  BY SmallestExists
<1> QED
  BY <1>1 DEF Min

(* A number that is larger than all others changes nothing for Min and     *)
(* everything for Max.                                                     *)
LEMMA MinMaxGrow ==
  ASSUME NEW n \in Nat, NEW S, S \subseteq 1 .. n, NEW M, M = S \cup {n + 1}
  PROVE  /\ S = {} => Min(M) = n + 1
         /\ S # {} => Min(M) = Min(S)
         /\ Max(M) = n + 1
<1>1. M \subseteq Nat /\ M # {} /\ S \subseteq Nat /\ n + 1 \in M
  OBVIOUS
<1>2. \A y \in S : y \in Nat /\ y <= n
  OBVIOUS
<1>3. Min(M) \in M /\ \A y \in M : Min(M) <= y
  BY <1>1, MinIs
<1>4. S = {} => Min(M) = n + 1
  BY <1>3
<1>5. ASSUME S # {} PROVE Min(M) = Min(S)
  <2>1. Min(S) \in S /\ \A y \in S : Min(S) <= y
    BY <1>1, <1>5, MinIs
  <2> DEFINE a == Min(S)
             b == Min(M)
  <2>2. /\ a \in S /\ a \in Nat /\ a <= n /\ a \in M
        /\ b \in Nat /\ (b \in S \/ b = n + 1) /\ b <= a
    BY <1>1, <1>2, <1>3, <2>1
  <2> HIDE DEF a, b
  <2>3. b \in S
    BY <2>2
  <2>4. a <= b
    BY <2>1, <2>3 DEF a
  <2>5. a = b
    BY <2>2, <2>4
  <2> QED
    BY <2>5 DEF a, b
<1>6. Max(M) = n + 1
  <2>1. \A y \in M : y \in Nat /\ n + 1 >= y
    BY <1>2
  <2>2. Max(M) \in M /\ \A y \in M : Max(M) >= y
    BY <1>1, <2>1 DEF Max
  <2> DEFINE m == Max(M)
  <2>3. m \in Nat /\ n + 1 >= m /\ m >= n + 1
    BY <1>1, <2>1, <2>2
  <2> HIDE DEF m
  <2>4. m = n + 1
    BY <2>3
  <2> QED
    BY <2>4 DEF m
<1> QED
  BY <1>4, <1>5, <1>6

(* Of numbers up to n one is the largest. *)
LEMMA MaxIs ==
  ASSUME NEW n \in Nat, NEW S, S \subseteq 1 .. n, S # {}
  PROVE  Max(S) \in S /\ \A y \in S : y <= Max(S)
<1> DEFINE M == {m \in 0 .. n : \A y \in S : y <= m}
<1>1. M \subseteq Nat /\ n \in M
  OBVIOUS
<1> HIDE DEF M
<1>2. PICK m \in M : \A k \in M : m <= k
  BY <1>1, SmallestExists
<1>3. m \in 0 .. n /\ \A y \in S : y <= m
  BY <1>2 DEF M
<1>4. m \in S
  <2> SUFFICES ASSUME m \notin S PROVE FALSE
    OBVIOUS
  <2>1. PICK y \in S : TRUE
    OBVIOUS
  <2>2. m - 1 \in 0 .. n
    BY <1>3, <2>1
  <2>3. \A z \in S : z <= m - 1
    BY <1>3
  <2>4. m - 1 \in M
    BY <2>2, <2>3 DEF M
  <2> QED
    BY <1>2, <1>3, <2>4
<1>5. m \in S /\ \A y \in S : m >= y
  BY <1>3, <1>4
<1>6. Max(S) \in S /\ \A y \in S : Max(S) >= y
  BY <1>5 DEF Max
<1> QED
  BY <1>6

(* Of finitely many integers one is the greatest. *)
LEMMA GreatestExists ==
  ASSUME NEW n \in Nat \ {0}, NEW f, \A i \in 1 .. n : f[i] \in Int
  PROVE  \E i \in 1 .. n : \A j \in 1 .. n : f[j] <= f[i]
<1> DEFINE HasGreatest(k) == \E i \in 1 .. k : \A j \in 1 .. k : f[j] <= f[i]
           Bad == {k \in 1 .. n : ~ HasGreatest(k)}
<1>1. SUFFICES ASSUME Bad # {} PROVE FALSE
  <2>1. n \in 1 .. n
    OBVIOUS
  <2> QED
    BY <1>1, <2>1
<1>2. Bad \subseteq Nat
  OBVIOUS
<1> HIDE DEF Bad
<1>3. PICK k \in Bad : \A l \in Bad : k <= l
  BY <1>1, <1>2, SmallestExists
<1>4. k \in 1 .. n /\ ~ HasGreatest(k)
  BY <1>3 DEF Bad
<1>5. k # 1
  <2>1. HasGreatest(1)
    OBVIOUS
  <2> QED
    BY <1>4, <2>1
<1>6. k - 1 \in 1 .. n /\ k - 1 \notin Bad
  BY <1>3, <1>4, <1>5
<1>7. PICK i \in 1 .. k - 1 : \A j \in 1 .. k - 1 : f[j] <= f[i]
  BY <1>6 DEF Bad
<1>8. f[i] \in Int /\ f[k] \in Int
  BY <1>4, <1>7
<1>9. CASE f[k] <= f[i]
  <2>1. \A j \in 1 .. k : f[j] <= f[i]
    BY <1>4, <1>7, <1>9
  <2> QED
    BY <1>4, <1>7, <2>1
<1>10. CASE ~ (f[k] <= f[i])
  <2>1. \A j \in 1 .. k : f[j] <= f[k]
    BY <1>4, <1>7, <1>8, <1>10
  <2> QED
    BY <1>4, <2>1
<1> QED
  BY <1>9, <1>10

----------------------------------------------------------------------------
(* The ring *)

(* A remainder is a slot of the ring. *)
LEMMA ModRange ==
  ASSUME NEW Q \in Nat \ {0}, NEW a \in Int
  PROVE  a % Q \in 0 .. Q - 1
  OBVIOUS

(* Quotient and remainder make up the dividend. *)
LEMMA DivMod ==
  ASSUME NEW Q \in Nat \ {0}, NEW a \in Int
  PROVE  a \div Q \in Int /\ a = Q * (a \div Q) + (a % Q)
  OBVIOUS

(* A multiple of Q is at most 0 or at least Q. *)
LEMMA NoSmallMultiple ==
  ASSUME NEW Q \in Nat \ {0}, NEW k \in Int
  PROVE  (k <= 0 => Q * k <= 0) /\ (k >= 1 => Q * k >= Q)
  OBVIOUS

LEMMA Distribute ==
  ASSUME NEW Q \in Int, NEW j \in Int, NEW k \in Int
  PROVE  Q * (j + k) = Q * j + Q * k /\ Q * (j - k) = Q * j - Q * k
  OBVIOUS

(* The remainder is the only slot that differs by a multiple of Q. *)
LEMMA ModUnique ==
  ASSUME NEW Q \in Nat \ {0}, NEW k \in Int, NEW r \in 0 .. Q - 1,
         NEW a \in Int, a = Q * k + r
  PROVE  a % Q = r
<1> DEFINE d == k - (a \div Q)
<1>1. a % Q \in 0 .. Q - 1
  BY ModRange
<1>2. a \div Q \in Int /\ a = Q * (a \div Q) + (a % Q)
  BY DivMod
<1>3. Q * d = (a % Q) - r
  BY <1>1, <1>2
<1>4. d \in Int /\ 0 - d \in Int /\ Q * (0 - d) = 0 - Q * d
  BY <1>2
<1>5. (d >= 1 => Q * d >= Q) /\ (0 - d >= 1 => Q * (0 - d) >= Q)
  BY <1>4, NoSmallMultiple
<1>6. d = 0
  BY <1>1, <1>3, <1>4, <1>5
<1> QED
  BY <1>1, <1>3, <1>6

(* Going on from a slot is going on from the number it stands for. *)
LEMMA ModAdd ==
  ASSUME NEW Q \in Nat \ {0}, NEW a \in Int, NEW i \in Int
  PROVE  ((a % Q) + i) % Q = (a + i) % Q
<1> DEFINE s == (a % Q) + i
           e == s \div Q
           f == a \div Q
<1>1. a % Q \in Int /\ f \in Int /\ a = Q * f + (a % Q)
  BY DivMod, ModRange
<1>2. s \in Int
  BY <1>1
<1>3. s % Q \in 0 .. Q - 1 /\ e \in Int /\ s = Q * e + (s % Q)
  BY <1>2, DivMod, ModRange
<1>4. Q * (e + f) = Q * e + Q * f
  BY <1>1, <1>3, Distribute
<1> DEFINE k == e + f
           r == s % Q
           m == a + i
<1>5. k \in Int /\ r \in 0 .. Q - 1 /\ m \in Int /\ m = Q * k + r
  BY <1>1, <1>3, <1>4
<1> HIDE DEF s, e, f, k, r, m
<1>6. m % Q = r
  BY <1>5, ModUnique
<1> QED
  BY <1>6 DEF s, r, m

(* Fewer than Q steps lead to another slot. *)
LEMMA ModDistinct ==
  ASSUME NEW Q \in Nat \ {0}, NEW a \in Int, NEW b \in Int, a < b, b < a + Q
  PROVE  a % Q # b % Q
<1> SUFFICES ASSUME a % Q = b % Q PROVE FALSE
  OBVIOUS
<1> DEFINE e == a \div Q
           f == b \div Q
           r == a % Q
           d == f - e
<1>1. e \in Int /\ f \in Int /\ r \in Int /\ a = Q * e + r /\ b = Q * f + r
  BY DivMod, ModRange
<1> HIDE DEF e, f, r
<1>2. d \in Int /\ Q * d = b - a
  BY <1>1, Distribute
<1>3. (d <= 0 => Q * d <= 0) /\ (d >= 1 => Q * d >= Q)
  BY <1>2, NoSmallMultiple
<1> QED
  BY <1>2, <1>3

(* The slot at which the (n + 1)st request goes into a ring of Q slots. *)
Slot(n, Q) == n % Q

LEMMA SlotRange ==
  ASSUME NEW Q \in Nat \ {0}, NEW n \in Int
  PROVE  Slot(n, Q) \in 0 .. Q - 1
  BY ModRange DEF Slot

LEMMA SlotZero ==
  ASSUME NEW Q \in Nat \ {0}
  PROVE  Slot(0, Q) = 0
  BY DEF Slot

LEMMA SlotAdd ==
  ASSUME NEW Q \in Nat \ {0}, NEW n \in Int, NEW i \in Int
  PROVE  (Slot(n, Q) + i) % Q = Slot(n + i, Q)
  BY ModAdd DEF Slot

LEMMA SlotSucc ==
  ASSUME NEW Q \in Nat \ {0}, NEW n \in Nat
  PROVE  (Slot(n, Q) + 1) % Q = Slot(n + 1, Q)
<1>1. n \in Int /\ 1 \in Int
  OBVIOUS
<1> QED
  BY <1>1, SlotAdd, Zenon

LEMMA SlotDistinct ==
  ASSUME NEW Q \in Nat \ {0}, NEW m \in Int, NEW n \in Int, m < n, n < m + Q
  PROVE  Slot(m, Q) # Slot(n, Q)
  BY ModDistinct DEF Slot

----------------------------------------------------------------------------
(* The k requests that follow request c, as a sequence. *)
Following(c, k) == [i \in 1 .. k |-> c + i]

LEMMA FollowingSeq ==
  ASSUME NEW c \in Nat, NEW k \in Nat
  PROVE  /\ Following(c, k) \in Seq(Nat)
         /\ Len(Following(c, k)) = k
         /\ DOMAIN Following(c, k) = 1 .. k
         /\ \A i \in 1 .. k : Following(c, k)[i] = c + i
  BY DEF Following

(* The next request goes at the end. *)
LEMMA FollowingAppend ==
  ASSUME NEW c \in Nat, NEW k \in Nat
  PROVE  Append(Following(c, k), c + k + 1) = Following(c, k + 1)
  BY DEF Following

LEMMA ServedAppend ==
  ASSUME NEW k \in Nat
  PROVE  Append(Following(0, k), k + 1) = Following(0, k + 1)
<1>1. 0 \in Nat /\ 0 + k + 1 = k + 1
  OBVIOUS
<1> QED
  BY <1>1, FollowingAppend, Zenon

(* The oldest request is taken from the front. *)
LEMMA FollowingTake ==
  ASSUME NEW c \in Nat, NEW k \in Nat, k > 0
  PROVE  /\ Following(c, k) # << >>
         /\ Head(Following(c, k)) = c + 1
         /\ Tail(Following(c, k)) = Following(c + 1, k - 1)
<1>1. /\ Following(c, k) \in Seq(Nat) /\ Len(Following(c, k)) = k
      /\ \A i \in 1 .. k : Following(c, k)[i] = c + i
  BY FollowingSeq
<1>2. Following(c, k) # << >> /\ Head(Following(c, k)) = c + 1
  BY <1>1
<1>3. /\ Tail(Following(c, k)) \in Seq(Nat) /\ Len(Tail(Following(c, k))) = k - 1
      /\ \A i \in 1 .. k - 1 : Tail(Following(c, k))[i] = (c + 1) + i
  BY <1>1, <1>2, HeadTailProperties
<1>4. /\ Following(c + 1, k - 1) \in Seq(Nat) /\ Len(Following(c + 1, k - 1)) = k - 1
      /\ \A i \in 1 .. k - 1 : Following(c + 1, k - 1)[i] = (c + 1) + i
  <2> DEFINE d == c + 1
             m == k - 1
  <2>1. d \in Nat /\ m \in Nat
    OBVIOUS
  <2> HIDE DEF d, m
  <2>2. /\ Following(d, m) \in Seq(Nat) /\ Len(Following(d, m)) = m
        /\ \A i \in 1 .. m : Following(d, m)[i] = d + i
    BY <2>1, FollowingSeq
  <2> QED
    BY <2>2 DEF d, m
<1>5. Tail(Following(c, k)) = Following(c + 1, k - 1)
  <2> DEFINE s == Tail(Following(c, k))
             t == Following(c + 1, k - 1)
  <2>1. /\ s \in Seq(Nat) /\ t \in Seq(Nat) /\ Len(s) = Len(t)
        /\ \A i \in 1 .. Len(s) : s[i] = t[i]
    BY <1>3, <1>4
  <2> HIDE DEF s, t
  <2>2. s = t
    BY <2>1, SeqEqual
  <2> QED
    BY <2>2 DEF s, t
<1> QED
  BY <1>2, <1>5

(* Those that follow c come after the first c. *)
LEMMA FollowingConcat ==
  ASSUME NEW c \in Nat, NEW k \in Nat
  PROVE  Following(0, c) \o Following(c, k) = Following(0, c + k)
  BY DEF Following

----------------------------------------------------------------------------
(* Requests c + 1 to n are in the buffer, each in the slot of its number. *)
Holds(buf, Q, c, n) == \A m \in c .. n - 1 : buf[Slot(m, Q)] = m + 1

(* Writing request n + 1 to its slot overwrites none of fewer than Q       *)
(* requests that wait.                                                     *)
LEMMA HoldsPut ==
  ASSUME NEW Q \in Nat \ {0}, NEW buf \in [0 .. Q - 1 -> Nat],
         NEW c \in Nat, NEW n \in Nat, n - c < Q, Holds(buf, Q, c, n)
  PROVE  Holds([buf EXCEPT ![Slot(n, Q)] = n + 1], Q, c, n + 1)
<1> SUFFICES ASSUME NEW m \in c .. n
             PROVE  [buf EXCEPT ![Slot(n, Q)] = n + 1][Slot(m, Q)] = m + 1
  BY DEF Holds
<1>1. n \in Int /\ m \in Int
  OBVIOUS
<1>2. Slot(n, Q) \in 0 .. Q - 1 /\ Slot(m, Q) \in 0 .. Q - 1
  BY <1>1, SlotRange, Zenon
<1>3. CASE m = n
  BY <1>2, <1>3
<1>4. CASE m # n
  <2>1. m < n /\ n < m + Q
    BY <1>4
  <2>2. Slot(m, Q) # Slot(n, Q)
    BY <1>1, <2>1, SlotDistinct, Zenon
  <2>3. buf[Slot(m, Q)] = m + 1
    BY <1>4 DEF Holds
  <2> QED
    BY <1>2, <2>2, <2>3
<1> QED
  BY <1>3, <1>4

(* What k slots of the ring hold, from index out on. *)
Window(buf, Q, out, k) == [i \in 1 .. k |-> buf[(out + i - 1) % Q]]

(* Read from the slot of the oldest request on, such a buffer is the       *)
(* sequence of the requests that wait.                                     *)
LEMMA HoldsRead ==
  ASSUME NEW Q \in Nat \ {0}, NEW buf \in [0 .. Q - 1 -> Nat],
         NEW c \in Nat, NEW k \in Nat, Holds(buf, Q, c, c + k)
  PROVE  Window(buf, Q, Slot(c, Q), k) = Following(c, k)
<1> SUFFICES ASSUME NEW i \in 1 .. k
             PROVE  buf[(Slot(c, Q) + i - 1) % Q] = c + i
  BY DEF Following, Window
<1> DEFINE j == i - 1
<1>1. Slot(c, Q) \in Int /\ c \in Int /\ j \in Int /\ Slot(c, Q) + i - 1 = Slot(c, Q) + j
  BY SlotRange
<1>2. c + j \in c .. c + k - 1 /\ c + i = (c + j) + 1
  OBVIOUS
<1> HIDE DEF j
<1>3. (Slot(c, Q) + j) % Q = Slot(c + j, Q)
  BY <1>1, SlotAdd, Zenon
<1>4. buf[Slot(c + j, Q)] = c + i
  BY <1>2 DEF Holds
<1> QED
  BY <1>1, <1>3, <1>4

----------------------------------------------------------------------------
(* insert() and the reversal *)

(* insert() puts the task in front and moves every other one place on.     *)
LEMMA InsertIs ==
  ASSUME NEW S, NEW list \in Seq(S), NEW t \in S
  PROVE  /\ insert(list, t) \in Seq(S)
         /\ Len(insert(list, t)) = Len(list) + 1
         /\ \A i \in 1 .. Len(list) + 1 :
              insert(list, t)[i] = IF i = 1 THEN t ELSE list[i - 1]
<1>1. <<t>> \in Seq(S) /\ Len(<<t>>) = 1
  OBVIOUS
<1> QED
  BY <1>1, ConcatProperties DEF insert

(* The reversed list has the same length and counts from the other end.    *)
LEMMA ReverseIs ==
  ASSUME NEW S, NEW list \in Seq(S)
  PROVE  /\ Reverse(list) \in Seq(S)
         /\ Len(Reverse(list)) = Len(list)
         /\ \A i \in 1 .. Len(list) : Reverse(list)[i] = list[Len(list) - i + 1]
  BY DEF Reverse

----------------------------------------------------------------------------
(* delete() *)

(* A list without one node: what was behind it moves one place forward.    *)
LEMMA RemoveAtIs ==
  ASSUME NEW S, NEW list \in Seq(S), NEW p \in 1 .. Len(list)
  PROVE  /\ RemoveAt(list, p) \in Seq(S)
         /\ Len(RemoveAt(list, p)) = Len(list) - 1
         /\ \A i \in 1 .. Len(list) - 1 :
              RemoveAt(list, p)[i] = IF i < p THEN list[i] ELSE list[i + 1]
<1> DEFINE front == SubSeq(list, 1, p - 1)
           back  == SubSeq(list, p + 1, Len(list))
<1>1. /\ front \in Seq(S) /\ Len(front) = p - 1
      /\ \A i \in 1 .. p - 1 : front[i] = list[i]
  <2>1. \A i \in 1 .. p - 1 : list[i] \in S
    BY ElementOfSeq
  <2> QED
    BY <2>1, SubSeqProperties
<1>2. /\ back \in Seq(S) /\ Len(back) = Len(list) - p
      /\ \A i \in 1 .. Len(list) - p : back[i] = list[p + i]
  <2>1. \A i \in p + 1 .. Len(list) : list[i] \in S
    BY ElementOfSeq
  <2> QED
    BY <2>1, SubSeqProperties
<1> HIDE DEF front, back
<1>3. /\ front \o back \in Seq(S)
      /\ Len(front \o back) = Len(front) + Len(back)
      /\ \A i \in 1 .. Len(front) + Len(back) :
           (front \o back)[i] = IF i <= Len(front) THEN front[i] ELSE back[i - Len(front)]
  BY <1>1, <1>2, ConcatProperties
<1>4. Len(front) + Len(back) = Len(list) - 1
  BY <1>1, <1>2
<1>5. ASSUME NEW i \in 1 .. Len(list) - 1
      PROVE  (front \o back)[i] = IF i < p THEN list[i] ELSE list[i + 1]
  BY <1>1, <1>2, <1>3, <1>4, <1>5
<1> QED
  BY <1>3, <1>4, <1>5 DEF RemoveAt, front, back

(* delete() takes out the first node whose task has the name it looks for. *)
LEMMA DeleteIs ==
  ASSUME NEW S, NEW list \in Seq(S), NEW lines, NEW t,
         \E i \in 1 .. Len(list) : lines[list[i]].name = lines[t].name
  PROVE  \E p \in 1 .. Len(list) :
           /\ lines[list[p]].name = lines[t].name
           /\ \A i \in 1 .. Len(list) : lines[list[i]].name = lines[t].name => p <= i
           /\ delete(list, t, lines) = RemoveAt(list, p)
<1> DEFINE Test(u) == lines[u].name = lines[t].name
           I == {i \in 1 .. Len(list) : Test(list[i])}
<1>1. I # {} /\ I \subseteq Nat
  OBVIOUS
<1>2. Min(I) \in I /\ \A i \in I : Min(I) <= i
  BY <1>1, MinIs
<1>3. delete(list, t, lines) = RemoveAt(list, Min(I))
  BY <1>1 DEF delete, RemoveFirstMatch, SelectInSeq
<1> QED
  BY <1>2, <1>3

----------------------------------------------------------------------------
(* node->next and the head *)

(* node->next of the node that holds t is the node behind it, or NULL.     *)
LEMMA NextIs ==
  ASSUME NEW list, NEW t, \E i \in DOMAIN list : list[i] = t
  PROVE  \E i \in DOMAIN list :
           /\ list[i] = t
           /\ next(list, t) = IF i < Len(list) THEN list[i + 1] ELSE NULL
<1> DEFINE i == CHOOSE i \in DOMAIN list : list[i] = t
<1>1. i \in DOMAIN list /\ list[i] = t
  OBVIOUS
<1> QED
  BY <1>1 DEF next

(* So it leads to a task of the list or to NULL.                           *)
LEMMA NextIsInList ==
  ASSUME NEW S, NEW list \in Seq(S), NEW t \in ToSet(list)
  PROVE  next(list, t) \in {NULL} \cup ToSet(list)
<1>1. \E i \in DOMAIN list : list[i] = t
  BY DEF ToSet
<1>2. PICK i \in DOMAIN list :
        next(list, t) = IF i < Len(list) THEN list[i + 1] ELSE NULL
  BY <1>1, NextIs
<1>3. DOMAIN list = 1 .. Len(list) /\ Len(list) \in Nat
  BY LenProperties
<1>4. CASE i < Len(list)
  <2>1. i + 1 \in DOMAIN list
    BY <1>3, <1>4
  <2> QED
    BY <1>2, <1>4, <2>1 DEF ToSet
<1>5. CASE ~ (i < Len(list))
  BY <1>2, <1>5
<1> QED
  BY <1>4, <1>5

(* The head is a task of the list, or NULL.                                *)
LEMMA HeadIs ==
  ASSUME NEW S, NEW list \in Seq(S)
  PROVE  head(list) \in {NULL} \cup ToSet(list)
<1>1. CASE list = << >>
  BY <1>1 DEF head
<1>2. CASE list # << >>
  <2>1. 1 \in DOMAIN list
    BY <1>2, EmptySeq, LenProperties
  <2> QED
    BY <1>2, <2>1 DEF head, ToSet
<1> QED
  BY <1>1, <1>2

(* Deleting the task that was visited takes no other out of the list than  *)
(* one before it, or itself: where next leads to is still in the list.     *)
LEMMA DeleteKeepsNext ==
  ASSUME NEW S, NEW list \in Seq(S), NEW lines, NEW t \in ToSet(list)
  PROVE  /\ delete(list, t, lines) \in Seq(S)
         /\ ToSet(delete(list, t, lines)) \subseteq ToSet(list)
         /\ next(list, t) \in {NULL} \cup ToSet(delete(list, t, lines))
<1>1. Len(list) \in Nat /\ DOMAIN list = 1 .. Len(list)
  BY LenProperties
<1>2. PICK k \in 1 .. Len(list) :
        /\ list[k] = t
        /\ next(list, t) = IF k < Len(list) THEN list[k + 1] ELSE NULL
  <2>1. \E i \in DOMAIN list : list[i] = t
    BY DEF ToSet
  <2> QED
    BY <1>1, <2>1, NextIs
<1>3. PICK p \in 1 .. Len(list) :
        /\ \A i \in 1 .. Len(list) : lines[list[i]].name = lines[t].name => p <= i
        /\ delete(list, t, lines) = RemoveAt(list, p)
  <2>1. \E i \in 1 .. Len(list) : lines[list[i]].name = lines[t].name
    BY <1>2
  <2> QED
    BY <2>1, DeleteIs
<1> DEFINE rest == delete(list, t, lines)
<1>4. /\ rest \in Seq(S) /\ Len(rest) = Len(list) - 1
      /\ \A i \in 1 .. Len(list) - 1 : rest[i] = IF i < p THEN list[i] ELSE list[i + 1]
  BY <1>3, RemoveAtIs
<1> HIDE DEF rest
<1>5. DOMAIN rest = 1 .. Len(list) - 1
  BY <1>4, LenProperties
<1>6. ToSet(rest) \subseteq ToSet(list)
  <2>1. ASSUME NEW i \in 1 .. Len(list) - 1
        PROVE  \E j \in 1 .. Len(list) : rest[i] = list[j]
    <3>1. CASE i < p
      BY <1>1, <1>4, <3>1
    <3>2. CASE ~ (i < p)
      BY <1>1, <1>4, <3>2
    <3> QED
      BY <3>1, <3>2
  <2> QED
    BY <1>1, <1>5, <2>1 DEF ToSet
<1>7. next(list, t) \in {NULL} \cup ToSet(rest)
  <2>1. CASE k < Len(list)
    <3>1. p <= k
      BY <1>2, <1>3
    <3>2. k \in 1 .. Len(list) - 1 /\ ~ (k < p)
      BY <1>1, <2>1, <3>1
    <3>3. rest[k] = list[k + 1]
      BY <1>4, <3>2
    <3> QED
      BY <1>2, <1>5, <2>1, <3>2, <3>3 DEF ToSet
  <2>2. CASE ~ (k < Len(list))
    BY <1>2, <2>2
  <2> QED
    BY <2>1, <2>2
<1> QED
  BY <1>4, <1>6, <1>7 DEF rest

(* If the names of a list differ, delete() takes out the visited node, and *)
(* next leads to the node behind it.                                       *)
LEMMA VisitIs ==
  ASSUME NEW S, NEW list \in Seq(S), NEW lines, NEW p \in 1 .. Len(list),
         \A i, j \in 1 .. Len(list) : lines[list[i]].name = lines[list[j]].name => i = j
  PROVE  /\ delete(list, list[p], lines) = RemoveAt(list, p)
         /\ next(list, list[p]) = IF p < Len(list) THEN list[p + 1] ELSE NULL
<1>1. DOMAIN list = 1 .. Len(list)
  BY LenProperties
<1>2. PICK i \in 1 .. Len(list) :
        /\ list[i] = list[p]
        /\ next(list, list[p]) = IF i < Len(list) THEN list[i + 1] ELSE NULL
  BY <1>1, NextIs
<1>3. PICK j \in 1 .. Len(list) :
        /\ lines[list[j]].name = lines[list[p]].name
        /\ delete(list, list[p], lines) = RemoveAt(list, j)
  BY DeleteIs
<1>4. i = p /\ j = p
  BY <1>2, <1>3
<1> QED
  BY <1>2, <1>3, <1>4

(* What an array of the fields of n tasks becomes when one more is read.   *)
Fields(n, S) == [1 .. n -> S]

OneMoreIn(n, f, x, more) ==
  more[n + 1] = x /\ \A t \in 1 .. n : more[t] = f[t]

LEMMA OneMoreField ==
  ASSUME NEW S, NEW n \in Nat, NEW f \in Fields(n, S), NEW x \in S,
         NEW more, more = Append(f, x)
  PROVE  more \in Fields(n + 1, S) /\ OneMoreIn(n, f, x, more)
<1>1. f \in Seq(S)
  BY SeqDef DEF Fields
<1>2. Len(f) = n
  BY <1>1, LenProperties DEF Fields
<1>3. /\ more \in Seq(S) /\ Len(more) = n + 1
      /\ \A t \in 1 .. n : more[t] = f[t]
      /\ more[n + 1] = x
  BY <1>1, <1>2, AppendProperties
<1>4. more \in Fields(n + 1, S)
  BY <1>3, LenProperties DEF Fields
<1> QED
  BY <1>3, <1>4 DEF OneMoreIn

(* A list of numbers that go up from the head on, and one that go down.    *)
Rising(list)  == \A i, j \in 1 .. Len(list) : i < j => list[i] < list[j]
Falling(list) == \A i, j \in 1 .. Len(list) : i < j => list[j] < list[i]

(* The tasks of a list are what its nodes hold. *)
LEMMA MembersAre ==
  ASSUME NEW S, NEW list \in Seq(S)
  PROVE  /\ Len(list) \in Nat /\ DOMAIN list = 1 .. Len(list)
         /\ ToSet(list) = {list[i] : i \in 1 .. Len(list)}
         /\ \A i \in 1 .. Len(list) : list[i] \in S
         /\ ToSet(list) \subseteq S
<1>1. Len(list) \in Nat /\ DOMAIN list = 1 .. Len(list)
  BY LenProperties
<1>2. ToSet(list) = {list[i] : i \in 1 .. Len(list)}
  BY <1>1 DEF ToSet
<1>3. \A i \in 1 .. Len(list) : list[i] \in S
  BY ElementOfSeq
<1> QED
  BY <1>1, <1>2, <1>3

(* A sorted list holds no number twice. *)
LEMMA SortedDiffer ==
  ASSUME NEW list \in Seq(Int), Rising(list) \/ Falling(list)
  PROVE  \A i, j \in 1 .. Len(list) : list[i] = list[j] => i = j
<1>1. \A i \in 1 .. Len(list) : list[i] \in Int
  BY MembersAre
<1>2. SUFFICES ASSUME NEW i \in 1 .. Len(list), NEW j \in 1 .. Len(list),
                      list[i] = list[j], i # j
               PROVE  FALSE
  OBVIOUS
<1>3. i < j \/ j < i
  BY <1>2
<1> QED
  BY <1>1, <1>2, <1>3 DEF Rising, Falling

(* Without one of its nodes it is still sorted, and holds the others.      *)
LEMMA RemoveAtSorted ==
  ASSUME NEW S, S \subseteq Int, NEW list \in Seq(S), NEW p \in 1 .. Len(list),
         Rising(list) \/ Falling(list),
         NEW rest, rest = RemoveAt(list, p)
  PROVE  /\ rest \in Seq(S)
         /\ Rising(list) => Rising(rest)
         /\ Falling(list) => Falling(rest)
         /\ ToSet(rest) = ToSet(list) \ {list[p]}
<1> DEFINE n == Len(list)
           at(i) == IF i < p THEN i ELSE i + 1
<1>1. /\ n \in Nat /\ \A i \in 1 .. n : list[i] \in Int
      /\ ToSet(list) = {list[i] : i \in 1 .. n}
  BY MembersAre
<1>2. /\ rest \in Seq(S) /\ Len(rest) = n - 1
      /\ \A i \in 1 .. n - 1 : rest[i] = IF i < p THEN list[i] ELSE list[i + 1]
  BY RemoveAtIs
<1>3. ToSet(rest) = {rest[i] : i \in 1 .. n - 1}
  BY <1>2, MembersAre
<1>4. \A i \in 1 .. n - 1 : at(i) \in 1 .. n /\ at(i) # p /\ rest[i] = list[at(i)]
  BY <1>1, <1>2
<1>5. \A i, j \in 1 .. n - 1 : i < j => at(i) < at(j)
  BY <1>1
<1>6. \A i \in 1 .. n : i # p => \E j \in 1 .. n - 1 : at(j) = i
  <2> SUFFICES ASSUME NEW i \in 1 .. n, i # p PROVE \E j \in 1 .. n - 1 : at(j) = i
    OBVIOUS
  <2>1. CASE i < p
    <3>1. i \in 1 .. n - 1 /\ at(i) = i
      BY <1>1, <2>1
    <3> QED
      BY <3>1
  <2>2. CASE p < i
    <3>1. i - 1 \in 1 .. n - 1 /\ at(i - 1) = i
      BY <1>1, <2>2
    <3> QED
      BY <3>1
  <2> QED
    BY <1>1, <2>1, <2>2
<1>7. \A i, j \in 1 .. n : list[i] = list[j] => i = j
  <2>1. list \in Seq(Int)
    BY SeqMonotonic
  <2> QED
    BY <2>1, SortedDiffer
<1> HIDE DEF at, n
<1>8. Rising(list) => Rising(rest)
  BY <1>2, <1>4, <1>5 DEF Rising, n
<1>9. Falling(list) => Falling(rest)
  BY <1>2, <1>4, <1>5 DEF Falling, n
<1>10. ToSet(rest) = ToSet(list) \ {list[p]}
  <2>1. \A x \in ToSet(rest) : x \in ToSet(list) /\ x # list[p]
    BY <1>1, <1>3, <1>4, <1>7 DEF n
  <2>2. ASSUME NEW x \in ToSet(list), x # list[p] PROVE x \in ToSet(rest)
    <3>1. PICK i \in 1 .. n : x = list[i]
      BY <1>1
    <3>2. PICK j \in 1 .. n - 1 : at(j) = i
      BY <1>6, <2>2, <3>1
    <3> QED
      BY <1>3, <1>4, <3>1, <3>2
  <2> QED
    BY <2>1, <2>2
<1> QED
  BY <1>2, <1>8, <1>9, <1>10

(* In a sorted list of tasks next leads to the neighbour, or is NULL at    *)
(* the end.                                                                *)
LEMMA NextInSorted ==
  ASSUME NEW S, S \subseteq Nat \ {0}, NEW list \in Seq(S), NEW t \in ToSet(list),
         Rising(list) \/ Falling(list),
         NEW u, u = next(list, t)
  PROVE  /\ u # NULL => u \in ToSet(list) /\ u # t
         /\ u = NULL /\ Rising(list) => \A x \in ToSet(list) : x <= t
         /\ u = NULL /\ Falling(list) => \A x \in ToSet(list) : t <= x
         /\ u # NULL /\ Rising(list) => t < u /\ \A x \in ToSet(list) : x < u <=> x <= t
         /\ u # NULL /\ Falling(list) => u < t /\ \A x \in ToSet(list) : u < x <=> t <= x
<1> DEFINE n == Len(list)
<1>1. /\ n \in Nat /\ DOMAIN list = 1 .. n
      /\ \A i \in 1 .. n : list[i] \in S
      /\ ToSet(list) = {list[i] : i \in 1 .. n}
  BY MembersAre
<1>2. \A i \in 1 .. n : list[i] \in Nat /\ list[i] # 0
  <2>1. \A i \in 1 .. n : list[i] \in Nat \ {0}
    BY <1>1
  <2> QED
    BY <2>1
<1>3. PICK k \in 1 .. n : list[k] = t /\ u = IF k < n THEN list[k + 1] ELSE NULL
  <2>1. \E i \in DOMAIN list : list[i] = t
    BY <1>1
  <2> QED
    BY <1>1, <2>1, NextIs
<1>4. u = NULL => k = n
  <2>1. ASSUME k < n PROVE u # NULL
    <3>1. k + 1 \in 1 .. n /\ u = list[k + 1]
      BY <1>1, <1>3, <2>1
    <3> QED
      BY <1>2, <3>1 DEF NULL
  <2>2. k < n \/ k = n
    <3> HIDE DEF n
    <3> QED
      BY <1>1
  <2> QED
    BY <2>1, <2>2
<1>5. u # NULL => k + 1 \in 1 .. n /\ u = list[k + 1] /\ k < k + 1
  BY <1>1, <1>3
<1>6. \A i \in 1 .. n : i < k \/ i = k \/ (k < i /\ (i = k + 1 \/ k + 1 < i))
  BY <1>1
<1> HIDE DEF n
<1>7. ASSUME u = NULL
      PROVE  /\ Rising(list) => \A x \in ToSet(list) : x <= t
             /\ Falling(list) => \A x \in ToSet(list) : t <= x
  <2>1. \A i \in 1 .. n : i < k \/ i = k
    BY <1>1, <1>4, <1>7
  <2> QED
    BY <1>1, <1>2, <1>3, <2>1 DEF Rising, Falling, n
<1>8. ASSUME u # NULL
      PROVE  /\ u \in ToSet(list) /\ u # t
             /\ Rising(list) => t < u /\ \A x \in ToSet(list) : x < u <=> x <= t
             /\ Falling(list) => u < t /\ \A x \in ToSet(list) : u < x <=> t <= x
  <2>1. u \in ToSet(list)
    BY <1>1, <1>5, <1>8
  <2>2. CASE Rising(list)
    <3>1. t < u
      BY <1>3, <1>5, <1>8, <2>2 DEF Rising, n
    <3>2. ASSUME NEW i \in 1 .. n PROVE list[i] < u <=> list[i] <= t
      <4>1. i < k => list[i] < t
        BY <1>3, <2>2 DEF Rising, n
      <4>2. k + 1 < i => u < list[i]
        BY <1>5, <1>8, <2>2 DEF Rising, n
      <4>3. t \in Nat /\ u \in Nat /\ list[i] \in Nat
        BY <1>2, <1>3, <1>5, <1>8
      <4> QED
        BY <1>3, <1>5, <1>6, <1>8, <3>1, <4>1, <4>2, <4>3
    <3>3. ~ Falling(list)
      <4>1. t \in Nat /\ u \in Nat
        BY <1>2, <1>3, <1>5, <1>8
      <4> QED
        BY <1>3, <1>5, <1>8, <3>1, <4>1 DEF Falling, n
    <3>4. t \in Nat /\ u \in Nat
      BY <1>2, <1>3, <1>5, <1>8
    <3> QED
      BY <1>1, <2>1, <3>1, <3>2, <3>3, <3>4
  <2>3. CASE Falling(list)
    <3>1. u < t
      BY <1>3, <1>5, <1>8, <2>3 DEF Falling, n
    <3>2. ASSUME NEW i \in 1 .. n PROVE u < list[i] <=> t <= list[i]
      <4>1. i < k => t < list[i]
        BY <1>3, <2>3 DEF Falling, n
      <4>2. k + 1 < i => list[i] < u
        BY <1>5, <1>8, <2>3 DEF Falling, n
      <4>3. t \in Nat /\ u \in Nat /\ list[i] \in Nat
        BY <1>2, <1>3, <1>5, <1>8
      <4> QED
        BY <1>3, <1>5, <1>6, <1>8, <3>1, <4>1, <4>2, <4>3
    <3>3. ~ Rising(list)
      <4>1. t \in Nat /\ u \in Nat
        BY <1>2, <1>3, <1>5, <1>8
      <4> QED
        BY <1>3, <1>5, <1>8, <3>1, <4>1 DEF Rising, n
    <3>4. t \in Nat /\ u \in Nat
      BY <1>2, <1>3, <1>5, <1>8
    <3> QED
      BY <1>1, <2>1, <3>1, <3>2, <3>3, <3>4
  <2> QED
    BY <2>2, <2>3
<1> QED
  BY <1>7, <1>8

(* The head of a list that is not empty is in it, and in a sorted list no  *)
(* task comes before it.                                                   *)
LEMMA HeadOfSorted ==
  ASSUME NEW S, S \subseteq Nat \ {0}, NEW list \in Seq(S), list # << >>
  PROVE  /\ head(list) \in ToSet(list) /\ head(list) # NULL
         /\ Rising(list) => \A x \in ToSet(list) : head(list) <= x
         /\ Falling(list) => \A x \in ToSet(list) : x <= head(list)
<1> DEFINE n == Len(list)
<1>1. /\ n \in Nat /\ DOMAIN list = 1 .. n
      /\ \A i \in 1 .. n : list[i] \in S
      /\ ToSet(list) = {list[i] : i \in 1 .. n}
  BY MembersAre
<1>2. 1 \in 1 .. n
  BY <1>1, EmptySeq
<1>3. head(list) = list[1]
  BY DEF head
<1>4. \A i \in 1 .. n : list[i] \in Nat \ {0}
  BY <1>1
<1>5. \A i \in 1 .. n : i = 1 \/ 1 < i
  BY <1>1
<1> QED
  BY <1>1, <1>2, <1>3, <1>4, <1>5 DEF Rising, Falling, NULL

(* While the file is read the list counts its lines down. *)
CountsDown(list, n) ==
  /\ list \in Seq(1 .. n)
  /\ Len(list) = n
  /\ \A i \in 1 .. n : list[i] = n - i + 1

LEMMA CountedDown ==
  ASSUME NEW n \in Nat, NEW list, CountsDown(list, n)
  PROVE  Falling(list) /\ ToSet(list) = 1 .. n
<1>1. Falling(list)
  BY DEF CountsDown, Falling
<1>2. ToSet(list) = {list[i] : i \in 1 .. n}
  BY MembersAre DEF CountsDown
<1>3. ASSUME NEW t \in 1 .. n PROVE \E i \in 1 .. n : list[i] = t
  <2>1. n - t + 1 \in 1 .. n
    OBVIOUS
  <2>2. list[n - t + 1] = n - (n - t + 1) + 1
    BY <2>1 DEF CountsDown
  <2>3. n - (n - t + 1) + 1 = t
    OBVIOUS
  <2> QED
    BY <2>1, <2>2, <2>3
<1>4. \A i \in 1 .. n : list[i] \in 1 .. n
  BY DEF CountsDown
<1> QED
  BY <1>1, <1>2, <1>3, <1>4

LEMMA InsertCountsDown ==
  ASSUME NEW n \in Nat, NEW list, CountsDown(list, n)
  PROVE  CountsDown(insert(list, n + 1), n + 1)
<1> DEFINE m == n + 1
           more == insert(list, m)
<1>1. list \in Seq(1 .. m) /\ m \in 1 .. m /\ Len(list) = n /\ n + 1 = m
  BY SeqMonotonic DEF CountsDown
<1>2. \A i \in 1 .. n : list[i] = n - i + 1
  BY DEF CountsDown
<1> HIDE DEF m
<1>3. /\ more \in Seq(1 .. m) /\ Len(more) = Len(list) + 1
      /\ \A i \in 1 .. Len(list) + 1 : more[i] = IF i = 1 THEN m ELSE list[i - 1]
  <2> DEFINE S == 1 .. m
  <2>1. list \in Seq(S) /\ m \in S
    BY <1>1
  <2> HIDE DEF S
  <2>2. more \in Seq(S)
    BY <2>1, InsertIs
  <2>3. /\ Len(more) = Len(list) + 1
        /\ \A i \in 1 .. Len(list) + 1 : more[i] = IF i = 1 THEN m ELSE list[i - 1]
    BY <2>1, InsertIs
  <2> QED
    BY <2>2, <2>3 DEF S
<1> HIDE DEF more
<1>4. ASSUME NEW i \in 1 .. m PROVE more[i] = m - i + 1
  <2>1. CASE i = 1
    BY <1>1, <1>3, <2>1
  <2>2. CASE i # 1
    <3>1. i - 1 \in 1 .. n /\ more[i] = list[i - 1]
      BY <1>1, <1>3, <2>2
    <3> QED
      BY <1>1, <1>2, <3>1
  <2> QED
    BY <2>1, <2>2
<1>5. CountsDown(more, m)
  BY <1>1, <1>3, <1>4 DEF CountsDown
<1> QED
  BY <1>5 DEF more, m

LEMMA ReverseCountsUp ==
  ASSUME NEW n \in Nat, NEW list, CountsDown(list, n)
  PROVE  /\ Reverse(list) \in Seq(1 .. n) /\ Len(Reverse(list)) = n
         /\ Rising(Reverse(list)) /\ ToSet(Reverse(list)) = 1 .. n
<1> DEFINE back == Reverse(list)
<1>1. /\ back \in Seq(1 .. n) /\ Len(back) = n
      /\ \A i \in 1 .. n : back[i] = list[n - i + 1]
  BY ReverseIs DEF CountsDown
<1> HIDE DEF back
<1>2. \A i \in 1 .. n : back[i] = i
  <2> SUFFICES ASSUME NEW i \in 1 .. n PROVE back[i] = i
    OBVIOUS
  <2>1. n - i + 1 \in 1 .. n /\ n - (n - i + 1) + 1 = i
    OBVIOUS
  <2> QED
    BY <1>1, <2>1 DEF CountsDown
<1>3. Rising(back)
  BY <1>1, <1>2 DEF Rising
<1>4. ToSet(back) = {back[i] : i \in 1 .. n}
  BY <1>1, MembersAre
<1>5. ToSet(back) = 1 .. n
  BY <1>2, <1>4
<1> QED
  BY <1>1, <1>3, <1>5 DEF back

----------------------------------------------------------------------------
(* Sums of n numbers *)

(* Numbers counted from 1 to n are a sequence of length n.                 *)
LEMMA NumbersAre ==
  ASSUME NEW n \in Nat, NEW s \in [1 .. n -> Int]
  PROVE  s \in Seq(Int) /\ Len(s) = n
<1>1. s \in Seq(Int)
  BY SeqDef
<1> QED
  BY <1>1, LenProperties

(* The definition of PartialSums has a solution, so PartialSums is one.    *)
LEMMA PartialSumsAre ==
  ASSUME NEW n \in Nat, NEW s \in [1 .. n -> Int]
  PROVE  /\ PartialSums(s) \in [0 .. n -> Int]
         /\ PartialSums(s)[0] = 0
         /\ \A k \in 1 .. n : PartialSums(s)[k] = PartialSums(s)[k - 1] + s[k]
<1> DEFINE Adds(g, k) == g[0] = 0 /\ \A j \in 1 .. k : g[j] = g[j - 1] + s[j]
           Solves(g) == g = [k \in 0 .. Len(s) |-> IF k = 0 THEN 0 ELSE g[k - 1] + s[k]]
           S == {k \in 0 .. n : \E g \in [0 .. k -> Int] : Adds(g, k)}
<1>1. 0 \in S
  <2> DEFINE z == [k \in 0 .. 0 |-> 0]
  <2>1. z \in [0 .. 0 -> Int] /\ z[0] = 0 /\ 0 \in 0 .. n /\ 1 .. 0 = {}
    OBVIOUS
  <2> HIDE DEF z
  <2>2. \E g \in [0 .. 0 -> Int] : Adds(g, 0)
    BY <2>1
  <2> QED
    BY <2>1, <2>2, Zenon
<1>2. ASSUME NEW k \in 1 .. n, k - 1 \in S PROVE k \in S
  <2>1. PICK g \in [0 .. k - 1 -> Int] : Adds(g, k - 1)
    BY <1>2
  <2> DEFINE h == [j \in 0 .. k |-> IF j = k THEN g[k - 1] + s[k] ELSE g[j]]
  <2>2. g[k - 1] \in Int /\ s[k] \in Int
    BY <2>1
  <2>3. h \in [0 .. k -> Int]
    BY <2>1, <2>2
  <2>4. ASSUME NEW j \in 1 .. k PROVE h[j] = h[j - 1] + s[j]
    <3>1. CASE j = k
      BY <3>1
    <3>2. CASE j # k
      <4>1. j \in 1 .. k - 1 /\ j - 1 \in 0 .. k /\ j - 1 # k /\ j \in 0 .. k
        BY <3>2
      <4> QED
        BY <2>1, <3>2, <4>1
    <3> QED
      BY <3>1, <3>2
  <2>5. h[0] = 0
    BY <2>1
  <2> HIDE DEF h
  <2>6. \E f \in [0 .. k -> Int] : Adds(f, k)
    BY <2>3, <2>4, <2>5
  <2>7. k \in 0 .. n
    OBVIOUS
  <2> QED
    BY <2>6, <2>7, Zenon
<1>3. n \in S
  <2> HIDE DEF S
  <2>1. \A k \in 0 .. n : k \in S
    BY <1>1, <1>2, UpTo
  <2> QED
    BY <2>1
<1>4. PICK g \in [0 .. n -> Int] : Adds(g, n)
  BY <1>3
<1>5. Len(s) = n
  BY NumbersAre
<1>6. Solves(g)
  BY <1>4, <1>5
<1>7. Solves(CHOOSE h : Solves(h))
  BY <1>6
<1>8. PartialSums(s) = CHOOSE h : Solves(h)
  BY Zenon DEF PartialSums
<1> DEFINE p == PartialSums(s)
<1>9. Solves(p)
  BY <1>7, <1>8
<1> HIDE DEF p
<1>10. DOMAIN p = 0 .. n /\ p = [k \in 0 .. n |-> p[k]] /\ p[0] = 0
  BY <1>5, <1>9
<1>11. \A k \in 1 .. n : p[k] = p[k - 1] + s[k]
  BY <1>5, <1>9
<1>12. \A k \in 0 .. n : p[k] \in Int
  <2> DEFINE I == {k \in 0 .. n : p[k] \in Int}
  <2>1. 0 \in I
    BY <1>10
  <2>2. ASSUME NEW k \in 1 .. n, k - 1 \in I PROVE k \in I
    BY <1>11, <2>2
  <2>3. \A k \in 0 .. n : k \in I
    <3> HIDE DEF I
    <3> QED
      BY <2>1, <2>2, UpTo
  <2> QED
    BY <2>3
<1> QED
  BY <1>10, <1>11, <1>12 DEF p

(* And the only one.                                                       *)
LEMMA PartialSumsUnique ==
  ASSUME NEW n \in Nat, NEW s \in [1 .. n -> Int], NEW g, g[0] = 0,
         \A k \in 1 .. n : g[k] = g[k - 1] + s[k]
  PROVE  \A k \in 0 .. n : PartialSums(s)[k] = g[k]
<1> DEFINE S == {k \in 0 .. n : PartialSums(s)[k] = g[k]}
<1>1. 0 \in S
  BY PartialSumsAre
<1>2. ASSUME NEW k \in 1 .. n, k - 1 \in S PROVE k \in S
  <2>1. PartialSums(s)[k] = PartialSums(s)[k - 1] + s[k]
    BY PartialSumsAre
  <2>2. PartialSums(s)[k - 1] = g[k - 1] /\ g[k] = g[k - 1] + s[k] /\ k \in 0 .. n
    BY <1>2
  <2> QED
    BY <2>1, <2>2
<1>3. \A k \in 0 .. n : k \in S
  <2> HIDE DEF S
  <2> QED
    BY <1>1, <1>2, UpTo
<1> QED
  BY <1>3

(* The sum is the last of the partial sums.                                *)
LEMMA SumIs ==
  ASSUME NEW n \in Nat, NEW s \in [1 .. n -> Int]
  PROVE  SumOf(s) = PartialSums(s)[n] /\ SumOf(s) \in Int
<1>1. SumOf(s) = PartialSums(s)[n]
  BY NumbersAre DEF SumOf
<1> QED
  BY <1>1, PartialSumsAre

(* Where two sequences agree their partial sums do.                        *)
LEMMA PartialSumsAgree ==
  ASSUME NEW n \in Nat, NEW s \in [1 .. n -> Int],
         NEW m \in 0 .. n, NEW r \in [1 .. m -> Int], \A k \in 1 .. m : r[k] = s[k]
  PROVE  \A k \in 0 .. m : PartialSums(r)[k] = PartialSums(s)[k]
<1> DEFINE g == PartialSums(s)
<1>1. g[0] = 0 /\ \A k \in 1 .. n : g[k] = g[k - 1] + s[k]
  BY PartialSumsAre
<1> HIDE DEF g
<1>2. m \in Nat /\ \A k \in 1 .. m : k \in 1 .. n
  OBVIOUS
<1>3. \A k \in 1 .. m : g[k] = g[k - 1] + r[k]
  BY <1>1, <1>2
<1>4. \A k \in 0 .. m : PartialSums(r)[k] = g[k]
  BY <1>1, <1>2, <1>3, PartialSumsUnique
<1> QED
  BY <1>4 DEF g

(* One more number adds to the sum.                                        *)
LEMMA SumOneMore ==
  ASSUME NEW n \in Nat, NEW r \in [1 .. n -> Int], NEW s \in [1 .. n + 1 -> Int],
         \A k \in 1 .. n : s[k] = r[k]
  PROVE  SumOf(s) = SumOf(r) + s[n + 1]
<1>1. n + 1 \in Nat /\ n \in 0 .. n + 1 /\ n + 1 \in 1 .. n + 1 /\ (n + 1) - 1 = n
  OBVIOUS
<1>2. SumOf(s) = PartialSums(s)[n + 1] /\ SumOf(r) = PartialSums(r)[n]
  BY <1>1, SumIs
<1>3. PartialSums(s)[n + 1] = PartialSums(s)[n] + s[n + 1]
  BY <1>1, PartialSumsAre
<1>4. PartialSums(r)[n] = PartialSums(s)[n]
  BY <1>1, PartialSumsAgree
<1> QED
  BY <1>2, <1>3, <1>4

(* Partial sums add up term by term.                                       *)
LEMMA PartialSumsAdd ==
  ASSUME NEW n \in Nat, NEW r \in [1 .. n -> Int], NEW s \in [1 .. n -> Int],
         NEW u \in [1 .. n -> Int], \A k \in 1 .. n : u[k] = r[k] + s[k]
  PROVE  \A k \in 0 .. n : PartialSums(u)[k] = PartialSums(r)[k] + PartialSums(s)[k]
<1> DEFINE g == [k \in 0 .. n |-> PartialSums(r)[k] + PartialSums(s)[k]]
<1>1. /\ PartialSums(r) \in [0 .. n -> Int] /\ PartialSums(s) \in [0 .. n -> Int]
      /\ PartialSums(r)[0] = 0 /\ PartialSums(s)[0] = 0
      /\ \A k \in 1 .. n : PartialSums(r)[k] = PartialSums(r)[k - 1] + r[k]
      /\ \A k \in 1 .. n : PartialSums(s)[k] = PartialSums(s)[k - 1] + s[k]
  BY PartialSumsAre
<1>2. g[0] = 0
  BY <1>1
<1>3. ASSUME NEW k \in 1 .. n PROVE g[k] = g[k - 1] + u[k]
  <2>1. k \in 0 .. n /\ k - 1 \in 0 .. n /\ r[k] \in Int /\ s[k] \in Int
    OBVIOUS
  <2> QED
    BY <1>1, <2>1
<1>4. \A k \in 0 .. n : g[k] = PartialSums(r)[k] + PartialSums(s)[k]
  OBVIOUS
<1> HIDE DEF g
<1>5. \A k \in 0 .. n : PartialSums(u)[k] = g[k]
  BY <1>2, <1>3, PartialSumsUnique
<1> QED
  BY <1>4, <1>5

(* Sums add up term by term.                                               *)
LEMMA SumAdds ==
  ASSUME NEW n \in Nat, NEW r \in [1 .. n -> Int], NEW s \in [1 .. n -> Int],
         NEW u \in [1 .. n -> Int], \A k \in 1 .. n : u[k] = r[k] + s[k]
  PROVE  SumOf(u) = SumOf(r) + SumOf(s)
<1>1. \A k \in 0 .. n : PartialSums(u)[k] = PartialSums(r)[k] + PartialSums(s)[k]
  BY PartialSumsAdd
<1>2. SumOf(u) = PartialSums(u)[n] /\ SumOf(r) = PartialSums(r)[n] /\ SumOf(s) = PartialSums(s)[n]
  BY SumIs
<1>3. n \in 0 .. n
  OBVIOUS
<1> QED
  BY <1>1, <1>2, <1>3

(* A sum of zeros is zero.                                                 *)
LEMMA SumOfZeros ==
  ASSUME NEW n \in Nat, NEW s \in [1 .. n -> Int], \A k \in 1 .. n : s[k] = 0
  PROVE  SumOf(s) = 0
<1> DEFINE g == [k \in 0 .. n |-> 0]
<1>1. g[0] = 0 /\ g[n] = 0 /\ \A k \in 1 .. n : g[k] = g[k - 1] + s[k]
  OBVIOUS
<1> HIDE DEF g
<1>2. \A k \in 0 .. n : PartialSums(s)[k] = g[k]
  BY <1>1, PartialSumsUnique
<1> QED
  BY <1>1, <1>2, SumIs

(* A sum of one number and zeros is that number.                           *)
LEMMA SumOfOne ==
  ASSUME NEW n \in Nat, NEW s \in [1 .. n -> Int], NEW p \in 1 .. n,
         \A k \in 1 .. n : k # p => s[k] = 0
  PROVE  SumOf(s) = s[p]
<1> DEFINE g == [k \in 0 .. n |-> IF k < p THEN 0 ELSE s[p]]
<1>1. g[0] = 0 /\ g[n] = s[p]
  OBVIOUS
<1>2. ASSUME NEW k \in 1 .. n PROVE g[k] = g[k - 1] + s[k]
  <2>1. s[p] \in Int /\ k \in 0 .. n /\ k - 1 \in 0 .. n
    OBVIOUS
  <2> QED
    BY <2>1
<1> HIDE DEF g
<1>3. \A k \in 0 .. n : PartialSums(s)[k] = g[k]
  BY <1>1, <1>2, PartialSumsUnique
<1> QED
  BY <1>1, <1>3, SumIs

(* If one number changes the sum changes by as much.                       *)
LEMMA SumChanges ==
  ASSUME NEW n \in Nat, NEW r \in [1 .. n -> Int], NEW s \in [1 .. n -> Int],
         NEW p \in 1 .. n, \A k \in 1 .. n : k # p => s[k] = r[k]
  PROVE  SumOf(s) = SumOf(r) + (s[p] - r[p])
<1> DEFINE d == [k \in 1 .. n |-> s[k] - r[k]]
<1>1. d \in [1 .. n -> Int] /\ d[p] = s[p] - r[p]
  OBVIOUS
<1>2. \A k \in 1 .. n : s[k] = r[k] + d[k] /\ (k # p => d[k] = 0)
  OBVIOUS
<1> HIDE DEF d
<1>3. SumOf(s) = SumOf(r) + SumOf(d)
  BY <1>1, <1>2, SumAdds
<1>4. SumOf(d) = d[p]
  BY <1>1, <1>2, SumOfOne
<1> QED
  BY <1>1, <1>3, <1>4

(* Partial sums of numbers that are not negative do not fall.              *)
LEMMA PartialSumsRise ==
  ASSUME NEW n \in Nat, NEW s \in [1 .. n -> Nat], NEW i \in 0 .. n
  PROVE  PartialSums(s)[i] \in Nat
         /\ \A k \in i .. n : PartialSums(s)[i] <= PartialSums(s)[k]
<1>0. s \in [1 .. n -> Int]
  OBVIOUS
<1>1. /\ PartialSums(s) \in [0 .. n -> Int] /\ PartialSums(s)[0] = 0
      /\ \A k \in 1 .. n : PartialSums(s)[k] = PartialSums(s)[k - 1] + s[k]
  BY <1>0, PartialSumsAre
<1> DEFINE p == PartialSums(s)
           N == {k \in 0 .. n : p[k] \in Nat}
           R == {k \in 0 .. n : i <= k => p[i] <= p[k]}
<1> HIDE DEF p
<1>2. 0 \in N
  BY <1>1 DEF p
<1>3. ASSUME NEW k \in 1 .. n, k - 1 \in N PROVE k \in N
  BY <1>1, <1>3 DEF p
<1>4. \A k \in 0 .. n : k \in N
  <2> HIDE DEF N
  <2> QED
    BY <1>2, <1>3, UpTo
<1>5. 0 \in R
  BY <1>1 DEF p
<1>6. ASSUME NEW k \in 1 .. n, k - 1 \in R PROVE k \in R
  <2>1. /\ p[k] \in Int /\ p[k - 1] \in Int /\ p[i] \in Int /\ s[k] \in Nat
        /\ p[k] = p[k - 1] + s[k]
    BY <1>1 DEF p
  <2> QED
    BY <1>6, <2>1
<1>7. \A k \in 0 .. n : k \in R
  <2> HIDE DEF R
  <2> QED
    BY <1>5, <1>6, UpTo
<1> QED
  BY <1>4, <1>7 DEF p

LEMMA SumIsNat ==
  ASSUME NEW n \in Nat, NEW s \in [1 .. n -> Nat]
  PROVE  SumOf(s) \in Nat
<1>1. n \in 0 .. n /\ s \in [1 .. n -> Int]
  OBVIOUS
<1> QED
  BY <1>1, SumIs, PartialSumsRise

(* Smaller numbers have the smaller sum.                                   *)
LEMMA SumIsMonotone ==
  ASSUME NEW n \in Nat, NEW r \in [1 .. n -> Int], NEW s \in [1 .. n -> Int],
         \A k \in 1 .. n : r[k] <= s[k]
  PROVE  SumOf(r) <= SumOf(s)
<1> DEFINE d == [k \in 1 .. n |-> s[k] - r[k]]
<1>1. d \in [1 .. n -> Nat] /\ d \in [1 .. n -> Int] /\ \A k \in 1 .. n : s[k] = r[k] + d[k]
  <2>1. ASSUME NEW k \in 1 .. n PROVE s[k] \in Int /\ r[k] \in Int /\ s[k] - r[k] \in Nat
    OBVIOUS
  <2> QED
    BY <2>1
<1> HIDE DEF d
<1>2. SumOf(s) = SumOf(r) + SumOf(d)
  BY <1>1, SumAdds
<1>3. n \in 0 .. n
  OBVIOUS
<1>4. SumOf(d) \in Nat
  BY <1>1, <1>3, PartialSumsRise, SumIs
<1>5. SumOf(r) \in Int
  BY SumIs
<1> QED
  BY <1>2, <1>4, <1>5

(* An order in which tasks are taken, each once, and the first k of them.  *)
Orders(n) ==
  {s \in [1 .. n -> 1 .. n] : \A i, j \in 1 .. n : i # j => s[i] # s[j]}

First(s, k) == {s[i] : i \in 1 .. k}

Along(n, b, s)   == [i \in 1 .. n |-> b[s[i]]]
Only(n, b, some) == [t \in 1 .. n |-> IF t \in some THEN b[t] ELSE 0]

LEMMA AlongIs ==
  ASSUME NEW n \in Nat, NEW b \in [1 .. n -> Int], NEW s \in Orders(n)
  PROVE  /\ Along(n, b, s) \in [1 .. n -> Int]
         /\ \A k \in 1 .. n : Along(n, b, s)[k] = b[s[k]]
         /\ \A k \in 1 .. n : s[k] \in 1 .. n
         /\ \A some : Only(n, b, some) \in [1 .. n -> Int]
<1>1. s \in [1 .. n -> 1 .. n]
  BY DEF Orders
<1>2. \A k \in 1 .. n : s[k] \in 1 .. n /\ b[s[k]] \in Int
  BY <1>1
<1>3. Along(n, b, s) \in [1 .. n -> Int] /\ \A k \in 1 .. n : Along(n, b, s)[k] = b[s[k]]
  BY <1>2 DEF Along
<1>4. ASSUME NEW some PROVE Only(n, b, some) \in [1 .. n -> Int]
  <2>1. \A t \in 1 .. n : (IF t \in some THEN b[t] ELSE 0) \in Int
    OBVIOUS
  <2> QED
    BY <2>1 DEF Only
<1> QED
  BY <1>2, <1>3, <1>4

(* What they add up to along the order is their sum as a set.              *)
LEMMA SumAlong ==
  ASSUME NEW n \in Nat, NEW b \in [1 .. n -> Int], NEW s \in Orders(n)
  PROVE  \A k \in 0 .. n :
           PartialSums(Along(n, b, s))[k] = SumOf(Only(n, b, First(s, k)))
<1> DEFINE a == Along(n, b, s)
           g == [k \in 0 .. n |-> SumOf(Only(n, b, First(s, k)))]
<1>1. /\ a \in [1 .. n -> Int]
      /\ \A k \in 1 .. n : a[k] = b[s[k]] /\ s[k] \in 1 .. n
      /\ \A some : Only(n, b, some) \in [1 .. n -> Int]
  BY AlongIs
<1>2. g[0] = 0
  <2>1. First(s, 0) = {}
    BY DEF First
  <2>2. \A t \in 1 .. n : Only(n, b, {})[t] = 0
    BY DEF Only
  <2>3. SumOf(Only(n, b, {})) = 0
    BY <1>1, <2>2, SumOfZeros
  <2> QED
    BY <2>1, <2>3
<1>3. ASSUME NEW k \in 1 .. n PROVE g[k] = g[k - 1] + a[k]
  <2> DEFINE p == s[k]
             r == Only(n, b, First(s, k - 1))
             q == Only(n, b, First(s, k))
  <2>1. p \in 1 .. n /\ a[k] = b[p] /\ r \in [1 .. n -> Int] /\ q \in [1 .. n -> Int]
    BY <1>1
  <2>2. First(s, k) = First(s, k - 1) \cup {p}
    <3>1. 1 .. k = (1 .. k - 1) \cup {k}
      OBVIOUS
    <3> QED
      BY <3>1 DEF First
  <2>3. p \notin First(s, k - 1)
    <3>1. \A i \in 1 .. k - 1 : i \in 1 .. n /\ i # k
      OBVIOUS
    <3> QED
      BY <3>1 DEF First, Orders
  <2>4. q[p] = b[p] /\ r[p] = 0 /\ \A t \in 1 .. n : t # p => q[t] = r[t]
    BY <2>1, <2>2, <2>3 DEF Only
  <2>5. g[k] = SumOf(q) /\ g[k - 1] = SumOf(r)
    OBVIOUS
  <2>6. SumOf(r) \in Int /\ b[p] \in Int
    BY <2>1, SumIs
  <2> HIDE DEF p, q, r, g
  <2>7. SumOf(q) = SumOf(r) + (q[p] - r[p])
    BY <2>1, <2>4, SumChanges
  <2> QED
    BY <2>1, <2>4, <2>5, <2>6, <2>7
<1>4. \A k \in 0 .. n : g[k] = SumOf(Only(n, b, First(s, k)))
  OBVIOUS
<1>5. a \in [1 .. n -> Int] /\ g[0] = 0 /\ \A k \in 1 .. n : g[k] = g[k - 1] + a[k]
  BY <1>1, <1>2, <1>3
<1> HIDE DEF a, g
<1>6. \A k \in 0 .. n : PartialSums(a)[k] = g[k]
  BY <1>5, PartialSumsUnique
<1> QED
  BY <1>4, <1>6 DEF a

(* If the first k are no larger than the others, no k add up to less.      *)
LEMMA SmallestFirst ==
  ASSUME NEW n \in Nat, NEW b \in [1 .. n -> Int],
         NEW s \in Orders(n), NEW o \in Orders(n), NEW k \in 0 .. n, NEW c \in Int,
         \A t \in 1 .. n : IF t \in First(s, k) THEN b[t] <= c ELSE c <= b[t]
  PROVE  PartialSums(Along(n, b, s))[k] <= PartialSums(Along(n, b, o))[k]
<1> DEFINE d == [t \in 1 .. n |-> b[t] - c]
           cs == [i \in 1 .. n |-> c]
<1>1. d \in [1 .. n -> Int] /\ cs \in [1 .. n -> Int]
  OBVIOUS
<1>2. \A t \in 1 .. n : d[t] = b[t] - c /\ b[t] \in Int
  OBVIOUS
<1>3. \A i \in 1 .. n : cs[i] = c
  OBVIOUS
<1> HIDE DEF d, cs
<1>4. ASSUME NEW w \in Orders(n)
      PROVE  /\ PartialSums(Along(n, b, w))[k] =
                  SumOf(Only(n, d, First(w, k))) + PartialSums(cs)[k]
             /\ SumOf(Only(n, d, First(w, k))) \in Int
  <2>1. /\ Along(n, b, w) \in [1 .. n -> Int] /\ Along(n, d, w) \in [1 .. n -> Int]
        /\ \A i \in 1 .. n : w[i] \in 1 .. n /\ Along(n, b, w)[i] = b[w[i]]
        /\ \A i \in 1 .. n : Along(n, d, w)[i] = d[w[i]]
    BY <1>1, AlongIs
  <2>2. ASSUME NEW i \in 1 .. n PROVE Along(n, b, w)[i] = Along(n, d, w)[i] + cs[i]
    <3> DEFINE t == w[i]
    <3>1. /\ t \in 1 .. n /\ Along(n, b, w)[i] = b[t] /\ Along(n, d, w)[i] = d[t]
          /\ cs[i] = c
      BY <1>3, <2>1
    <3> HIDE DEF t
    <3>2. d[t] = b[t] - c /\ b[t] \in Int
      BY <1>2, <3>1
    <3> QED
      BY <3>1, <3>2
  <2>3. PartialSums(Along(n, b, w))[k] = PartialSums(Along(n, d, w))[k] + PartialSums(cs)[k]
    <3> DEFINE u == Along(n, b, w)
               r == Along(n, d, w)
    <3>1. /\ u \in [1 .. n -> Int] /\ r \in [1 .. n -> Int] /\ cs \in [1 .. n -> Int]
          /\ \A i \in 1 .. n : u[i] = r[i] + cs[i]
      BY <1>1, <2>1, <2>2
    <3> HIDE DEF u, r
    <3>2. \A j \in 0 .. n : PartialSums(u)[j] = PartialSums(r)[j] + PartialSums(cs)[j]
      BY <3>1, PartialSumsAdd
    <3> QED
      BY <3>2 DEF u, r
  <2>4. PartialSums(Along(n, d, w))[k] = SumOf(Only(n, d, First(w, k)))
    BY <1>1, SumAlong
  <2>5. SumOf(Only(n, d, First(w, k))) \in Int
    BY <1>1, AlongIs, SumIs
  <2> QED
    BY <2>3, <2>4, <2>5
<1>5. SumOf(Only(n, d, First(s, k))) <= SumOf(Only(n, d, First(o, k)))
  <2> DEFINE x == Only(n, d, First(s, k))
             y == Only(n, d, First(o, k))
  <2>1. x \in [1 .. n -> Int] /\ y \in [1 .. n -> Int]
    BY <1>1, AlongIs
  <2>2. ASSUME NEW t \in 1 .. n PROVE x[t] <= y[t]
    <3>1. /\ x[t] = IF t \in First(s, k) THEN d[t] ELSE 0
          /\ y[t] = IF t \in First(o, k) THEN d[t] ELSE 0
      BY DEF Only
    <3>2. IF t \in First(s, k) THEN d[t] <= 0 ELSE 0 <= d[t]
      BY <1>2
    <3>3. d[t] \in Int
      BY <1>1
    <3> HIDE DEF x, y
    <3> QED
      BY <3>1, <3>2, <3>3
  <2> HIDE DEF x, y
  <2>3. SumOf(x) <= SumOf(y)
    BY <2>1, <2>2, SumIsMonotone
  <2> QED
    BY <2>3 DEF x, y
<1>6. PartialSums(cs)[k] \in Int
  BY <1>1, PartialSumsAre
<1> QED
  BY <1>4, <1>5, <1>6

(* What tasks wait that are run to their ends in an order: each waits for  *)
(* the bursts b of those before it.  Shortest first they wait least.       *)
Waits(n, b, s) == [i \in 1 .. n |-> PartialSums(Along(n, b, s))[i - 1]]

LEMMA ShortestFirst ==
  ASSUME NEW n \in Nat, NEW b \in [1 .. n -> Int],
         NEW s \in Orders(n), NEW o \in Orders(n),
         \A k \in 1 .. n, t \in 1 .. n :
           IF t \in First(s, k) THEN b[t] <= b[s[k]] ELSE b[s[k]] <= b[t]
  PROVE  SumOf(Waits(n, b, s)) <= SumOf(Waits(n, b, o))
<1>1. ASSUME NEW k \in 0 .. n
      PROVE  PartialSums(Along(n, b, s))[k] <= PartialSums(Along(n, b, o))[k]
  <2>1. CASE k = 0
    <3>1. /\ PartialSums(Along(n, b, s))[0] = 0 /\ PartialSums(Along(n, b, o))[0] = 0
      BY AlongIs, PartialSumsAre
    <3> QED
      BY <2>1, <3>1
  <2>2. CASE k # 0
    <3>1. k \in 1 .. n /\ s[k] \in 1 .. n
      BY <2>2, AlongIs
    <3>2. b[s[k]] \in Int
      BY <3>1
    <3>3. \A t \in 1 .. n : IF t \in First(s, k) THEN b[t] <= b[s[k]] ELSE b[s[k]] <= b[t]
      BY <3>1
    <3> QED
      BY <3>2, <3>3, SmallestFirst
  <2> QED
    BY <2>1, <2>2
<1>2. ASSUME NEW w \in Orders(n) PROVE Waits(n, b, w) \in [1 .. n -> Int]
  <2>1. PartialSums(Along(n, b, w)) \in [0 .. n -> Int]
    BY AlongIs, PartialSumsAre
  <2> QED
    BY <2>1 DEF Waits
<1>3. \A i \in 1 .. n : Waits(n, b, s)[i] <= Waits(n, b, o)[i]
  <2>1. \A i \in 1 .. n : i - 1 \in 0 .. n
    OBVIOUS
  <2> QED
    BY <1>1, <2>1 DEF Waits
<1> QED
  BY <1>2, <1>3, SumIsMonotone

----------------------------------------------------------------------------
(* Timelines *)

(* The timelines of the tasks in T, the CPU time used up so far, and       *)
(* whether a task ran.                                                     *)
Logs(T) == Seq([task : T, slice : Nat])

Now(log)    == Clock(log)[Len(log)]
Ran(log, t) == SlicesOf(log, t) # {}

LEMMA SlicesInNat ==
  ASSUME NEW T, NEW S, S \subseteq Nat, NEW log \in Seq([task : T, slice : S])
  PROVE  log \in Logs(T)
<1>1. [task : T, slice : S] \subseteq [task : T, slice : Nat]
  OBVIOUS
<1> QED
  BY <1>1, SeqMonotonic DEF Logs

(* What the times of a timeline are sums of.                               *)
SliceLengths(log)  == [i \in 1 .. Len(log) |-> log[i].slice]
SlicesFor(log, t) == [i \in 1 .. Len(log) |-> IF log[i].task = t THEN log[i].slice ELSE 0]

LEMMA SlicesAreNumbers ==
  ASSUME NEW T, NEW log \in Logs(T)
  PROVE  /\ Len(log) \in Nat /\ DOMAIN log = 1 .. Len(log)
         /\ \A i \in 1 .. Len(log) : log[i].slice \in Nat
         /\ SliceLengths(log) \in [1 .. Len(log) -> Nat]
         /\ SliceLengths(log) \in [1 .. Len(log) -> Int]
         /\ \A t : SlicesFor(log, t) \in [1 .. Len(log) -> Nat]
         /\ \A t : SlicesFor(log, t) \in [1 .. Len(log) -> Int]
<1>1. Len(log) \in Nat /\ DOMAIN log = 1 .. Len(log)
  BY LenProperties DEF Logs
<1>2. \A i \in 1 .. Len(log) : log[i].slice \in Nat
  <2>1. \A i \in 1 .. Len(log) : log[i] \in [task : T, slice : Nat]
    BY ElementOfSeq DEF Logs
  <2> QED
    BY <2>1
<1> QED
  BY <1>1, <1>2 DEF SliceLengths, SlicesFor

(* All times of a timeline are times up to now.                            *)
LEMMA TimesOfTimeline ==
  ASSUME NEW T, NEW log \in Logs(T), NEW t
  PROVE  /\ Now(log) \in Nat
         /\ Received(log, t) \in Nat /\ Received(log, t) <= Now(log)
         /\ ~ Ran(log, t) => Received(log, t) = 0
         /\ Ran(log, t) => Response(log, t) \in Nat /\ Turnaround(log, t) \in Nat
<1> DEFINE n == Len(log)
           a == SliceLengths(log)
           b == SlicesFor(log, t)
           S == SlicesOf(log, t)
<1>1. /\ n \in Nat /\ DOMAIN log = 1 .. n
      /\ a \in [1 .. n -> Nat] /\ a \in [1 .. n -> Int]
      /\ b \in [1 .. n -> Nat] /\ b \in [1 .. n -> Int]
      /\ \A i \in 1 .. n : log[i].slice \in Nat
  BY SlicesAreNumbers
<1>2. /\ Clock(log) = PartialSums(a) /\ Now(log) = PartialSums(a)[n]
      /\ Received(log, t) = SumOf(b)
  BY DEF Now, Clock, Received, SliceLengths, SlicesFor
<1>3. \A k \in 1 .. n : b[k] <= a[k]
  BY <1>1 DEF SliceLengths, SlicesFor
<1>4. ~ Ran(log, t) => \A k \in 1 .. n : b[k] = 0
  BY <1>1 DEF Ran, SlicesOf, SlicesFor
<1>5. S \subseteq 1 .. n
  BY <1>1 DEF SlicesOf
<1> HIDE DEF n, a, b, S
<1>6. SumOf(a) = PartialSums(a)[n] /\ SumOf(b) = PartialSums(b)[n]
  BY <1>1, SumIs
<1>7. \A i \in 0 .. n : PartialSums(a)[i] \in Nat /\ PartialSums(b)[i] \in Nat
  BY <1>1, PartialSumsRise
<1>8. SumOf(b) <= SumOf(a)
  BY <1>1, <1>3, SumIsMonotone
<1>9. ~ Ran(log, t) => SumOf(b) = 0
  BY <1>1, <1>4, SumOfZeros
<1>10. n \in 0 .. n
  BY <1>1
<1>11. Ran(log, t) => Response(log, t) \in Nat /\ Turnaround(log, t) \in Nat
  <2> SUFFICES ASSUME S # {} PROVE Response(log, t) \in Nat /\ Turnaround(log, t) \in Nat
    BY DEF Ran, S
  <2>1. Min(S) \in S /\ Max(S) \in S
    <3>1. S \subseteq Nat
      BY <1>5
    <3> QED
      BY <1>1, <1>5, <3>1, MinIs, MaxIs
  <2>2. Min(S) - 1 \in 0 .. n /\ Max(S) \in 0 .. n
    <3>1. \A i \in S : i \in 0 .. n /\ i - 1 \in 0 .. n
      BY <1>1, <1>5
    <3> QED
      BY <2>1, <3>1
  <2> QED
    BY <1>2, <1>7, <2>2 DEF Response, Turnaround, Begins, Ends, S
<1> QED
  BY <1>2, <1>6, <1>7, <1>8, <1>9, <1>10, <1>11

(* Before anything ran.                                                    *)
LEMMA EmptyTimeline ==
  /\ Now(<< >>) = 0
  /\ \A t : SlicesOf(<< >>, t) = {} /\ ~ Ran(<< >>, t) /\ Received(<< >>, t) = 0
<1>1. << >> \in Logs({}) /\ Len(<< >>) = 0 /\ DOMAIN << >> = {}
  BY EmptySeq DEF Logs
<1>2. \A t : SlicesOf(<< >>, t) = {} /\ ~ Ran(<< >>, t)
  BY <1>1 DEF SlicesOf, Ran
<1>3. \A t : Received(<< >>, t) = 0
  BY <1>1, <1>2, TimesOfTimeline
<1>4. Now(<< >>) = 0
  <2> DEFINE a == SliceLengths(<< >>)
  <2>1. a \in [1 .. 0 -> Int] /\ Clock(<< >>) = PartialSums(a)
    BY <1>1 DEF SliceLengths, Clock
  <2> HIDE DEF a
  <2>2. PartialSums(a)[0] = 0
    BY <2>1, PartialSumsAre
  <2> QED
    BY <1>1, <2>1, <2>2 DEF Now
<1> QED
  BY <1>2, <1>3, <1>4

(* One more slice: it ends now, it is the first of its task or the last,   *)
(* and the times of the other tasks stay what they were.                   *)
OneMore(log, t, x, more) ==
  /\ \A u : Ran(more, u) <=> (Ran(log, u) \/ u = t)
  /\ \A u : Received(more, u) = IF u = t THEN Received(log, u) + x ELSE Received(log, u)
  /\ Now(more) = Now(log) + x
  /\ \A u : Ran(log, u) => Response(more, u) = Response(log, u)
  /\ ~ Ran(log, t) => Response(more, t) = Now(log)
  /\ \A u : Ran(log, u) /\ u # t => Turnaround(more, u) = Turnaround(log, u)
  /\ Turnaround(more, t) = Now(more)

LEMMA TimelineGrows ==
  ASSUME NEW T, NEW log \in Logs(T), NEW t \in T, NEW x \in Nat,
         NEW more, more = Append(log, [task |-> t, slice |-> x])
  PROVE  more \in Logs(T) /\ OneMore(log, t, x, more)
<1> DEFINE n == Len(log)
           e == [task |-> t, slice |-> x]
           R == [task : T, slice : Nat]
           a == SliceLengths(log)
           a2 == SliceLengths(more)
           p == PartialSums(a)
           p2 == PartialSums(a2)
<1>1. e \in R /\ e.task = t /\ e.slice = x
  OBVIOUS
<1>2. /\ n \in Nat /\ DOMAIN log = 1 .. n
      /\ a \in [1 .. n -> Int]
      /\ \A u : SlicesFor(log, u) \in [1 .. n -> Int]
  BY SlicesAreNumbers
<1>3. /\ more \in Seq(R) /\ Len(more) = n + 1 /\ more[n + 1] = e
      /\ \A i \in 1 .. n : more[i] = log[i]
  <2> HIDE DEF e, R
  <2>1. log \in Seq(R)
    BY DEF R, Logs
  <2>2. more = Append(log, e)
    BY DEF e
  <2> QED
    BY <1>1, <2>1, <2>2, AppendProperties
<1>4. /\ DOMAIN more = 1 .. n + 1 /\ a2 \in [1 .. n + 1 -> Int]
      /\ \A u : SlicesFor(more, u) \in [1 .. n + 1 -> Int]
  <2> HIDE DEF e, n, a2
  <2>1. more \in Logs(T)
    BY <1>3 DEF Logs
  <2> QED
    BY <1>3, <2>1, SlicesAreNumbers DEF a2
<1>5. \A k \in 1 .. n : a2[k] = a[k]
  BY <1>2, <1>3 DEF SliceLengths
<1>6. a2[n + 1] = x
  BY <1>1, <1>2, <1>3 DEF SliceLengths
<1>7. Clock(log) = p /\ Clock(more) = p2 /\ Now(log) = p[n] /\ Now(more) = p2[n + 1]
  BY <1>3 DEF Now, Clock, SliceLengths
<1>8. /\ \A k \in 0 .. n : p2[k] = p[k]
      /\ p2[n + 1] = p[n] + x
  <2> HIDE DEF a, a2, n, p, p2
  <2>1. n + 1 \in Nat /\ n \in 0 .. n + 1 /\ n + 1 \in 1 .. n + 1 /\ (n + 1) - 1 = n /\ n \in 0 .. n
    BY <1>2
  <2>2. \A k \in 0 .. n : PartialSums(a)[k] = PartialSums(a2)[k]
    BY <1>2, <1>4, <1>5, <2>1, PartialSumsAgree
  <2>3. PartialSums(a2)[n + 1] = PartialSums(a2)[n] + a2[n + 1]
    BY <1>4, <2>1, PartialSumsAre
  <2> QED
    BY <1>6, <2>1, <2>2, <2>3 DEF p, p2
<1>9. ASSUME NEW u
      PROVE  Received(more, u) = IF u = t THEN Received(log, u) + x ELSE Received(log, u)
  <2> DEFINE b == SlicesFor(log, u)
             b2 == SlicesFor(more, u)
  <2>1. Received(log, u) = SumOf(b) /\ Received(more, u) = SumOf(b2)
    BY DEF Received, SlicesFor
  <2>2. \A k \in 1 .. n : b2[k] = b[k]
    BY <1>2, <1>3 DEF SlicesFor
  <2>3. b2[n + 1] = IF u = t THEN x ELSE 0
    BY <1>1, <1>2, <1>3 DEF SlicesFor
  <2>4. b \in [1 .. n -> Int] /\ b2 \in [1 .. n + 1 -> Int]
    BY <1>2, <1>4
  <2> HIDE DEF b, b2, n
  <2>5. SumOf(b2) = SumOf(b) + b2[n + 1]
    BY <1>2, <2>2, <2>4, SumOneMore
  <2>6. SumOf(b) \in Int
    BY <1>2, <2>4, SumIs
  <2> QED
    BY <2>1, <2>3, <2>5, <2>6
<1>10. ASSUME NEW u
       PROVE  /\ SlicesOf(log, u) \subseteq 1 .. n
              /\ u # t => SlicesOf(more, u) = SlicesOf(log, u)
              /\ u = t => SlicesOf(more, u) = SlicesOf(log, u) \cup {n + 1}
  BY <1>1, <1>2, <1>3, <1>4 DEF SlicesOf
<1> HIDE DEF n, a, a2, p, p2, e, R
<1>11. \A u : Ran(more, u) <=> (Ran(log, u) \/ u = t)
  BY <1>10 DEF Ran
<1>12. ASSUME NEW u, Ran(log, u)
       PROVE  Response(more, u) = Response(log, u)
  <2> DEFINE S == SlicesOf(log, u)
             S2 == SlicesOf(more, u)
  <2>1. S \subseteq 1 .. n /\ S # {} /\ (S2 = S \/ S2 = S \cup {n + 1})
    BY <1>10, <1>12 DEF Ran
  <2> HIDE DEF S, S2
  <2>2. Min(S2) = Min(S)
    <3>1. ASSUME S2 = S \cup {n + 1} PROVE Min(S2) = Min(S)
      <4>1. n \in Nat /\ S \subseteq 1 .. n
        BY <1>2, <2>1
      <4>2. S # {} => Min(S2) = Min(S)
        BY <3>1, <4>1, MinMaxGrow, ZenonT(30)
      <4>3. S # {}
        BY <2>1
      <4> QED
        BY <4>2, <4>3
    <3> QED
      BY <2>1, <3>1
  <2>3. Min(S) \in 1 .. n
    <3>1. S \subseteq Nat
      BY <2>1
    <3> QED
      BY <2>1, <3>1, MinIs
  <2>4. Min(S) - 1 \in 0 .. n
    BY <1>2, <2>3
  <2> QED
    BY <1>7, <1>8, <2>2, <2>4 DEF Response, Begins, S, S2
<1>13. ~ Ran(log, t) => Response(more, t) = Now(log)
  <2> SUFFICES ASSUME ~ Ran(log, t) PROVE Response(more, t) = Now(log)
    OBVIOUS
  <2> DEFINE S == SlicesOf(log, t)
             S2 == SlicesOf(more, t)
  <2>1. S = {} /\ S2 = S \cup {n + 1} /\ S \subseteq 1 .. n
    BY <1>10 DEF Ran
  <2> HIDE DEF S, S2
  <2>2. Min(S2) = n + 1
    BY <1>2, <2>1, MinMaxGrow
  <2>3. (n + 1) - 1 = n /\ n \in 0 .. n
    BY <1>2
  <2> QED
    BY <1>7, <1>8, <2>2, <2>3 DEF Response, Begins, S2
<1>14. ASSUME NEW u, Ran(log, u), u # t
       PROVE  Turnaround(more, u) = Turnaround(log, u)
  <2> DEFINE S == SlicesOf(log, u)
  <2>1. S \subseteq 1 .. n /\ S # {} /\ SlicesOf(more, u) = S
    BY <1>10, <1>14 DEF Ran
  <2> HIDE DEF S
  <2>2. Max(S) \in 1 .. n
    BY <1>2, <2>1, MaxIs
  <2>3. Max(S) \in 0 .. n
    BY <1>2, <2>2
  <2> QED
    BY <1>7, <1>8, <2>1, <2>3 DEF Turnaround, Ends, S
<1>15. Turnaround(more, t) = Now(more)
  <2> DEFINE S == SlicesOf(log, t)
             S2 == SlicesOf(more, t)
  <2>1. S2 = S \cup {n + 1} /\ S \subseteq 1 .. n
    BY <1>10
  <2> HIDE DEF S, S2
  <2>2. Max(S2) = n + 1
    BY <1>2, <2>1, MinMaxGrow
  <2> QED
    BY <1>7, <2>2 DEF Turnaround, Ends, S2
<1>16. more \in Logs(T)
  BY <1>3 DEF R, Logs
<1> QED
  BY <1>7, <1>8, <1>9, <1>11, <1>12, <1>13, <1>14, <1>15, <1>16 DEF OneMore

(* What the slices' beginnings add up to: if each task has one slice, what *)
(* they wait in total.                                                     *)
TotalBegins(log) == SumOf([i \in 1 .. Len(log) |-> Begins(log, i)])

LEMMA NothingBegins ==
  ASSUME NEW log, log = << >>
  PROVE  TotalBegins(log) = 0
<1> DEFINE c == [i \in 1 .. Len(log) |-> Begins(log, i)]
<1>1. Len(log) = 0
  BY EmptySeq
<1>2. c \in [1 .. 0 -> Int] /\ 1 .. 0 = {}
  BY <1>1
<1> HIDE DEF c
<1>3. SumOf(c) = 0
  BY <1>2, SumOfZeros
<1> QED
  BY <1>3 DEF TotalBegins, c

(* One more slice: what ran before stays, and the new one begins now.      *)
OneMoreRun(log, t, x, more) ==
  /\ Len(more) = Len(log) + 1
  /\ \A i \in 1 .. Len(log) : more[i] = log[i]
  /\ more[Len(log) + 1].task = t /\ more[Len(log) + 1].slice = x
  /\ TotalBegins(more) = TotalBegins(log) + Now(log)

LEMMA TotalBeginsGrows ==
  ASSUME NEW T, NEW log \in Logs(T), NEW t \in T, NEW x \in Nat,
         NEW more, more = Append(log, [task |-> t, slice |-> x])
  PROVE  Len(log) \in Nat /\ OneMoreRun(log, t, x, more)
<1> DEFINE n == Len(log)
           e == [task |-> t, slice |-> x]
           R == [task : T, slice : Nat]
           a == SliceLengths(log)
           a2 == SliceLengths(more)
           c == [i \in 1 .. n |-> Begins(log, i)]
           c2 == [i \in 1 .. n + 1 |-> Begins(more, i)]
<1>1. e \in R /\ e.task = t /\ e.slice = x
  OBVIOUS
<1>2. n \in Nat /\ a \in [1 .. n -> Int]
  BY SlicesAreNumbers
<1>3. /\ more \in Seq(R) /\ Len(more) = n + 1 /\ more[n + 1] = e
      /\ \A i \in 1 .. n : more[i] = log[i]
  <2> HIDE DEF e, R
  <2>1. log \in Seq(R)
    BY DEF R, Logs
  <2>2. more = Append(log, e)
    BY DEF e
  <2> QED
    BY <1>1, <2>1, <2>2, AppendProperties
<1>4. a2 \in [1 .. n + 1 -> Int]
  <2> HIDE DEF e, n, a2
  <2>1. more \in Logs(T)
    BY <1>3 DEF Logs
  <2> QED
    BY <1>3, <2>1, SlicesAreNumbers DEF a2
<1>5. \A k \in 1 .. n : a2[k] = a[k]
  BY <1>2, <1>3 DEF SliceLengths
<1>6. Clock(log) = PartialSums(a) /\ Clock(more) = PartialSums(a2)
  BY DEF Clock, SliceLengths
<1>7. \A k \in 0 .. n : Clock(more)[k] = Clock(log)[k] /\ Clock(log)[k] \in Int
  <2> HIDE DEF a, a2, n
  <2>1. n + 1 \in Nat /\ n \in 0 .. n + 1
    BY <1>2
  <2>2. \A k \in 0 .. n : PartialSums(a)[k] = PartialSums(a2)[k]
    BY <1>2, <1>4, <1>5, <2>1, PartialSumsAgree
  <2>3. PartialSums(a) \in [0 .. n -> Int]
    BY <1>2, PartialSumsAre
  <2> QED
    BY <1>6, <2>2, <2>3
<1>8. /\ c \in [1 .. n -> Int] /\ c2 \in [1 .. n + 1 -> Int]
      /\ \A k \in 1 .. n : c2[k] = c[k]
      /\ c2[n + 1] = Now(log)
  <2>1. \A k \in 1 .. n + 1 : k - 1 \in 0 .. n
    BY <1>2
  <2>2. \A k \in 1 .. n + 1 : Begins(more, k) = Clock(log)[k - 1] /\ Begins(more, k) \in Int
    BY <1>7, <2>1 DEF Begins
  <2>3. \A k \in 1 .. n : Begins(log, k) = Clock(log)[k - 1] /\ Begins(log, k) \in Int
    BY <1>2, <1>7 DEF Begins
  <2>4. n + 1 \in 1 .. n + 1 /\ (n + 1) - 1 = n /\ Now(log) = Clock(log)[n]
    BY <1>2 DEF Now
  <2>5. \A k \in 1 .. n : k \in 1 .. n + 1
    BY <1>2
  <2> HIDE DEF n
  <2> QED
    BY <2>2, <2>3, <2>4, <2>5
<1>9. SumOf(c2) = SumOf(c) + Now(log)
  <2> HIDE DEF c, c2, n
  <2> QED
    BY <1>2, <1>8, SumOneMore
<1>10. TotalBegins(log) = SumOf(c) /\ TotalBegins(more) = SumOf(c2)
  BY <1>3 DEF TotalBegins
<1> QED
  BY <1>1, <1>2, <1>3, <1>9, <1>10 DEF OneMoreRun

----------------------------------------------------------------------------
(* The totals of n tasks, of which some have run and some are done *)

TotalResponse(n, log) ==
  SumOf([t \in 1 .. n |-> IF Ran(log, t) THEN Response(log, t) ELSE 0])

TotalTurnaround(n, log, done) ==
  SumOf([t \in 1 .. n |-> IF t \in done THEN Turnaround(log, t) ELSE 0])

LEMMA TotalsAreNat ==
  ASSUME NEW T, NEW log \in Logs(T), NEW n \in Nat, NEW done, \A t \in done : Ran(log, t)
  PROVE  TotalResponse(n, log) \in Nat /\ TotalTurnaround(n, log, done) \in Nat
<1> DEFINE r == [t \in 1 .. n |-> IF Ran(log, t) THEN Response(log, t) ELSE 0]
           s == [t \in 1 .. n |-> IF t \in done THEN Turnaround(log, t) ELSE 0]
<1>1. \A t \in 1 .. n : Ran(log, t) => Response(log, t) \in Nat /\ Turnaround(log, t) \in Nat
  BY TimesOfTimeline
<1>2. r \in [1 .. n -> Nat] /\ s \in [1 .. n -> Nat]
  BY <1>1
<1>3. TotalResponse(n, log) = SumOf(r) /\ TotalTurnaround(n, log, done) = SumOf(s)
  BY DEF TotalResponse, TotalTurnaround
<1> HIDE DEF r, s
<1> QED
  BY <1>2, <1>3, SumIsNat

(* Only the first slice of a task adds to the response times.              *)
LEMMA TotalResponseGrows ==
  ASSUME NEW T, NEW log \in Logs(T), NEW t, NEW x,
         NEW more \in Logs(T), OneMore(log, t, x, more),
         NEW n \in Nat, t \in 1 .. n
  PROVE  TotalResponse(n, more) =
           TotalResponse(n, log) + (IF Ran(log, t) THEN 0 ELSE Now(log))
<1> DEFINE r == [u \in 1 .. n |-> IF Ran(log, u) THEN Response(log, u) ELSE 0]
           s == [u \in 1 .. n |-> IF Ran(more, u) THEN Response(more, u) ELSE 0]
<1>1. /\ \A u : Ran(more, u) <=> (Ran(log, u) \/ u = t)
      /\ \A u : Ran(log, u) => Response(more, u) = Response(log, u)
      /\ ~ Ran(log, t) => Response(more, t) = Now(log)
  BY DEF OneMore
<1>2. r \in [1 .. n -> Nat] /\ r \in [1 .. n -> Int]
  <2>1. \A u \in 1 .. n : Ran(log, u) => Response(log, u) \in Nat
    BY TimesOfTimeline
  <2> QED
    BY <2>1
<1>3. s \in [1 .. n -> Int]
  <2>1. \A u \in 1 .. n : Ran(more, u) => Response(more, u) \in Nat
    BY <1>1, TimesOfTimeline
  <2> QED
    BY <2>1
<1>4. \A u \in 1 .. n : u # t => s[u] = r[u]
  BY <1>1
<1>5. s[t] = r[t] + IF Ran(log, t) THEN 0 ELSE Now(log)
  <2>1. Now(log) \in Nat
    BY TimesOfTimeline
  <2>2. r[t] \in Int /\ (~ Ran(log, t) => r[t] = 0)
    BY <1>2
  <2>3. Ran(log, t) => s[t] = r[t]
    BY <1>1
  <2>4. ~ Ran(log, t) => s[t] = Now(log)
    BY <1>1
  <2> HIDE DEF r, s
  <2> QED
    BY <2>1, <2>2, <2>3, <2>4
<1>6. TotalResponse(n, log) = SumOf(r) /\ TotalResponse(n, more) = SumOf(s)
  BY DEF TotalResponse
<1> HIDE DEF r, s
<1>7. SumOf(s) = SumOf(r) + (s[t] - r[t])
  BY <1>2, <1>3, <1>4, SumChanges
<1>8. SumOf(r) \in Nat
  BY <1>2, SumIsNat
<1>9. r[t] \in Nat /\ Now(log) \in Nat
  BY <1>2, TimesOfTimeline
<1> QED
  BY <1>5, <1>6, <1>7, <1>8, <1>9

(* A slice changes the turnaround of no task that is done, and its end is  *)
(* the turnaround of a task that is done with it.                          *)
LEMMA TotalTurnaroundGrows ==
  ASSUME NEW T, NEW log \in Logs(T), NEW t, NEW x,
         NEW more \in Logs(T), OneMore(log, t, x, more),
         NEW n \in Nat, t \in 1 .. n,
         NEW done, t \notin done, \A u \in done : Ran(log, u)
  PROVE  /\ TotalTurnaround(n, more, done) = TotalTurnaround(n, log, done)
         /\ TotalTurnaround(n, more, done \cup {t}) =
              TotalTurnaround(n, log, done) + Now(more)
<1> DEFINE r == [u \in 1 .. n |-> IF u \in done THEN Turnaround(log, u) ELSE 0]
           q == [u \in 1 .. n |-> IF u \in done THEN Turnaround(more, u) ELSE 0]
           s == [u \in 1 .. n |-> IF u \in done \cup {t} THEN Turnaround(more, u) ELSE 0]
<1>1. /\ \A u : Ran(more, u) <=> (Ran(log, u) \/ u = t)
      /\ \A u : Ran(log, u) /\ u # t => Turnaround(more, u) = Turnaround(log, u)
      /\ Turnaround(more, t) = Now(more)
  BY DEF OneMore
<1>2. r \in [1 .. n -> Nat] /\ r \in [1 .. n -> Int]
  <2>1. \A u \in 1 .. n : Ran(log, u) => Turnaround(log, u) \in Nat
    BY TimesOfTimeline
  <2> QED
    BY <2>1
<1>3. s \in [1 .. n -> Int]
  <2>1. \A u \in 1 .. n : Ran(more, u) => Turnaround(more, u) \in Nat
    BY <1>1, TimesOfTimeline
  <2> QED
    BY <1>1, <2>1
<1>4. q = r
  BY <1>1
<1>5. \A u \in 1 .. n : u # t => s[u] = r[u]
  BY <1>1
<1>6. s[t] = Now(more) /\ r[t] = 0
  BY <1>1
<1>7. /\ TotalTurnaround(n, log, done) = SumOf(r)
      /\ TotalTurnaround(n, more, done) = SumOf(q)
      /\ TotalTurnaround(n, more, done \cup {t}) = SumOf(s)
  BY DEF TotalTurnaround
<1> HIDE DEF r, s, q
<1>8. SumOf(s) = SumOf(r) + (s[t] - r[t])
  BY <1>2, <1>3, <1>5, SumChanges
<1>9. SumOf(r) \in Nat
  BY <1>2, SumIsNat
<1>10. Now(more) \in Nat
  BY <1>1, TimesOfTimeline
<1> QED
  BY <1>4, <1>6, <1>7, <1>8, <1>9, <1>10

(* Before anything ran the totals are 0.                                   *)
LEMMA TotalsOfNothing ==
  ASSUME NEW n \in Nat
  PROVE  TotalResponse(n, << >>) = 0 /\ TotalTurnaround(n, << >>, {}) = 0
<1> DEFINE r == [t \in 1 .. n |-> IF Ran(<< >>, t) THEN Response(<< >>, t) ELSE 0]
           s == [t \in 1 .. n |-> IF t \in {} THEN Turnaround(<< >>, t) ELSE 0]
<1>1. r \in [1 .. n -> Int] /\ \A k \in 1 .. n : r[k] = 0
  BY EmptyTimeline
<1>2. s \in [1 .. n -> Int] /\ \A k \in 1 .. n : s[k] = 0
  OBVIOUS
<1>3. TotalResponse(n, << >>) = SumOf(r) /\ TotalTurnaround(n, << >>, {}) = SumOf(s)
  BY DEF TotalResponse, TotalTurnaround
<1> HIDE DEF r, s
<1> QED
  BY <1>1, <1>2, <1>3, SumOfZeros

(* In the end they are the sums over all tasks, and what the tasks waited  *)
(* is what the turnaround times exceed the bursts by.                      *)
AllTotals(n, log, bursts) ==
  /\ TotalResponse(n, log) = SumOf([t \in 1 .. n |-> Response(log, t)])
  /\ TotalTurnaround(n, log, 1 .. n) = SumOf([t \in 1 .. n |-> Turnaround(log, t)])
  /\ SumOf([t \in 1 .. n |-> Turnaround(log, t) - bursts[t]]) =
       TotalTurnaround(n, log, 1 .. n) - SumOf(bursts)
  /\ SumOf(bursts) \in Nat
  /\ TotalTurnaround(n, log, 1 .. n) - SumOf(bursts) \in Nat

LEMMA TotalsInTheEnd ==
  ASSUME NEW T, NEW log \in Logs(T), NEW n \in Nat,
         NEW bursts \in [1 .. n -> Nat],
         \A t \in 1 .. n : Ran(log, t) /\ bursts[t] <= Turnaround(log, t)
  PROVE  AllTotals(n, log, bursts)
<1> DEFINE s == [t \in 1 .. n |-> Turnaround(log, t)]
           w == [t \in 1 .. n |-> Turnaround(log, t) - bursts[t]]
<1>1. TotalResponse(n, log) = SumOf([t \in 1 .. n |-> Response(log, t)])
  BY DEF TotalResponse
<1>2. TotalTurnaround(n, log, 1 .. n) = SumOf(s)
  <2>1. [t \in 1 .. n |-> IF t \in 1 .. n THEN Turnaround(log, t) ELSE 0] = s
    OBVIOUS
  <2> QED
    BY <2>1 DEF TotalTurnaround
<1>3. \A t \in 1 .. n : Turnaround(log, t) \in Nat /\ bursts[t] \in Nat
  BY TimesOfTimeline
<1>4. s \in [1 .. n -> Int] /\ bursts \in [1 .. n -> Int]
  BY <1>3
<1>5. w \in [1 .. n -> Nat] /\ w \in [1 .. n -> Int]
  BY <1>3
<1>6. \A t \in 1 .. n : s[t] = bursts[t] + w[t]
  BY <1>3
<1> HIDE DEF s, w
<1>7. SumOf(s) = SumOf(bursts) + SumOf(w)
  BY <1>4, <1>5, <1>6, SumAdds
<1>8. SumOf(w) \in Nat /\ SumOf(bursts) \in Nat
  BY <1>5, SumIsNat
<1> QED
  BY <1>1, <1>2, <1>7, <1>8 DEF AllTotals, s, w

(* The bursts that a file asks for, when one more line is read.            *)
LEMMA DemandGrows ==
  ASSUME NEW S, NEW lines \in Seq(S), NEW line \in S, NEW more, more = Append(lines, line)
  PROVE  [t \in DOMAIN more |-> more[t].burst] =
           Append([t \in DOMAIN lines |-> lines[t].burst], line.burst)
<1> DEFINE d == [t \in DOMAIN lines |-> lines[t].burst]
           e == [t \in DOMAIN more |-> more[t].burst]
           b == line.burst
           V == {d[t] : t \in DOMAIN lines} \cup {b}
           n == Len(lines)
<1>1. n \in Nat /\ DOMAIN lines = 1 .. n
  BY LenProperties
<1>2. DOMAIN more = 1 .. n + 1 /\ more[n + 1] = line /\ \A t \in 1 .. n : more[t] = lines[t]
  BY AppendProperties, LenProperties
<1>3. d \in [1 .. n -> V] /\ b \in V
  BY <1>1
<1>4. e = [t \in 1 .. n + 1 |-> IF t = n + 1 THEN b ELSE d[t]]
  BY <1>1, <1>2
<1> HIDE DEF d, e, b, V, n
<1>5. d \in Seq(V)
  BY <1>1, <1>3, SeqDef
<1>6. Len(d) = n
  BY <1>1, <1>3, <1>5, LenProperties
<1>7. /\ Append(d, b) \in Seq(V) /\ Len(Append(d, b)) = n + 1
      /\ \A t \in 1 .. n : Append(d, b)[t] = d[t]
      /\ Append(d, b)[n + 1] = b
  BY <1>3, <1>5, <1>6, AppendProperties
<1> DEFINE a == Append(d, b)
<1>8. DOMAIN a = 1 .. n + 1 /\ a = [t \in 1 .. n + 1 |-> a[t]]
  BY <1>7, LenProperties
<1>9. \A t \in 1 .. n + 1 : a[t] = e[t]
  BY <1>1, <1>4, <1>7
<1>10. a = e
  BY <1>4, <1>8, <1>9
<1> QED
  BY <1>10 DEF d, e, b
=============================================================================
