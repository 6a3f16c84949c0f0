-------------------------- MODULE TaskLists_proofs --------------------------
(***************************************************************************)
(* The linked task records implement the lists of TaskQueues, for every    *)
(* set of tasks and priorities.                                            *)
(***************************************************************************)
EXTENDS TaskLists, FiniteSetTheorems, SequenceTheorems, WellFoundedInduction, TLAPS

(* q is the chain of records from t along the pointers nx up to NULL. *)
Chain(nx, q, t) ==
    /\ Len(q) = 0 => t = NULL
    /\ Len(q) > 0 => q[1] = t /\ nx[q[Len(q)]] = NULL
    /\ \A i \in 1..(Len(q) - 1) : nx[q[i]] = q[i + 1]

(* A set of natural numbers has a least one. *)
LEMMA LeastOf == ASSUME NEW S, S \in SUBSET Nat, S # {} PROVE \E m \in S : \A y \in S : m <= y
  <1>1. ASSUME NEW x \in Nat, NEW y \in Nat, x < y PROVE <<x, y>> \in OpToRel(<, Nat)
    BY <1>1 DEF OpToRel
  <1>2. PICK R : IsWellFoundedOn(R, Nat) /\ \A x, y \in Nat : x < y => <<x, y>> \in R
    BY <1>1, NatLessThanWellFounded, Zenon
  <1>3. PICK m \in S : \A y \in S : ~(<<y, m>> \in R)
    <2>1. IsWellFoundedOn(R, Nat) /\ S \subseteq Nat /\ S # {}
      BY <1>2, Zenon
    <2>2. QED
      BY ONLY <2>1, WFMin
  <1>4. ASSUME NEW y \in S PROVE m <= y
    <2>1. m \in Nat /\ y \in Nat
      OBVIOUS
    <2>2. ~(y < m)
      BY <1>2, <1>3, <2>1, Zenon
    <2>3. QED
      BY <2>1, <2>2
  <1>5. QED
    BY <1>4

(* The walk as a function of the number of steps. *)
IsWalk(f, nx, t, N) == f = [n \in 0..N |-> IF n = 0 THEN <<>> ELSE Onward(nx, t, f[n - 1])]

(* It exists: were there a least
   number of steps without one, the function for one step fewer would extend. *)
LEMMA WalkExists ==
    ASSUME NEW nx, NEW t, NEW N \in Nat
    PROVE  \E f : IsWalk(f, nx, t, N)
  <1> DEFINE Is(f, m) == f = [n \in 0..m |-> IF n = 0 THEN <<>> ELSE Onward(nx, t, f[n - 1])]
             T == {m \in Nat : ~\E f : Is(f, m)}
  <1>1. SUFFICES ASSUME T # {} PROVE FALSE
    BY DEF IsWalk
  <1>2. PICK m \in T : \A y \in T : m <= y
    BY <1>1, LeastOf
  <1>3. m # 0
    <2>1. ASSUME m = 0 PROVE FALSE
      <3> DEFINE g == [n \in 0..0 |-> <<>>]
      <3>1. Is(g, 0)
        OBVIOUS
      <3> QED
        BY <2>1, <3>1
    <2> QED
      BY <2>1
  <1>4. PICK f : Is(f, m - 1)
    <2>1. m - 1 \in Nat /\ ~(m <= m - 1)
      BY <1>3
    <2> QED
      BY <1>2, <2>1
  <1> DEFINE g == [n \in 0..m |-> IF n = 0 THEN <<>> ELSE Onward(nx, t, f[n - 1])]
  <1>5. ASSUME NEW n \in 1..m PROVE g[n - 1] = f[n - 1]
    BY <1>3, <1>4
  <1>6. Is(g, m)
    <2>1. ASSUME NEW n \in 0..m
          PROVE  g[n] = IF n = 0 THEN <<>> ELSE Onward(nx, t, g[n - 1])
      <3>1. g[n] = IF n = 0 THEN <<>> ELSE Onward(nx, t, f[n - 1])
        OBVIOUS
      <3>2. CASE n = 0
        BY <3>1, <3>2
      <3>3. CASE n # 0
        <4>1. n \in 1..m
          BY <3>3
        <4>2. g[n - 1] = f[n - 1]
          BY <4>1, <1>5
        <4> HIDE DEF g
        <4> QED
          BY <3>1, <3>3, <4>2
      <3> QED
        BY <3>2, <3>3
    <2> HIDE DEF g
    <2> QED
      BY <2>1 DEF g
  <1> QED
    BY <1>6

(* What ListFrom is built from. *)
LEMMA WalkIs ==
    ASSUME NEW nx, NEW t, Cardinality(Tasks) \in Nat
    PROVE  \E f : /\ ListFrom(nx, t) = f[Cardinality(Tasks)] /\ f[0] = <<>>
                  /\ \A n \in 1..Cardinality(Tasks) : f[n] = Onward(nx, t, f[n - 1])
  <1> DEFINE N == Cardinality(Tasks)
  <1>0. N \in Nat
    OBVIOUS
  <1>1. PICK f : IsWalk(f, nx, t, N)
    BY <1>0, WalkExists
  <1>2. PICK g : /\ g = [n \in 0..N |-> IF n = 0 THEN <<>> ELSE Onward(nx, t, g[n - 1])]
                 /\ ListFrom(nx, t) = g[N]
    BY <1>1 DEF ListFrom, IsWalk
  <1>3. g[0] = <<>>
    BY <1>2
  <1>4. \A n \in 1..N : g[n] = Onward(nx, t, g[n - 1])
    BY <1>2
  <1> QED
    BY <1>2, <1>3, <1>4

(* The walk along a chain finds the chain: after n steps its first n records. *)
LEMMA ListIs ==
    ASSUME NEW nx, NEW t, NEW q \in Seq(Tasks), Chain(nx, q, t), Len(q) <= Cardinality(Tasks)
    PROVE  ListFrom(nx, t) = q
  <1> DEFINE N == Cardinality(Tasks)
             L == Len(q)
             Part(n) == IF n <= L THEN SubSeq(q, 1, n) ELSE q
  <1>1. N \in Nat /\ L \in Nat /\ L <= N
    BY ListTasksAssumption, FS_CardinalityType
  <1>2. PICK f : /\ ListFrom(nx, t) = f[N] /\ f[0] = <<>>
                 /\ \A n \in 1..N : f[n] = Onward(nx, t, f[n - 1])
    BY <1>1, WalkIs
  <1>3. \A i \in 1..L : q[i] \in Tasks /\ q[i] # NULL
    BY ListTasksAssumption
  <1>4. f[0] = Part(0)
    <2>1. SubSeq(q, 1, 0) = <<>>
      BY SubSeqEmpty, 1 \in Int, 0 \in Int
    <2> QED
      BY <1>1, <1>2, <2>1
  <1>5. ASSUME NEW n \in 1..N, f[n - 1] = Part(n - 1) PROVE f[n] = Part(n)
    <2>1. CASE n <= L
      <3> DEFINE p == SubSeq(q, 1, n - 1)
      <3>1. /\ p \in Seq(Tasks) /\ Len(p) = n - 1 /\ \A i \in 1..(n - 1) : p[i] = q[i]
            /\ n \in 1..L /\ n - 1 <= L
        BY <1>1, <2>1
      <3>2. f[n - 1] = p
        BY <1>1, <1>5, <3>1
      <3>3. Append(p, q[n]) = SubSeq(q, 1, n)
        BY <1>1, <1>3, <3>1
      <3> HIDE DEF p
      <3>4. (IF p = <<>> THEN t ELSE nx[p[Len(p)]]) = q[n]
        <4>1. CASE n = 1
          <5>1. p = <<>>
            BY <3>1, <4>1
          <5>2. q[1] = t
            BY <1>1, <2>1, <4>1 DEF Chain
          <5> QED
            BY <4>1, <5>1, <5>2
        <4>2. CASE n # 1
          <5>1. p # <<>> /\ n - 1 \in 1..(L - 1) /\ p[Len(p)] = q[n - 1] /\ (n - 1) + 1 = n
            BY <1>1, <3>1, <4>2
          <5>2. nx[q[n - 1]] = q[n]
            BY <5>1 DEF Chain
          <5> QED
            BY <5>1, <5>2
        <4> QED
          BY <4>1, <4>2
      <3>5. f[n] = Append(p, q[n])
        <4>1. f[n] = Onward(nx, t, p)
          BY <1>2, <3>2
        <4>2. q[n] # NULL
          BY <1>3, <3>1
        <4> QED
          BY <3>4, <4>1, <4>2 DEF Onward
      <3> QED
        BY <2>1, <3>3, <3>5
    <2>2. CASE ~(n <= L)
      <3>1. f[n - 1] = q
        <4>1. CASE n - 1 <= L
          <5>1. n - 1 = L
            BY <1>1, <2>2, <4>1
          <5>2. SubSeq(q, 1, L) = q
            BY SubSeqFull
          <5> QED
            BY <1>5, <4>1, <5>1, <5>2
        <4>2. CASE ~(n - 1 <= L)
          BY <1>5, <4>2
        <4> QED
          BY <4>1, <4>2
      <3>2. (IF q = <<>> THEN t ELSE nx[q[Len(q)]]) = NULL
        BY <1>1 DEF Chain
      <3>3. f[n] = q
        BY <1>2, <3>1, <3>2 DEF Onward
      <3> QED
        BY <2>2, <3>3
    <2> QED
      BY <2>1, <2>2
  <1> DEFINE T == {n \in 0..N : f[n] # Part(n)}
  <1>6. T = {}
    <2>1. SUFFICES ASSUME T # {} PROVE FALSE
      OBVIOUS
    <2>2. T \in SUBSET Nat
      BY <1>1
    <2> HIDE DEF T
    <2>3. PICK m \in T : \A y \in T : m <= y
      BY <2>1, <2>2, LeastOf
    <2>4. m \in 0..N /\ f[m] # Part(m)
      BY <2>3 DEF T
    <2> HIDE DEF Part
    <2>5. m # 0
      BY <1>4, <2>4
    <2>6. m \in 1..N /\ m - 1 \in 0..N /\ ~(m <= m - 1)
      BY <1>1, <2>4, <2>5
    <2>7. f[m - 1] = Part(m - 1)
      BY <2>3, <2>6 DEF T
    <2> QED
      BY <1>5, <2>4, <2>6, <2>7
  <1>7. f[N] = Part(N)
    <2>1. N \in 0..N
      BY <1>1
    <2> HIDE DEF Part
    <2> QED
      BY <1>6, <2>1
  <1>8. Part(N) = q
    <2>1. CASE N = L
      BY <1>1, <2>1, SubSeqFull
    <2>2. CASE N # L
      BY <1>1, <2>2
    <2> QED
      BY <2>1, <2>2
  <1> QED
    BY <1>2, <1>7, <1>8

(* A chain does not depend on the pointers of other records. *)
LEMMA ChainKept ==
    ASSUME NEW nx, NEW my, NEW t, NEW q \in Seq(Tasks), Chain(nx, q, t),
           \A i \in 1..Len(q) : my[q[i]] = nx[q[i]]
    PROVE  Chain(my, q, t)
  <1>1. Len(q) \in Nat
    OBVIOUS
  <1>2. Len(q) > 0 => nx[q[Len(q)]] = my[q[Len(q)]]
    BY <1>1
  <1>3. \A i \in 1..(Len(q) - 1) : my[q[i]] = nx[q[i]]
    BY <1>1
  <1> QED
    BY <1>1, <1>2, <1>3 DEF Chain

(* The lists q hang on the heads hd along nx: no record twice, all of them
   allocated, and the shared tail is the last record of one list. *)
NoneTwice(q) ==
    \A k, l \in Levels : \A i \in 1..Len(q[k]), j \in 1..Len(q[l]) :
        q[k][i] = q[l][j] => k = l /\ i = j
Ends(q, tl) == \E k \in Levels : Len(q[k]) > 0 /\ q[k][Len(q[k])] = tl
Hang(q, nx, hd, tl, al) ==
    /\ q \in [Levels -> Seq(Tasks)] /\ NoneTwice(q)
    /\ \A l \in Levels : Chain(nx, q[l], hd[l])
    /\ \A l \in Levels : \A i \in 1..Len(q[l]) : q[l][i] \in al
    /\ tl # NULL => Ends(q, tl)
    /\ tl = NULL => Len(q["high"]) = 0

LShape ==
    /\ DOMAIN head = Levels /\ DOMAIN next = Tasks
    /\ task_queue_tail \in Tasks \cup {NULL} /\ allocated \in SUBSET Tasks

LInv == LShape /\ \E q : Hang(q, next, head, task_queue_tail, allocated)

(* Such lists are the ones the walks find. *)
LEMMA ListsAre ==
    ASSUME NEW q, NEW nx, NEW hd, NEW tl, NEW al, Hang(q, nx, hd, tl, al)
    PROVE  [l \in Levels |-> ListFrom(nx, hd[l])] = q
  <1>1. ASSUME NEW l \in Levels PROVE ListFrom(nx, hd[l]) = q[l]
    <2>1. q[l] \in Seq(Tasks) /\ Chain(nx, q[l], hd[l])
      BY DEF Hang
    <2>2. Len(q[l]) <= Cardinality(Tasks)
      <3> DEFINE I == 1..Len(q[l])
                 f == [i \in I |-> q[l][i]]
      <3>1. f \in Injection(I, Tasks)
        <4>1. f \in [I -> Tasks]
          BY <2>1
        <4>2. \A i, j \in I : f[i] = f[j] => i = j
          BY DEF Hang, NoneTwice
        <4> QED
          BY <4>1, <4>2 DEF Injection, IsInjective
      <3>2. Cardinality(I) <= Cardinality(Tasks)
        <4> HIDE DEF f, I
        <4> QED
          BY <3>1, FS_Injection, ListTasksAssumption
      <3>3. Len(q[l]) \in Nat
        BY <2>1
      <3>4. Cardinality(I) = Len(q[l])
        <4>1. Cardinality(1..Len(q[l])) = IF 1 > Len(q[l]) THEN 0 ELSE Len(q[l]) - 1 + 1
          BY <3>3, FS_Interval, 1 \in Int
        <4> QED
          BY <3>3, <4>1
      <3> QED
        BY <3>2, <3>4
    <2> QED
      BY <2>1, <2>2, ListIs
  <1>2. q \in [Levels -> Seq(Tasks)]
    BY DEF Hang
  <1> QED
    BY <1>1, <1>2

(* A head is NULL when its list is empty. *)
LEMMA HeadNull ==
    ASSUME NEW nx, NEW t, NEW q \in Seq(Tasks), Chain(nx, q, t)
    PROVE  /\ t = NULL <=> q = <<>>
           /\ Len(q) = 0 <=> q = <<>>
           /\ q # <<>> => t = q[1] /\ t = Head(q) /\ t \in Tasks /\ Len(q) > 0
  <1>1. Len(q) \in Nat /\ (Len(q) = 0 <=> q = <<>>)
    OBVIOUS
  <1>2. CASE q = <<>>
    BY <1>1, <1>2 DEF Chain
  <1>3. CASE q # <<>>
    <2>1. Len(q) > 0 /\ q[1] = t /\ q[1] \in Tasks /\ Head(q) = q[1]
      BY <1>1, <1>3 DEF Chain
    <2> QED
      BY <1>1, <1>3, <2>1, ListTasksAssumption
  <1> QED
    BY <1>2, <1>3

(* A list for level k, made of its own records and new ones. *)
Fits(q, al, k, z) ==
    /\ q \in [Levels -> Seq(Tasks)] /\ NoneTwice(q)
    /\ \A l \in Levels : \A i \in 1..Len(q[l]) : q[l][i] \in al
    /\ k \in Levels /\ z \in Seq(Tasks)
    /\ \A i, j \in 1..Len(z) : z[i] = z[j] => i = j
    /\ \A i \in 1..Len(z) : z[i] \in al => \E j \in 1..Len(q[k]) : z[i] = q[k][j]

(* It may replace the list of that level. *)
LEMMA Replaced ==
    ASSUME NEW q, NEW al, NEW k, NEW z, Fits(q, al, k, z)
    PROVE  LET r == [q EXCEPT ![k] = z]
           IN  r \in [Levels -> Seq(Tasks)] /\ NoneTwice(r) /\ r[k] = z /\ \A l \in Levels \ {k} : r[l] = q[l]
  <1> DEFINE r == [q EXCEPT ![k] = z]
  <1>1. r \in [Levels -> Seq(Tasks)] /\ r[k] = z /\ \A l \in Levels \ {k} : r[l] = q[l]
    BY DEF Fits
  <1> HIDE DEF r
  <1>2. ASSUME NEW l \in Levels, l # k, NEW i \in 1..Len(z), NEW j \in 1..Len(q[l]) PROVE z[i] # q[l][j]
    BY <1>2 DEF Fits, NoneTwice
  <1>3. ASSUME NEW m \in Levels, NEW l \in Levels, NEW i \in 1..Len(r[m]), NEW j \in 1..Len(r[l]), r[m][i] = r[l][j]
        PROVE  m = l /\ i = j
    <2>1. CASE m = k /\ l = k
      BY <1>1, <1>3, <2>1 DEF Fits
    <2>2. CASE m = k /\ l # k
      BY <1>1, <1>2, <1>3, <2>2
    <2>3. CASE m # k /\ l = k
      BY <1>1, <1>2, <1>3, <2>3
    <2>4. CASE m # k /\ l # k
      <3>1. r[m] = q[m] /\ r[l] = q[l]
        BY <1>1, <2>4
      <3> QED
        BY <1>3, <3>1 DEF Fits, NoneTwice
    <2> QED
      BY <2>1, <2>2, <2>3, <2>4
  <1>4. NoneTwice(r)
    BY <1>3 DEF NoneTwice
  <1> QED
    BY <1>1, <1>4 DEF r

(* A task on an empty list. *)
LEMMA HangFirst ==
    ASSUME NEW q, NEW nx, NEW hd, NEW tl, NEW al, Hang(q, nx, hd, tl, al), al \in SUBSET Tasks,
           NEW t \in Tasks \ al, NEW k \in Levels, hd[k] = NULL, DOMAIN nx = Tasks, DOMAIN hd = Levels
    PROVE  /\ q[k] = <<>>
           /\ Hang([q EXCEPT ![k] = <<t>>], [nx EXCEPT ![t] = NULL], [hd EXCEPT ![k] = t], t, al \cup {t})
  <1> DEFINE z == <<t>>
             r == [q EXCEPT ![k] = z]
             my == [nx EXCEPT ![t] = NULL]
             md == [hd EXCEPT ![k] = t]
  <1>1. /\ q \in [Levels -> Seq(Tasks)] /\ NoneTwice(q)
        /\ \A l \in Levels : Chain(nx, q[l], hd[l])
        /\ \A l \in Levels : \A i \in 1..Len(q[l]) : q[l][i] \in al
    BY DEF Hang
  <1>2. q[k] = <<>>
    BY <1>1, HeadNull
  <1>3. z \in Seq(Tasks) /\ Len(z) = 1 /\ z[1] = t /\ t \notin al
    OBVIOUS
  <1>4. /\ my[t] = NULL /\ \A x \in Tasks : x # t => my[x] = nx[x]
        /\ md[k] = t /\ \A l \in Levels : l # k => md[l] = hd[l]
    OBVIOUS
  <1> HIDE DEF z, my, md
  <1>5. r \in [Levels -> Seq(Tasks)] /\ NoneTwice(r) /\ r[k] = z /\ \A l \in Levels \ {k} : r[l] = q[l]
    <2>1. \A i, j \in 1..Len(z) : z[i] = z[j] => i = j
      BY <1>3
    <2>2. \A i \in 1..Len(z) : z[i] \notin al
      BY <1>3
    <2>3. Fits(q, al, k, z)
      BY <1>1, <1>3, <2>1, <2>2 DEF Fits
    <2> QED
      BY <2>3, Replaced
  <1> HIDE DEF r
  <1>6. ASSUME NEW l \in Levels PROVE Chain(my, r[l], md[l]) /\ \A i \in 1..Len(r[l]) : r[l][i] \in al \cup {t}
    <2>1. CASE l = k
      <3>1. Chain(my, z, t)
        BY <1>3, <1>4 DEF Chain
      <3>2. \A i \in 1..Len(z) : z[i] \in al \cup {t}
        BY <1>3
      <3> QED
        BY <1>4, <1>5, <2>1, <3>1, <3>2
    <2>2. CASE l # k
      <3>1. r[l] = q[l] /\ md[l] = hd[l] /\ q[l] \in Seq(Tasks) /\ Chain(nx, q[l], hd[l])
        BY <1>1, <1>4, <1>5, <2>2
      <3>2. \A i \in 1..Len(q[l]) : q[l][i] \in Tasks /\ q[l][i] \in al
        BY <1>1, <3>1
      <3>3. \A i \in 1..Len(q[l]) : my[q[l][i]] = nx[q[l][i]]
        BY <1>3, <1>4, <3>2
      <3>4. Chain(my, q[l], hd[l])
        BY <3>1, <3>3, ChainKept
      <3> QED
        BY <3>1, <3>2, <3>4
    <2> QED
      BY <2>1, <2>2
  <1>7. Ends(r, t) /\ t # NULL
    <2>1. Len(r[k]) > 0 /\ r[k][Len(r[k])] = t
      <3>1. r[k] = z
        BY <1>5
      <3>2. Len(z) > 0 /\ z[Len(z)] = t
        BY <1>3
      <3> QED
        BY <3>1, <3>2
    <2> QED
      BY <2>1, ListTasksAssumption DEF Ends
  <1>8. Hang(r, my, md, t, al \cup {t})
    BY <1>5, <1>6, <1>7 DEF Hang
  <1> QED
    BY <1>2, <1>8 DEF r, z, my, md

(* A task behind the tail, on the list that ends there. *)
LEMMA HangLast ==
    ASSUME NEW q, NEW nx, NEW hd, NEW tl, NEW al, Hang(q, nx, hd, tl, al), al \in SUBSET Tasks,
           NEW t \in Tasks \ al, DOMAIN nx = Tasks,
           NEW k \in Levels, Len(q[k]) > 0, q[k][Len(q[k])] = tl
    PROVE  Hang([q EXCEPT ![k] = Append(q[k], t)], [nx EXCEPT ![t] = NULL, ![tl] = t], hd, t, al \cup {t})
  <1> DEFINE n == Len(q[k])
             z == Append(q[k], t)
             r == [q EXCEPT ![k] = z]
             my == [nx EXCEPT ![t] = NULL, ![tl] = t]
  <1>1. /\ q \in [Levels -> Seq(Tasks)] /\ NoneTwice(q)
        /\ \A l \in Levels : Chain(nx, q[l], hd[l])
        /\ \A l \in Levels : \A i \in 1..Len(q[l]) : q[l][i] \in al
    BY DEF Hang
  <1>2. q[k] \in Seq(Tasks) /\ n \in Nat /\ n > 0 /\ n \in 1..n /\ tl \in al /\ tl # t /\ tl \in Tasks
    BY <1>1
  <1>3. /\ z \in Seq(Tasks) /\ Len(z) = n + 1 /\ z[n + 1] = t /\ t \notin al
        /\ \A i \in 1..n : z[i] = q[k][i]
    BY <1>2
  <1>4. /\ my[t] = NULL /\ my[tl] = t /\ \A x \in Tasks : x # t /\ x # tl => my[x] = nx[x]
    BY <1>2
  <1> HIDE DEF z, my
  <1>5. \A i \in 1..Len(z) : i \in 1..n \/ i = n + 1
    BY <1>2, <1>3
  <1>6. r \in [Levels -> Seq(Tasks)] /\ NoneTwice(r) /\ r[k] = z /\ \A l \in Levels \ {k} : r[l] = q[l]
    <2>1. ASSUME NEW i \in 1..Len(z), NEW j \in 1..Len(z), z[i] = z[j] PROVE i = j
      <3>1. CASE i \in 1..n /\ j \in 1..n
        BY <1>1, <1>3, <2>1, <3>1 DEF NoneTwice
      <3>2. CASE i = n + 1 /\ j = n + 1
        BY <3>2
      <3>3. CASE i \in 1..n /\ j = n + 1
        BY <1>1, <1>3, <2>1, <3>3
      <3>4. CASE i = n + 1 /\ j \in 1..n
        BY <1>1, <1>3, <2>1, <3>4
      <3> QED
        BY <1>5, <3>1, <3>2, <3>3, <3>4
    <2>2. ASSUME NEW i \in 1..Len(z), z[i] \in al PROVE \E j \in 1..n : z[i] = q[k][j]
      <3>1. i \in 1..n
        BY <1>3, <1>5, <2>2
      <3> QED
        BY <1>3, <3>1
    <2>3. Fits(q, al, k, z)
      BY <1>1, <1>3, <2>1, <2>2 DEF Fits
    <2> QED
      BY <2>3, Replaced
  <1> HIDE DEF r
  <1>7. ASSUME NEW l \in Levels PROVE Chain(my, r[l], hd[l]) /\ \A i \in 1..Len(r[l]) : r[l][i] \in al \cup {t}
    <2>1. CASE l = k
      <3>1. Chain(nx, q[k], hd[k])
        BY <1>1
      <3>2. z[1] = hd[k]
        BY <1>2, <1>3, <3>1 DEF Chain
      <3>3. ASSUME NEW i \in 1..(Len(z) - 1) PROVE my[z[i]] = z[i + 1]
        <4>1. i \in 1..n /\ z[i] = q[k][i] /\ q[k][i] \in al /\ q[k][i] \in Tasks
          BY <1>1, <1>2, <1>3
        <4>2. CASE i = n
          BY <1>3, <1>4, <4>1, <4>2
        <4>3. CASE i # n
          <5>1. i \in 1..(n - 1) /\ i + 1 \in 1..n
            BY <1>2, <4>1, <4>3
          <5>2. q[k][i] # tl
            BY <1>1, <1>2, <4>1, <4>3 DEF NoneTwice
          <5>3. nx[q[k][i]] = q[k][i + 1]
            BY <3>1, <5>1 DEF Chain
          <5>4. my[q[k][i]] = nx[q[k][i]]
            BY <1>3, <1>4, <4>1, <5>2
          <5> QED
            BY <1>3, <4>1, <5>1, <5>3, <5>4
        <4> QED
          BY <4>2, <4>3
      <3>4. Chain(my, z, hd[k])
        BY <1>2, <1>3, <1>4, <3>2, <3>3 DEF Chain
      <3>5. \A i \in 1..Len(z) : z[i] \in al \cup {t}
        BY <1>1, <1>3, <1>5
      <3> QED
        BY <1>6, <2>1, <3>4, <3>5
    <2>2. CASE l # k
      <3>1. r[l] = q[l] /\ q[l] \in Seq(Tasks) /\ Chain(nx, q[l], hd[l])
        BY <1>1, <1>6, <2>2
      <3>2. \A i \in 1..Len(q[l]) : q[l][i] \in Tasks /\ q[l][i] \in al
        BY <1>1, <3>1
      <3>3. \A i \in 1..Len(q[l]) : q[l][i] # tl
        BY <1>1, <1>2, <2>2 DEF NoneTwice
      <3>4. \A i \in 1..Len(q[l]) : my[q[l][i]] = nx[q[l][i]]
        BY <1>3, <1>4, <3>2, <3>3
      <3>5. Chain(my, q[l], hd[l])
        BY <3>1, <3>4, ChainKept
      <3> QED
        BY <3>1, <3>2, <3>5
    <2> QED
      BY <2>1, <2>2
  <1>8. Ends(r, t) /\ t # NULL
    BY <1>2, <1>3, <1>6, ListTasksAssumption DEF Ends
  <1>9. Hang(r, my, hd, t, al \cup {t})
    BY <1>6, <1>7, <1>8 DEF Hang
  <1> QED
    BY <1>9 DEF r, z, my

(* An urgent task in front of the high list: when the tail is NULL that list
   is empty, so the new tail is the last record of it. *)
LEMMA HangUrgent ==
    ASSUME NEW q, NEW nx, NEW hd, NEW tl, NEW al, Hang(q, nx, hd, tl, al), al \in SUBSET Tasks,
           NEW t \in Tasks \ al, DOMAIN nx = Tasks, DOMAIN hd = Levels
    PROVE  Hang([q EXCEPT !["high"] = <<t>> \o q["high"]], [nx EXCEPT ![t] = hd["high"]],
                [hd EXCEPT !["high"] = t], IF tl = NULL THEN t ELSE tl, al \cup {t})
  <1> DEFINE p == q["high"]
             n == Len(p)
             z == <<t>> \o p
             r == [q EXCEPT !["high"] = z]
             my == [nx EXCEPT ![t] = hd["high"]]
             md == [hd EXCEPT !["high"] = t]
             te == IF tl = NULL THEN t ELSE tl
  <1>0. "high" \in Levels
    BY DEF Levels
  <1>1. /\ q \in [Levels -> Seq(Tasks)] /\ NoneTwice(q)
        /\ \A l \in Levels : Chain(nx, q[l], hd[l])
        /\ \A l \in Levels : \A i \in 1..Len(q[l]) : q[l][i] \in al
    BY DEF Hang
  <1>2. p \in Seq(Tasks) /\ n \in Nat /\ Chain(nx, p, hd["high"])
    BY <1>0, <1>1
  <1>3. /\ z \in Seq(Tasks) /\ Len(z) = n + 1 /\ z[1] = t /\ t \notin al
        /\ \A i \in 1..n : z[i + 1] = p[i]
    BY <1>2
  <1>4. /\ my[t] = hd["high"] /\ \A x \in Tasks : x # t => my[x] = nx[x]
        /\ md["high"] = t /\ \A l \in Levels : l # "high" => md[l] = hd[l]
    BY <1>0
  <1> HIDE DEF z, my, md
  <1>5. \A i \in 1..Len(z) : i = 1 \/ (i # 1 /\ i - 1 \in 1..n /\ z[i] = p[i - 1])
    <2>1. ASSUME NEW i \in 1..Len(z), i # 1 PROVE i - 1 \in 1..n /\ z[i] = p[i - 1]
      <3>1. i - 1 \in 1..n /\ (i - 1) + 1 = i
        BY <1>2, <1>3, <2>1
      <3> QED
        BY <1>3, <3>1
    <2> QED
      BY <2>1
  <1>6. \A i, j \in 1..n : p[i] = p[j] => i = j
    BY <1>0, <1>1 DEF NoneTwice
  <1>7. \A i \in 1..n : p[i] \in al /\ p[i] \in Tasks /\ p[i] # t
    BY <1>0, <1>1, <1>2, <1>3
  <1>8. r \in [Levels -> Seq(Tasks)] /\ NoneTwice(r) /\ r["high"] = z /\ \A l \in Levels \ {"high"} : r[l] = q[l]
    <2>1. ASSUME NEW i \in 1..Len(z), NEW j \in 1..Len(z), z[i] = z[j] PROVE i = j
      <3>1. CASE i = 1 /\ j = 1
        BY <3>1
      <3>2. CASE i = 1 /\ j # 1
        BY <1>3, <1>5, <1>7, <2>1, <3>2
      <3>3. CASE i # 1 /\ j = 1
        BY <1>3, <1>5, <1>7, <2>1, <3>3
      <3>4. CASE i # 1 /\ j # 1
        <4>1. i - 1 \in 1..n /\ j - 1 \in 1..n /\ p[i - 1] = p[j - 1]
          BY <1>5, <2>1, <3>4
        <4>2. i - 1 = j - 1
          BY <1>6, <4>1
        <4> QED
          BY <4>2
      <3> QED
        BY <3>1, <3>2, <3>3, <3>4
    <2>2. ASSUME NEW i \in 1..Len(z), z[i] \in al PROVE \E j \in 1..n : z[i] = p[j]
      <3>1. i # 1
        BY <1>3, <2>2
      <3> QED
        BY <1>5, <3>1
    <2>3. Fits(q, al, "high", z)
      BY <1>0, <1>1, <1>3, <2>1, <2>2 DEF Fits
    <2> QED
      BY <2>3, Replaced
  <1> HIDE DEF r
  <1>9. ASSUME NEW l \in Levels PROVE Chain(my, r[l], md[l]) /\ \A i \in 1..Len(r[l]) : r[l][i] \in al \cup {t}
    <2>1. CASE l = "high"
      <3>1. my[z[Len(z)]] = NULL
        <4>1. CASE n = 0
          BY <1>2, <1>3, <1>4, <4>1 DEF Chain
        <4>2. CASE n # 0
          <5>1. n \in 1..n /\ z[Len(z)] = p[n]
            BY <1>2, <1>3, <4>2
          <5>2. nx[p[n]] = NULL
            BY <1>2, <4>2 DEF Chain
          <5> QED
            BY <1>4, <1>7, <5>1, <5>2
        <4> QED
          BY <4>1, <4>2
      <3>2. ASSUME NEW i \in 1..(Len(z) - 1) PROVE my[z[i]] = z[i + 1]
        <4>1. i \in 1..n /\ i \in 1..Len(z) /\ z[i + 1] = p[i]
          BY <1>2, <1>3
        <4>2. CASE i = 1
          BY <1>2, <1>3, <1>4, <4>1, <4>2 DEF Chain
        <4>3. CASE i # 1
          <5>1. i - 1 \in 1..(n - 1) /\ i - 1 \in 1..n /\ (i - 1) + 1 = i
            BY <1>2, <4>1, <4>3
          <5>2. nx[p[i - 1]] = p[i]
            BY <1>2, <5>1 DEF Chain
          <5>3. z[i] = p[i - 1]
            BY <1>5, <4>1, <4>3
          <5> QED
            BY <1>4, <1>7, <4>1, <5>1, <5>2, <5>3
        <4> QED
          BY <4>2, <4>3
      <3>3. Chain(my, z, t)
        BY <1>2, <1>3, <3>1, <3>2 DEF Chain
      <3>4. ASSUME NEW i \in 1..Len(z) PROVE z[i] \in al \cup {t}
        BY <1>3, <1>5, <1>7
      <3> QED
        BY <1>4, <1>8, <2>1, <3>3, <3>4
    <2>2. CASE l # "high"
      <3>1. r[l] = q[l] /\ md[l] = hd[l] /\ q[l] \in Seq(Tasks) /\ Chain(nx, q[l], hd[l])
        BY <1>1, <1>4, <1>8, <2>2
      <3>2. \A i \in 1..Len(q[l]) : q[l][i] \in Tasks /\ q[l][i] \in al
        BY <1>1, <3>1
      <3>3. \A i \in 1..Len(q[l]) : my[q[l][i]] = nx[q[l][i]]
        BY <1>3, <1>4, <3>2
      <3>4. Chain(my, q[l], hd[l])
        BY <3>1, <3>3, ChainKept
      <3> QED
        BY <3>1, <3>2, <3>4
    <2> QED
      BY <2>1, <2>2
  <1>10. Ends(r, te) /\ te # NULL
    <2>1. CASE tl = NULL
      <3>1. Len(p) = 0
        BY <2>1 DEF Hang
      <3>2. te = t /\ Len(z) = 1 /\ z[Len(z)] = t
        BY <1>3, <2>1, <3>1
      <3>3. Len(r["high"]) > 0 /\ r["high"][Len(r["high"])] = te
        BY <1>8, <3>2
      <3> QED
        BY <1>0, <3>2, <3>3, ListTasksAssumption DEF Ends
    <2>2. CASE tl # NULL
      <3>1. PICK m \in Levels : Len(q[m]) > 0 /\ q[m][Len(q[m])] = tl
        BY <2>2 DEF Hang, Ends
      <3>2. Len(r[m]) > 0 /\ r[m][Len(r[m])] = tl
        <4>1. CASE m = "high"
          <5>1. n \in 1..n /\ z[n + 1] = tl
            BY <1>2, <1>3, <3>1, <4>1
          <5> QED
            BY <1>2, <1>3, <1>8, <4>1, <5>1
        <4>2. CASE m # "high"
          BY <1>8, <3>1, <4>2
        <4> QED
          BY <4>1, <4>2
      <3> QED
        BY <2>2, <3>2 DEF Ends
    <2> QED
      BY <2>1, <2>2
  <1> HIDE DEF te
  <1>11. Hang(r, my, md, te, al \cup {t})
    BY <1>8, <1>9, <1>10 DEF Hang
  <1> QED
    BY <1>11 DEF r, z, my, md, te

(* The first record of a list is taken and freed. *)
LEMMA HangTake ==
    ASSUME NEW q, NEW nx, NEW hd, NEW tl, NEW al, Hang(q, nx, hd, tl, al), al \in SUBSET Tasks,
           DOMAIN nx = Tasks, DOMAIN hd = Levels,
           NEW k \in Levels, hd[k] # NULL, k # "high" => Len(q["high"]) = 0
    PROVE  /\ q[k] # <<>> /\ hd[k] = Head(q[k])
           /\ Hang([q EXCEPT ![k] = Tail(q[k])], [x \in Tasks |-> IF x \in {hd[k]} THEN NULL ELSE nx[x]],
                   [hd EXCEPT ![k] = nx[hd[k]]], IF tl = hd[k] THEN NULL ELSE tl, al \ {hd[k]})
  <1> DEFINE p == q[k]
             n == Len(p)
             h == hd[k]
             z == Tail(p)
             r == [q EXCEPT ![k] = z]
             my == [x \in Tasks |-> IF x \in {h} THEN NULL ELSE nx[x]]
             md == [hd EXCEPT ![k] = nx[h]]
             te == IF tl = h THEN NULL ELSE tl
  <1>1. /\ q \in [Levels -> Seq(Tasks)] /\ NoneTwice(q)
        /\ \A l \in Levels : Chain(nx, q[l], hd[l])
        /\ \A l \in Levels : \A i \in 1..Len(q[l]) : q[l][i] \in al
    BY DEF Hang
  <1>2. p \in Seq(Tasks) /\ n \in Nat /\ Chain(nx, p, h)
    BY <1>1
  <1>3. p # <<>> /\ n > 0 /\ h = p[1] /\ h = Head(p) /\ h \in Tasks /\ 1 \in 1..n
    BY <1>2, HeadNull
  <1>4. z \in Seq(Tasks) /\ Len(z) = n - 1 /\ \A i \in 1..(n - 1) : z[i] = p[i + 1] /\ i + 1 \in 1..n
    BY <1>2, <1>3
  <1>5. /\ \A x \in Tasks : x # h => my[x] = nx[x]
        /\ md[k] = nx[h] /\ \A l \in Levels : l # k => md[l] = hd[l]
    OBVIOUS
  <1> HIDE DEF z, my, md, p, h
  <1>6. \A i, j \in 1..n : p[i] = p[j] => i = j
    BY <1>1 DEF NoneTwice, p
  <1>7. \A i \in 1..n : p[i] \in al /\ p[i] \in Tasks /\ (i # 1 => p[i] # h)
    <2>1. \A i \in 1..n : p[i] \in al /\ p[i] \in Tasks
      BY <1>1, <1>2 DEF p
    <2> QED
      BY <1>3, <1>6, <2>1
  <1>8. r \in [Levels -> Seq(Tasks)] /\ NoneTwice(r) /\ r[k] = z /\ \A l \in Levels \ {k} : r[l] = q[l]
    <2>1. ASSUME NEW i \in 1..Len(z), NEW j \in 1..Len(z), z[i] = z[j] PROVE i = j
      <3>1. i + 1 \in 1..n /\ j + 1 \in 1..n /\ p[i + 1] = p[j + 1]
        BY <1>4, <2>1
      <3>2. i + 1 = j + 1
        BY <1>6, <3>1
      <3> QED
        BY <3>2
    <2>2. ASSUME NEW i \in 1..Len(z) PROVE \E j \in 1..n : z[i] = p[j]
      BY <1>4
    <2>3. Fits(q, al, k, z)
      BY <1>1, <1>4, <2>1, <2>2 DEF Fits, p
    <2> QED
      BY <2>3, Replaced
  <1> HIDE DEF r
  <1>9. ASSUME NEW l \in Levels PROVE Chain(my, r[l], md[l]) /\ \A i \in 1..Len(r[l]) : r[l][i] \in al \ {h}
    <2>1. CASE l = k
      <3>1. ASSUME NEW i \in 1..Len(z) PROVE z[i] \in al /\ z[i] \in Tasks /\ z[i] # h /\ my[z[i]] = nx[z[i]]
        <4>1. i + 1 \in 1..n /\ i + 1 # 1 /\ z[i] = p[i + 1]
          BY <1>4
        <4>2. z[i] \in al /\ z[i] \in Tasks /\ z[i] # h
          BY <1>7, <4>1
        <4> QED
          BY <1>5, <4>2
      <3>2. Len(z) = 0 => nx[h] = NULL
        <4>1. SUFFICES ASSUME Len(z) = 0 PROVE nx[h] = NULL
          OBVIOUS
        <4>2. n = 1 /\ Len(p) = 1
          BY <1>2, <1>4, <4>1
        <4>3. nx[p[Len(p)]] = NULL
          BY <1>2, <1>3 DEF Chain
        <4> QED
          BY <1>3, <4>2, <4>3
      <3>3. ASSUME Len(z) > 0 PROVE z[1] = nx[h] /\ my[z[Len(z)]] = NULL
        <4>1. 1 \in 1..(n - 1) /\ n - 1 \in 1..(n - 1) /\ n - 1 \in 1..Len(z) /\ (n - 1) + 1 = n
          BY <1>2, <1>4, <3>3
        <4>2. z[1] = p[2] /\ z[n - 1] = p[n] /\ nx[p[1]] = p[2] /\ nx[p[n]] = NULL
          BY <1>2, <1>3, <1>4, <4>1 DEF Chain
        <4> QED
          BY <1>3, <1>4, <3>1, <4>1, <4>2
      <3>4. ASSUME NEW i \in 1..(Len(z) - 1) PROVE my[z[i]] = z[i + 1]
        <4>1. i \in 1..Len(z) /\ i + 1 \in 1..(n - 1) /\ i \in 1..(n - 1)
          BY <1>2, <1>4
        <4>2. nx[p[i + 1]] = p[(i + 1) + 1]
          BY <1>2, <4>1 DEF Chain
        <4> QED
          BY <1>4, <3>1, <4>1, <4>2
      <3>5. Chain(my, z, nx[h])
        BY <1>2, <1>4, <3>2, <3>3, <3>4 DEF Chain
      <3> QED
        BY <1>5, <1>8, <2>1, <3>1, <3>5
    <2>2. CASE l # k
      <3>1. r[l] = q[l] /\ md[l] = hd[l] /\ q[l] \in Seq(Tasks) /\ Chain(nx, q[l], hd[l])
        BY <1>1, <1>5, <1>8, <2>2
      <3>2. ASSUME NEW i \in 1..Len(q[l]) PROVE q[l][i] \in Tasks /\ q[l][i] \in al /\ q[l][i] # h
        BY <1>1, <1>3, <2>2, <3>1 DEF NoneTwice, p
      <3>3. \A i \in 1..Len(q[l]) : my[q[l][i]] = nx[q[l][i]]
        BY <1>5, <3>2
      <3>4. Chain(my, q[l], hd[l])
        BY <3>1, <3>3, ChainKept
      <3> QED
        BY <3>1, <3>2, <3>4
    <2> QED
      BY <2>1, <2>2
  <1>10. tl # NULL => \E m \in Levels : Len(q[m]) > 0 /\ q[m][Len(q[m])] = tl
    BY DEF Hang, Ends
  <1>11. ASSUME te # NULL PROVE Ends(r, te)
    <2>1. tl # h /\ te = tl /\ tl # NULL
      BY <1>11
    <2>2. PICK m \in Levels : Len(q[m]) > 0 /\ q[m][Len(q[m])] = tl
      BY <1>10, <2>1
    <2>3. Len(r[m]) > 0 /\ r[m][Len(r[m])] = tl
      <3>1. CASE m = k
        <4>1. p[n] = tl /\ n # 1
          BY <1>3, <2>1, <2>2, <3>1 DEF p
        <4>2. n - 1 \in 1..(n - 1) /\ (n - 1) + 1 = n
          <5>1. n \in Nat /\ n > 0 /\ n # 1
            BY <1>2, <1>3, <4>1
          <5> HIDE DEF n
          <5> QED
            BY ONLY <5>1
        <4>3. Len(z) > 0 /\ z[Len(z)] = tl
          BY <1>4, <4>1, <4>2
        <4> QED
          BY <1>8, <3>1, <4>3
      <3>2. CASE m # k
        BY <1>8, <2>2, <3>2
      <3> QED
        BY <3>1, <3>2
    <2> QED
      BY <2>1, <2>3 DEF Ends
  <1>12. ASSUME te = NULL PROVE Len(r["high"]) = 0
    <2>0. "high" \in Levels
      BY DEF Levels
    <2>1. CASE k # "high"
      BY <1>8, <2>0, <2>1
    <2>2. CASE k = "high"
      <3>1. tl # NULL
        BY <1>3, <2>2 DEF Hang, p
      <3>2. tl = h
        BY <1>12, <3>1
      <3>3. PICK m \in Levels : Len(q[m]) > 0 /\ q[m][Len(q[m])] = h
        BY <1>10, <3>1, <3>2
      <3>4. Len(q[m]) \in 1..Len(q[m])
        BY <1>1, <3>3
      <3>5. m = k /\ Len(q[m]) = 1
        <4>1. q[m][Len(q[m])] = q[k][1] /\ 1 \in 1..Len(q[k])
          BY <1>3, <3>3 DEF p
        <4> QED
          BY <1>1, <3>4, <4>1 DEF NoneTwice
      <3>6. Len(z) = 0
        BY <1>4, <3>5 DEF p
      <3> QED
        BY <1>8, <2>2, <3>6
    <2> QED
      BY <2>1, <2>2
  <1> HIDE DEF te
  <1>13. Hang(r, my, md, te, al \ {h})
    BY <1>8, <1>9, <1>11, <1>12 DEF Hang
  <1> QED
    BY <1>3, <1>13 DEF r, z, my, md, te, p, h

(* Nothing hangs on empty heads. *)
LEMMA HangNothing ==
    ASSUME NEW nx
    PROVE  Hang([l \in Levels |-> <<>>], nx, [l \in Levels |-> NULL], NULL, {})
  <1> DEFINE q == [l \in Levels |-> <<>>]
  <1>1. q \in [Levels -> Seq(Tasks)] /\ \A l \in Levels : Len(q[l]) = 0
    OBVIOUS
  <1>2. "high" \in Levels
    BY DEF Levels
  <1> HIDE DEF q
  <1>3. Hang(q, nx, [l \in Levels |-> NULL], NULL, {})
    BY <1>1, <1>2 DEF Hang, NoneTwice, Chain
  <1> QED
    BY <1>3 DEF q

-----------------------------------------------------------------------------
(* The refinement *)

Hung(q) == Hang(q, next, head, task_queue_tail, allocated)
HungNext(q) == Hang(q, next', head', task_queue_tail', allocated')

(* The lists of the specification are the ones that hang on the heads. *)
LEMMA ListsNow == ASSUME NEW q, Hung(q) PROVE Lists = q
  BY ListsAre DEF Hung, Lists
LEMMA ListsNext == ASSUME NEW r, HungNext(r) PROVE Lists' = r
  BY ListsAre DEF HungNext, Lists

(* A record that is not allocated hangs on no list. *)
LEMMA NotQueued ==
    ASSUME NEW q, Hung(q), NEW t \in Tasks, t \notin allocated
    PROVE  t \in Tasks \ Queues!Queued
  <1>1. Lists = q /\ \A l \in Levels : \A i \in 1..Len(q[l]) : q[l][i] \in allocated
    BY ListsNow DEF Hung, Hang
  <1> QED
    BY <1>1 DEF Queues!Queued, Queues!Levels, Levels

(* threadpool_add_task *)
LEMMA AddTaskLinks ==
    ASSUME LShape, NEW q, Hung(q), NEW t \in Tasks, NEW p \in Priorities, AddTask(t, p)
    PROVE  LShape' /\ (\E r : HungNext(r)) /\ \E l \in Levels : Queues!Link(t, l)
  <1> DEFINE l == LevelOf(p)
  <1>1. l \in Levels /\ Levels = Queues!Levels
    BY PrioritiesAssumption DEF LevelOf, Levels, Queues!Levels
  <1>2. /\ t \in Tasks \ allocated /\ allocated' = allocated \cup {t}
        /\ DOMAIN head = Levels /\ DOMAIN next = Tasks /\ allocated \in SUBSET Tasks
        /\ task_queue_tail \in Tasks \cup {NULL}
    BY DEF AddTask, CreateTask, LShape
  <1>3. Lists = q /\ q \in [Levels -> Seq(Tasks)] /\ Chain(next, q[l], head[l])
    BY <1>1, ListsNow DEF Hung, Hang
  <1>4. head[l] = NULL <=> q[l] = <<>>
    BY <1>1, <1>3, HeadNull
  <1> HIDE DEF l
  <1>5. CASE /\ head[l] = NULL
             /\ head' = [head EXCEPT ![l] = t]
             /\ next' = [next EXCEPT ![t] = NULL]
             /\ task_queue_tail' = t
             /\ fault' = fault
    <2> DEFINE r == [q EXCEPT ![l] = <<t>>]
    <2>1. HungNext(r)
      BY <1>1, <1>2, <1>5, HangFirst DEF Hung, HungNext
    <2> HIDE DEF r
    <2>2. Lists' = r
      BY <2>1, ListsNext
    <2>3. LShape'
      BY <1>2, <1>5 DEF LShape
    <2>4. Queues!LinkFirst(t, l)
      BY <1>3, <1>4, <1>5, <2>2 DEF Queues!LinkFirst, r
    <2> QED
      BY <1>1, <2>1, <2>3, <2>4 DEF Queues!Link
  <1>6. CASE /\ head[l] # NULL /\ task_queue_tail # NULL
             /\ next' = [next EXCEPT ![t] = NULL, ![task_queue_tail] = t]
             /\ task_queue_tail' = t
             /\ head' = head /\ fault' = fault
    <2>1. PICK k \in Levels : Len(q[k]) > 0 /\ q[k][Len(q[k])] = task_queue_tail
      BY <1>6 DEF Hung, Hang, Ends
    <2> DEFINE r == [q EXCEPT ![k] = Append(q[k], t)]
    <2>2. HungNext(r)
      <3>1. Hang(r, [next EXCEPT ![t] = NULL, ![task_queue_tail] = t], head, t, allocated \cup {t})
        BY <1>2, <2>1, HangLast DEF Hung
      <3> QED
        BY <1>2, <1>6, <3>1 DEF HungNext
    <2>3. q[k] # <<>>
      BY <2>1
    <2> HIDE DEF r
    <2>4. Lists' = r
      BY <2>2, ListsNext
    <2>5. LShape'
      BY <1>2, <1>6 DEF LShape
    <2>6. Queues!LinkAfterTail(t, l)
      BY <1>1, <1>3, <1>4, <1>6, <2>1, <2>3, <2>4 DEF Queues!LinkAfterTail, r
    <2> QED
      BY <1>1, <2>2, <2>5, <2>6 DEF Queues!Link
  <1>7. CASE /\ head[l] # NULL /\ task_queue_tail = NULL
             /\ fault' = "null_dereference"
             /\ head' = head /\ next' = next /\ task_queue_tail' = task_queue_tail
    <2>1. HungNext(q)
      BY <1>2, <1>7 DEF Hung, HungNext, Hang
    <2>2. Lists' = q
      BY <2>1, ListsNext
    <2>3. LShape'
      BY <1>2, <1>7 DEF LShape
    <2>4. Queues!LinkAfterNull(t, l)
      BY <1>3, <1>4, <1>7, <2>2 DEF Queues!LinkAfterNull
    <2> QED
      BY <1>1, <2>1, <2>3, <2>4 DEF Queues!Link
  <1> QED
    BY <1>5, <1>6, <1>7 DEF AddTask, l

(* threadpool_add_urgent_task *)
LEMMA AddUrgentLinks ==
    ASSUME LShape, NEW q, Hung(q), NEW t \in Tasks, AddUrgentTask(t)
    PROVE  LShape' /\ (\E r : HungNext(r)) /\ Queues!LinkUrgent(t)
  <1>1. /\ t \in Tasks \ allocated /\ allocated' = allocated \cup {t}
        /\ DOMAIN head = Levels /\ DOMAIN next = Tasks /\ allocated \in SUBSET Tasks
        /\ task_queue_tail \in Tasks \cup {NULL}
    BY DEF AddUrgentTask, CreateTask, LShape
  <1>2. /\ next' = [next EXCEPT ![t] = head["high"]]
        /\ head' = [head EXCEPT !["high"] = t]
        /\ task_queue_tail' = IF task_queue_tail = NULL THEN t ELSE task_queue_tail
        /\ fault' = fault
    BY DEF AddUrgentTask
  <1>3. Lists = q
    BY ListsNow
  <1> DEFINE r == [q EXCEPT !["high"] = <<t>> \o q["high"]]
  <1>4. HungNext(r)
    BY <1>1, <1>2, HangUrgent DEF Hung, HungNext
  <1> HIDE DEF r
  <1>5. Lists' = r
    BY <1>4, ListsNext
  <1>6. LShape'
    BY <1>1, <1>2 DEF LShape
  <1>7. Queues!LinkUrgent(t)
    BY <1>2, <1>3, <1>5 DEF Queues!LinkUrgent, r
  <1> QED
    BY <1>4, <1>6, <1>7

(* get_next_task: the first list that is not empty is served. *)
LEMMA GetNextUnlinks ==
    ASSUME LShape, NEW q, Hung(q), GetNextTask
    PROVE  LShape' /\ (\E r : HungNext(r)) /\ Queues!UnlinkNext
  <1> DEFINE k == Served
  <1>1. /\ k \in Levels /\ head[k] # NULL
        /\ head' = [head EXCEPT ![k] = next[head[k]]]
        /\ task_queue_tail' = IF task_queue_tail = head[k] THEN NULL ELSE task_queue_tail
        /\ allocated' = allocated \ {head[k]}
        /\ next' = [x \in Tasks |-> IF x \in {head[k]} THEN NULL ELSE next[x]]
        /\ fault' = fault
    BY DEF GetNextTask, Release, Served, Levels
  <1>2. /\ DOMAIN head = Levels /\ DOMAIN next = Tasks /\ allocated \in SUBSET Tasks
        /\ task_queue_tail \in Tasks \cup {NULL}
    BY DEF LShape
  <1>3. Lists = q /\ q \in [Levels -> Seq(Tasks)] /\ \A l \in Levels : Chain(next, q[l], head[l])
    BY ListsNow DEF Hung, Hang
  <1>4. \A l \in Levels : (head[l] = NULL <=> q[l] = <<>>) /\ (Len(q[l]) = 0 <=> q[l] = <<>>)
    BY <1>3, HeadNull
  <1>5. k # "high" => Len(q["high"]) = 0
    <2>1. "high" \in Levels
      BY DEF Levels
    <2> QED
      BY <1>4, <2>1 DEF Served
  <1>6. Queues!NextLevel = k
    <2>1. "high" \in Levels /\ "normal" \in Levels
      BY DEF Levels
    <2> QED
      BY <1>3, <1>4, <2>1 DEF Queues!NextLevel, Served
  <1> HIDE DEF k
  <1> DEFINE r == [q EXCEPT ![k] = Tail(q[k])]
  <1>7. q[k] # <<>> /\ head[k] = Head(q[k]) /\ HungNext(r)
    <2>1. Hang(q, next, head, task_queue_tail, allocated)
      BY DEF Hung
    <2>2. /\ q[k] # <<>> /\ head[k] = Head(q[k])
          /\ Hang(r, [x \in Tasks |-> IF x \in {head[k]} THEN NULL ELSE next[x]],
                  [head EXCEPT ![k] = next[head[k]]],
                  IF task_queue_tail = head[k] THEN NULL ELSE task_queue_tail, allocated \ {head[k]})
      BY <1>1, <1>2, <1>5, <2>1, HangTake
    <2> QED
      BY <1>1, <2>2 DEF HungNext
  <1> HIDE DEF r
  <1>8. Lists' = r
    BY <1>7, ListsNext
  <1>9. LShape'
    BY <1>1, <1>2 DEF LShape
  <1>10. Queues!NextTask = head[k] /\ ~Queues!AllEmpty
    <2>1. Queues!NextTask = head[k]
      BY <1>3, <1>6, <1>7 DEF Queues!NextTask
    <2>2. ~Queues!AllEmpty
      BY <1>1, <1>3, <1>7 DEF Queues!AllEmpty, Queues!Levels, Levels
    <2> QED
      BY <2>1, <2>2
  <1>11. Queues!UnlinkNext
    BY <1>1, <1>3, <1>6, <1>8, <1>10 DEF Queues!UnlinkNext, r
  <1> QED
    BY <1>7, <1>9, <1>11

(* The end of threadpool_destroy. *)
LEMMA DropAllUnlinks ==
    ASSUME LShape, DropAll
    PROVE  LShape' /\ (\E r : HungNext(r)) /\ Queues!UnlinkAll
  <1>1. /\ head' = [l \in Levels |-> NULL] /\ task_queue_tail' = NULL /\ fault' = fault
        /\ allocated' = {} /\ next' = [x \in Tasks |-> IF x \in allocated THEN NULL ELSE next[x]]
    BY DEF DropAll, Release
  <1> DEFINE r == [l \in Levels |-> <<>>]
  <1>2. HungNext(r)
    BY <1>1, HangNothing DEF HungNext
  <1> HIDE DEF r
  <1>3. Lists' = r
    BY <1>2, ListsNext
  <1>4. LShape'
    BY <1>1 DEF LShape
  <1>5. Queues!UnlinkAll
    BY <1>1, <1>3 DEF Queues!UnlinkAll, Queues!Levels, Levels, r
  <1> QED
    BY <1>2, <1>4, <1>5

(* Initially nothing hangs anywhere. *)
LEMMA InitLinks == ASSUME Init PROVE LInv /\ Queues!QInit
  <1>1. /\ head = [l \in Levels |-> NULL] /\ next = [t \in Tasks |-> NULL] /\ task_queue_tail = NULL
        /\ allocated = {} /\ fault = "none"
    BY DEF Init
  <1> DEFINE q == [l \in Levels |-> <<>>]
  <1>2. Hung(q)
    BY <1>1, HangNothing DEF Hung
  <1> HIDE DEF q
  <1>3. Lists = q
    BY <1>2, ListsNow
  <1>4. LInv
    BY <1>1, <1>2 DEF LInv, LShape, Hung
  <1>5. Queues!QInit
    BY <1>1, <1>3 DEF Queues!QInit, Queues!Levels, Levels, q
  <1> QED
    BY <1>4, <1>5

(* Every step of the linked records keeps LInv and is a step of the lists. *)
LEMMA StepLinks == ASSUME LInv, [Next]_lvars PROVE LInv' /\ [Queues!QNext]_(Queues!qvars)
  <1>1. LShape
    BY DEF LInv
  <1>2. PICK q : Hung(q)
    BY DEF LInv, Hung
  <1>3. SUFFICES LShape' /\ (\E r : HungNext(r)) /\ Queues!QNext
    BY DEF LInv, HungNext
  <1>4. CASE UNCHANGED lvars
    <2>1. HungNext(q)
      BY <1>2, <1>4 DEF Hung, HungNext, lvars
    <2>2. Lists' = Lists
      BY <1>2, <2>1, ListsNow, ListsNext
    <2> QED
      BY <1>1, <1>4, <2>1, <2>2 DEF LShape, lvars, Queues!QNext, Queues!qvars
  <1>5. ASSUME NEW t \in Tasks, NEW p \in Priorities, fault = "none", AddTask(t, p)
        PROVE  LShape' /\ (\E r : HungNext(r)) /\ Queues!QNext
    <2>1. LShape' /\ (\E r : HungNext(r)) /\ \E l \in Levels : Queues!Link(t, l)
      BY <1>1, <1>2, <1>5, AddTaskLinks
    <2>2. t \in Tasks \ Queues!Queued
      BY <1>2, <1>5, NotQueued DEF AddTask, CreateTask
    <2> QED
      BY <1>5, <2>1, <2>2 DEF Queues!QNext, Queues!Levels, Levels
  <1>6. ASSUME NEW t \in Tasks, fault = "none", AddUrgentTask(t)
        PROVE  LShape' /\ (\E r : HungNext(r)) /\ Queues!QNext
    <2>1. LShape' /\ (\E r : HungNext(r)) /\ Queues!LinkUrgent(t)
      BY <1>1, <1>2, <1>6, AddUrgentLinks
    <2>2. t \in Tasks \ Queues!Queued
      BY <1>2, <1>6, NotQueued DEF AddUrgentTask, CreateTask
    <2> QED
      BY <1>6, <2>1, <2>2 DEF Queues!QNext
  <1>7. ASSUME fault = "none", GetNextTask PROVE LShape' /\ (\E r : HungNext(r)) /\ Queues!QNext
    BY <1>1, <1>2, <1>7, GetNextUnlinks DEF Queues!QNext
  <1>8. ASSUME fault = "none", DropAll PROVE LShape' /\ (\E r : HungNext(r)) /\ Queues!QNext
    BY <1>1, <1>8, DropAllUnlinks DEF Queues!QNext
  <1> QED
    BY <1>4, <1>5, <1>6, <1>7, <1>8 DEF Next

(* The three linked lists with their shared tail (threadpool.c, the queues)
   behave as the sequences of TaskQueues: every record handed in and not taken
   hangs on one list at one place, for any set of tasks and priorities. *)
THEOREM RecordsImplementLists == Spec => ImplementsQueues
  <1>1. Init => LInv /\ Queues!QInit
    BY InitLinks
  <1>2. LInv /\ [Next]_lvars => LInv' /\ [Queues!QNext]_(Queues!qvars)
    BY StepLinks
  <1> QED
    BY <1>1, <1>2, PTL DEF Spec, ImplementsQueues, Queues!QSpec
=============================================================================
