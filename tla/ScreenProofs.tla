----------------------------- MODULE ScreenProofs ----------------------------
(***************************************************************************)
(* The game: on every board, with every choice of pieces and whatever keys *)
(* and ticks come in whatever order, the board holds what was played.  The *)
(* console: on every screen, whatever is output and whatever fails, modes, *)
(* windows, the cursor and its mark fit together.                          *)
(***************************************************************************)
EXTENDS TetrisApp, GraphicsConsole, FiniteSetTheorems, SequenceTheorems,
        WellFoundedInduction, TLAPS

-----------------------------------------------------------------------------
(* Numbers.                                                                 *)

\* A set of natural numbers has a least element.
LEMMA LeastNumber ==
  ASSUME NEW T \in SUBSET Nat, T # {}
  PROVE  \E m \in T : \A k \in T : m <= k
<1>1. \E R : IsWellFoundedOn(R, Nat) /\ \A x, y \in Nat : <<y, x>> \in R <=> y < x
  <2>1. \A x, y \in Nat : <<y, x>> \in OpToRel(<, Nat) <=> y < x
    BY DEF OpToRel
  <2> QED BY <2>1, NatLessThanWellFounded
<1>2. PICK R : IsWellFoundedOn(R, Nat) /\ \A x, y \in Nat : <<y, x>> \in R <=> y < x
  BY <1>1
<1>3. \E x \in T : \A y \in T : ~ (<<y, x>> \in R)
  BY <1>2, WFMin
<1>4. PICK x \in T : \A y \in T : ~ (<<y, x>> \in R)
  BY <1>3
<1>5. ASSUME NEW k \in T PROVE x <= k
  <2>1. x \in Nat /\ k \in Nat
    OBVIOUS
  <2>2. ~ (k < x)
    BY <1>2, <1>4, <2>1, Zenon
  <2> QED BY <2>1, <2>2
<1> QED BY <1>4, <1>5

\* Induction: a set that has 0 and, with a number, the next, has them all.
LEMMA NumbersBelong ==
  ASSUME NEW T, 0 \in T, \A n \in Nat : n \in T => n + 1 \in T
  PROVE  Nat \subseteq T
<1> SUFFICES ASSUME Nat \ T # {} PROVE FALSE
  OBVIOUS
<1>1. PICK m \in Nat \ T : \A k \in Nat \ T : m <= k
  BY LeastNumber
<1>2. m # 0 /\ m \in Nat
  BY <1>1
<1>3. m - 1 \in Nat /\ ~(m <= m - 1) /\ (m - 1) + 1 = m
  BY <1>2
<1>4. m - 1 \in T
  BY <1>1, <1>3
<1> QED BY <1>1, <1>3, <1>4

\* What is at most some number has a greatest one.
LEMMA MaxIsGreatest ==
  ASSUME NEW S \in SUBSET Nat, S # {}, NEW n \in Nat, \A s \in S : s <= n
  PROVE  Max(S) \in S /\ \A s \in S : s <= Max(S)
<1> DEFINE U == {m \in Nat : \A s \in S : s <= m}
<1>1. U \in SUBSET Nat /\ n \in U
  OBVIOUS
<1>2. PICK m \in U : \A k \in U : m <= k
  BY <1>1, LeastNumber
<1>3. m \in S
  <2> SUFFICES ASSUME m \notin S PROVE FALSE
    OBVIOUS
  <2>1. PICK s \in S : TRUE
    OBVIOUS
  <2>2. m \in Nat /\ s \in Nat /\ s <= m /\ s # m
    BY <1>2
  <2>3. m - 1 \in Nat
    BY <2>2
  <2>4. \A t \in S : t <= m - 1
    BY <1>2
  <2>5. m - 1 \in U
    BY <2>3, <2>4
  <2>6. m <= m - 1
    BY <1>2, <2>5
  <2> QED BY <2>2, <2>6
<1>4. \A s \in S : m >= s
  BY <1>2
<1>5. \E x \in S : \A y \in S : x >= y
  BY <1>3, <1>4
<1>6. Max(S) \in S /\ \A y \in S : Max(S) >= y
  BY <1>5 DEF Max
<1> QED BY <1>6

\* As many numbers as before, when each grows by one.
LEMMA ShiftedAsMany ==
  ASSUME NEW S \in SUBSET Nat, IsFiniteSet(S)
  PROVE  IsFiniteSet({r + 1 : r \in S}) /\ Cardinality({r + 1 : r \in S}) = Cardinality(S)
<1> DEFINE T == {r + 1 : r \in S}
           f == [r \in S |-> r + 1]
<1>1. f \in [S -> T]
  OBVIOUS
<1>5. \A t \in T : \E r \in S : f[r] = t
  OBVIOUS
<1>2. \A a, b \in S : f[a] = f[b] => a = b
  OBVIOUS
<1>3. f \in Bijection(S, T)
  BY <1>1, <1>2, <1>5 DEF Bijection, Injection, Surjection, IsInjective
<1>4. ExistsBijection(S, T)
  BY <1>3 DEF ExistsBijection
<1> QED BY <1>4, FS_Bijection

-----------------------------------------------------------------------------
(* Pieces.  A piece is four cells, wherever it is; a new one lies in the    *)
(* rows that do not show.                                                   *)

FourIn(S, box) ==
  \E a, b, c, d \in box :
    S = {a, b, c, d} /\ a # b /\ a # c /\ a # d /\ b # c /\ b # d /\ c # d

Box(h) == (0..3) \X (0..h)

\* Four different cells of a box.
LEMMA FourCells ==
  ASSUME NEW box, NEW a \in box, NEW b \in box, NEW c \in box, NEW d \in box,
         a # b, a # c, a # d, b # c, b # d, c # d
  PROVE  FourIn(Body(a, b, c, d), box)
BY DEF FourIn, Body

\* Every body in every rotation is four cells of four by four, and before it
\* is turned of four by two.
LEMMA BodiesAreFour ==
  ASSUME NEW kind \in DOMAIN Bodies, NEW r \in 1..4
  PROVE  FourIn(Bodies[kind][r], Box(3)) /\ (r = 1 => FourIn(Bodies[kind][r], Box(1)))
<1> DEFINE Boxed(b, n) == FourIn(b, Box(3)) /\ (n = 1 => FourIn(b, Box(1)))
<1> HIDE DEF Boxed
<1>1. CASE kind = "I"
  <2>1. Bodies.I[1] = Body(<<0,1>>, <<1,1>>, <<2,1>>, <<3,1>>)
    BY DEF Bodies
  <2>2. Bodies.I[2] = Body(<<2,0>>, <<2,1>>, <<2,2>>, <<2,3>>)
    BY DEF Bodies
  <2>3. Bodies.I[3] = Body(<<0,2>>, <<1,2>>, <<2,2>>, <<3,2>>)
    BY DEF Bodies
  <2>4. Bodies.I[4] = Body(<<1,0>>, <<1,1>>, <<1,2>>, <<1,3>>)
    BY DEF Bodies
  <2>5. Boxed(Body(<<0,1>>, <<1,1>>, <<2,1>>, <<3,1>>), 1)
    <3> DEFINE p == <<0,1>>  q == <<1,1>>  s == <<2,1>>  t == <<3,1>>
    <3>1. {p, q, s, t} \subseteq Box(3) /\ {p, q, s, t} \subseteq Box(1)
      BY DEF Box
    <3>2. p # q /\ p # s /\ p # t /\ q # s /\ q # t /\ s # t
      OBVIOUS
    <3> HIDE DEF p, q, s, t
    <3>3. Boxed(Body(p, q, s, t), 1)
      BY <3>1, <3>2, FourCells DEF Boxed
    <3> QED BY <3>3 DEF p, q, s, t
  <2>6. Boxed(Body(<<2,0>>, <<2,1>>, <<2,2>>, <<2,3>>), 2)
    <3> DEFINE p == <<2,0>>  q == <<2,1>>  s == <<2,2>>  t == <<2,3>>
    <3>1. {p, q, s, t} \subseteq Box(3)
      BY DEF Box
    <3>2. p # q /\ p # s /\ p # t /\ q # s /\ q # t /\ s # t
      OBVIOUS
    <3> HIDE DEF p, q, s, t
    <3>3. Boxed(Body(p, q, s, t), 2)
      BY <3>1, <3>2, FourCells DEF Boxed
    <3> QED BY <3>3 DEF p, q, s, t
  <2>7. Boxed(Body(<<0,2>>, <<1,2>>, <<2,2>>, <<3,2>>), 3)
    <3> DEFINE p == <<0,2>>  q == <<1,2>>  s == <<2,2>>  t == <<3,2>>
    <3>1. {p, q, s, t} \subseteq Box(3)
      BY DEF Box
    <3>2. p # q /\ p # s /\ p # t /\ q # s /\ q # t /\ s # t
      OBVIOUS
    <3> HIDE DEF p, q, s, t
    <3>3. Boxed(Body(p, q, s, t), 3)
      BY <3>1, <3>2, FourCells DEF Boxed
    <3> QED BY <3>3 DEF p, q, s, t
  <2>8. Boxed(Body(<<1,0>>, <<1,1>>, <<1,2>>, <<1,3>>), 4)
    <3> DEFINE p == <<1,0>>  q == <<1,1>>  s == <<1,2>>  t == <<1,3>>
    <3>1. {p, q, s, t} \subseteq Box(3)
      BY DEF Box
    <3>2. p # q /\ p # s /\ p # t /\ q # s /\ q # t /\ s # t
      OBVIOUS
    <3> HIDE DEF p, q, s, t
    <3>3. Boxed(Body(p, q, s, t), 4)
      BY <3>1, <3>2, FourCells DEF Boxed
    <3> QED BY <3>3 DEF p, q, s, t
  <2> QED BY <1>1, <2>1, <2>2, <2>3, <2>4, <2>5, <2>6, <2>7, <2>8 DEF Boxed
<1>2. CASE kind = "J"
  <2>1. Bodies.J[1] = Body(<<0,0>>, <<0,1>>, <<1,1>>, <<2,1>>)
    BY DEF Bodies
  <2>2. Bodies.J[2] = Body(<<1,2>>, <<1,1>>, <<1,0>>, <<2,0>>)
    BY DEF Bodies
  <2>3. Bodies.J[3] = Body(<<0,1>>, <<1,1>>, <<2,1>>, <<2,2>>)
    BY DEF Bodies
  <2>4. Bodies.J[4] = Body(<<0,2>>, <<1,2>>, <<1,1>>, <<1,0>>)
    BY DEF Bodies
  <2>5. Boxed(Body(<<0,0>>, <<0,1>>, <<1,1>>, <<2,1>>), 1)
    <3> DEFINE p == <<0,0>>  q == <<0,1>>  s == <<1,1>>  t == <<2,1>>
    <3>1. {p, q, s, t} \subseteq Box(3) /\ {p, q, s, t} \subseteq Box(1)
      BY DEF Box
    <3>2. p # q /\ p # s /\ p # t /\ q # s /\ q # t /\ s # t
      OBVIOUS
    <3> HIDE DEF p, q, s, t
    <3>3. Boxed(Body(p, q, s, t), 1)
      BY <3>1, <3>2, FourCells DEF Boxed
    <3> QED BY <3>3 DEF p, q, s, t
  <2>6. Boxed(Body(<<1,2>>, <<1,1>>, <<1,0>>, <<2,0>>), 2)
    <3> DEFINE p == <<1,2>>  q == <<1,1>>  s == <<1,0>>  t == <<2,0>>
    <3>1. {p, q, s, t} \subseteq Box(3)
      BY DEF Box
    <3>2. p # q /\ p # s /\ p # t /\ q # s /\ q # t /\ s # t
      OBVIOUS
    <3> HIDE DEF p, q, s, t
    <3>3. Boxed(Body(p, q, s, t), 2)
      BY <3>1, <3>2, FourCells DEF Boxed
    <3> QED BY <3>3 DEF p, q, s, t
  <2>7. Boxed(Body(<<0,1>>, <<1,1>>, <<2,1>>, <<2,2>>), 3)
    <3> DEFINE p == <<0,1>>  q == <<1,1>>  s == <<2,1>>  t == <<2,2>>
    <3>1. {p, q, s, t} \subseteq Box(3)
      BY DEF Box
    <3>2. p # q /\ p # s /\ p # t /\ q # s /\ q # t /\ s # t
      OBVIOUS
    <3> HIDE DEF p, q, s, t
    <3>3. Boxed(Body(p, q, s, t), 3)
      BY <3>1, <3>2, FourCells DEF Boxed
    <3> QED BY <3>3 DEF p, q, s, t
  <2>8. Boxed(Body(<<0,2>>, <<1,2>>, <<1,1>>, <<1,0>>), 4)
    <3> DEFINE p == <<0,2>>  q == <<1,2>>  s == <<1,1>>  t == <<1,0>>
    <3>1. {p, q, s, t} \subseteq Box(3)
      BY DEF Box
    <3>2. p # q /\ p # s /\ p # t /\ q # s /\ q # t /\ s # t
      OBVIOUS
    <3> HIDE DEF p, q, s, t
    <3>3. Boxed(Body(p, q, s, t), 4)
      BY <3>1, <3>2, FourCells DEF Boxed
    <3> QED BY <3>3 DEF p, q, s, t
  <2> QED BY <1>2, <2>1, <2>2, <2>3, <2>4, <2>5, <2>6, <2>7, <2>8 DEF Boxed
<1>3. CASE kind = "L"
  <2>1. Bodies.L[1] = Body(<<0,1>>, <<1,1>>, <<2,1>>, <<2,0>>)
    BY DEF Bodies
  <2>2. Bodies.L[2] = Body(<<1,2>>, <<1,1>>, <<1,0>>, <<2,2>>)
    BY DEF Bodies
  <2>3. Bodies.L[3] = Body(<<0,1>>, <<1,1>>, <<2,1>>, <<0,2>>)
    BY DEF Bodies
  <2>4. Bodies.L[4] = Body(<<0,0>>, <<1,2>>, <<1,1>>, <<1,0>>)
    BY DEF Bodies
  <2>5. Boxed(Body(<<0,1>>, <<1,1>>, <<2,1>>, <<2,0>>), 1)
    <3> DEFINE p == <<0,1>>  q == <<1,1>>  s == <<2,1>>  t == <<2,0>>
    <3>1. {p, q, s, t} \subseteq Box(3) /\ {p, q, s, t} \subseteq Box(1)
      BY DEF Box
    <3>2. p # q /\ p # s /\ p # t /\ q # s /\ q # t /\ s # t
      OBVIOUS
    <3> HIDE DEF p, q, s, t
    <3>3. Boxed(Body(p, q, s, t), 1)
      BY <3>1, <3>2, FourCells DEF Boxed
    <3> QED BY <3>3 DEF p, q, s, t
  <2>6. Boxed(Body(<<1,2>>, <<1,1>>, <<1,0>>, <<2,2>>), 2)
    <3> DEFINE p == <<1,2>>  q == <<1,1>>  s == <<1,0>>  t == <<2,2>>
    <3>1. {p, q, s, t} \subseteq Box(3)
      BY DEF Box
    <3>2. p # q /\ p # s /\ p # t /\ q # s /\ q # t /\ s # t
      OBVIOUS
    <3> HIDE DEF p, q, s, t
    <3>3. Boxed(Body(p, q, s, t), 2)
      BY <3>1, <3>2, FourCells DEF Boxed
    <3> QED BY <3>3 DEF p, q, s, t
  <2>7. Boxed(Body(<<0,1>>, <<1,1>>, <<2,1>>, <<0,2>>), 3)
    <3> DEFINE p == <<0,1>>  q == <<1,1>>  s == <<2,1>>  t == <<0,2>>
    <3>1. {p, q, s, t} \subseteq Box(3)
      BY DEF Box
    <3>2. p # q /\ p # s /\ p # t /\ q # s /\ q # t /\ s # t
      OBVIOUS
    <3> HIDE DEF p, q, s, t
    <3>3. Boxed(Body(p, q, s, t), 3)
      BY <3>1, <3>2, FourCells DEF Boxed
    <3> QED BY <3>3 DEF p, q, s, t
  <2>8. Boxed(Body(<<0,0>>, <<1,2>>, <<1,1>>, <<1,0>>), 4)
    <3> DEFINE p == <<0,0>>  q == <<1,2>>  s == <<1,1>>  t == <<1,0>>
    <3>1. {p, q, s, t} \subseteq Box(3)
      BY DEF Box
    <3>2. p # q /\ p # s /\ p # t /\ q # s /\ q # t /\ s # t
      OBVIOUS
    <3> HIDE DEF p, q, s, t
    <3>3. Boxed(Body(p, q, s, t), 4)
      BY <3>1, <3>2, FourCells DEF Boxed
    <3> QED BY <3>3 DEF p, q, s, t
  <2> QED BY <1>3, <2>1, <2>2, <2>3, <2>4, <2>5, <2>6, <2>7, <2>8 DEF Boxed
<1>4. CASE kind = "S"
  <2>1. Bodies.S[1] = Body(<<0,1>>, <<1,1>>, <<1,0>>, <<2,0>>)
    BY DEF Bodies
  <2>2. Bodies.S[2] = Body(<<1,0>>, <<1,1>>, <<2,1>>, <<2,2>>)
    BY DEF Bodies
  <2>3. Bodies.S[3] = Body(<<0,2>>, <<1,2>>, <<1,1>>, <<2,1>>)
    BY DEF Bodies
  <2>4. Bodies.S[4] = Body(<<0,0>>, <<0,1>>, <<1,1>>, <<1,2>>)
    BY DEF Bodies
  <2>5. Boxed(Body(<<0,1>>, <<1,1>>, <<1,0>>, <<2,0>>), 1)
    <3> DEFINE p == <<0,1>>  q == <<1,1>>  s == <<1,0>>  t == <<2,0>>
    <3>1. {p, q, s, t} \subseteq Box(3) /\ {p, q, s, t} \subseteq Box(1)
      BY DEF Box
    <3>2. p # q /\ p # s /\ p # t /\ q # s /\ q # t /\ s # t
      OBVIOUS
    <3> HIDE DEF p, q, s, t
    <3>3. Boxed(Body(p, q, s, t), 1)
      BY <3>1, <3>2, FourCells DEF Boxed
    <3> QED BY <3>3 DEF p, q, s, t
  <2>6. Boxed(Body(<<1,0>>, <<1,1>>, <<2,1>>, <<2,2>>), 2)
    <3> DEFINE p == <<1,0>>  q == <<1,1>>  s == <<2,1>>  t == <<2,2>>
    <3>1. {p, q, s, t} \subseteq Box(3)
      BY DEF Box
    <3>2. p # q /\ p # s /\ p # t /\ q # s /\ q # t /\ s # t
      OBVIOUS
    <3> HIDE DEF p, q, s, t
    <3>3. Boxed(Body(p, q, s, t), 2)
      BY <3>1, <3>2, FourCells DEF Boxed
    <3> QED BY <3>3 DEF p, q, s, t
  <2>7. Boxed(Body(<<0,2>>, <<1,2>>, <<1,1>>, <<2,1>>), 3)
    <3> DEFINE p == <<0,2>>  q == <<1,2>>  s == <<1,1>>  t == <<2,1>>
    <3>1. {p, q, s, t} \subseteq Box(3)
      BY DEF Box
    <3>2. p # q /\ p # s /\ p # t /\ q # s /\ q # t /\ s # t
      OBVIOUS
    <3> HIDE DEF p, q, s, t
    <3>3. Boxed(Body(p, q, s, t), 3)
      BY <3>1, <3>2, FourCells DEF Boxed
    <3> QED BY <3>3 DEF p, q, s, t
  <2>8. Boxed(Body(<<0,0>>, <<0,1>>, <<1,1>>, <<1,2>>), 4)
    <3> DEFINE p == <<0,0>>  q == <<0,1>>  s == <<1,1>>  t == <<1,2>>
    <3>1. {p, q, s, t} \subseteq Box(3)
      BY DEF Box
    <3>2. p # q /\ p # s /\ p # t /\ q # s /\ q # t /\ s # t
      OBVIOUS
    <3> HIDE DEF p, q, s, t
    <3>3. Boxed(Body(p, q, s, t), 4)
      BY <3>1, <3>2, FourCells DEF Boxed
    <3> QED BY <3>3 DEF p, q, s, t
  <2> QED BY <1>4, <2>1, <2>2, <2>3, <2>4, <2>5, <2>6, <2>7, <2>8 DEF Boxed
<1>5. CASE kind = "T"
  <2>1. Bodies.T[1] = Body(<<0,1>>, <<1,1>>, <<2,1>>, <<1,0>>)
    BY DEF Bodies
  <2>2. Bodies.T[2] = Body(<<1,0>>, <<1,1>>, <<1,2>>, <<2,1>>)
    BY DEF Bodies
  <2>3. Bodies.T[3] = Body(<<0,1>>, <<1,1>>, <<2,1>>, <<1,2>>)
    BY DEF Bodies
  <2>4. Bodies.T[4] = Body(<<1,0>>, <<1,1>>, <<1,2>>, <<0,1>>)
    BY DEF Bodies
  <2>5. Boxed(Body(<<0,1>>, <<1,1>>, <<2,1>>, <<1,0>>), 1)
    <3> DEFINE p == <<0,1>>  q == <<1,1>>  s == <<2,1>>  t == <<1,0>>
    <3>1. {p, q, s, t} \subseteq Box(3) /\ {p, q, s, t} \subseteq Box(1)
      BY DEF Box
    <3>2. p # q /\ p # s /\ p # t /\ q # s /\ q # t /\ s # t
      OBVIOUS
    <3> HIDE DEF p, q, s, t
    <3>3. Boxed(Body(p, q, s, t), 1)
      BY <3>1, <3>2, FourCells DEF Boxed
    <3> QED BY <3>3 DEF p, q, s, t
  <2>6. Boxed(Body(<<1,0>>, <<1,1>>, <<1,2>>, <<2,1>>), 2)
    <3> DEFINE p == <<1,0>>  q == <<1,1>>  s == <<1,2>>  t == <<2,1>>
    <3>1. {p, q, s, t} \subseteq Box(3)
      BY DEF Box
    <3>2. p # q /\ p # s /\ p # t /\ q # s /\ q # t /\ s # t
      OBVIOUS
    <3> HIDE DEF p, q, s, t
    <3>3. Boxed(Body(p, q, s, t), 2)
      BY <3>1, <3>2, FourCells DEF Boxed
    <3> QED BY <3>3 DEF p, q, s, t
  <2>7. Boxed(Body(<<0,1>>, <<1,1>>, <<2,1>>, <<1,2>>), 3)
    <3> DEFINE p == <<0,1>>  q == <<1,1>>  s == <<2,1>>  t == <<1,2>>
    <3>1. {p, q, s, t} \subseteq Box(3)
      BY DEF Box
    <3>2. p # q /\ p # s /\ p # t /\ q # s /\ q # t /\ s # t
      OBVIOUS
    <3> HIDE DEF p, q, s, t
    <3>3. Boxed(Body(p, q, s, t), 3)
      BY <3>1, <3>2, FourCells DEF Boxed
    <3> QED BY <3>3 DEF p, q, s, t
  <2>8. Boxed(Body(<<1,0>>, <<1,1>>, <<1,2>>, <<0,1>>), 4)
    <3> DEFINE p == <<1,0>>  q == <<1,1>>  s == <<1,2>>  t == <<0,1>>
    <3>1. {p, q, s, t} \subseteq Box(3)
      BY DEF Box
    <3>2. p # q /\ p # s /\ p # t /\ q # s /\ q # t /\ s # t
      OBVIOUS
    <3> HIDE DEF p, q, s, t
    <3>3. Boxed(Body(p, q, s, t), 4)
      BY <3>1, <3>2, FourCells DEF Boxed
    <3> QED BY <3>3 DEF p, q, s, t
  <2> QED BY <1>5, <2>1, <2>2, <2>3, <2>4, <2>5, <2>6, <2>7, <2>8 DEF Boxed
<1>6. CASE kind = "Z"
  <2>1. Bodies.Z[1] = Body(<<2,1>>, <<1,1>>, <<1,0>>, <<0,0>>)
    BY DEF Bodies
  <2>2. Bodies.Z[2] = Body(<<1,2>>, <<1,1>>, <<2,1>>, <<2,0>>)
    BY DEF Bodies
  <2>3. Bodies.Z[3] = Body(<<2,2>>, <<1,2>>, <<1,1>>, <<0,1>>)
    BY DEF Bodies
  <2>4. Bodies.Z[4] = Body(<<0,2>>, <<0,1>>, <<1,1>>, <<1,0>>)
    BY DEF Bodies
  <2>5. Boxed(Body(<<2,1>>, <<1,1>>, <<1,0>>, <<0,0>>), 1)
    <3> DEFINE p == <<2,1>>  q == <<1,1>>  s == <<1,0>>  t == <<0,0>>
    <3>1. {p, q, s, t} \subseteq Box(3) /\ {p, q, s, t} \subseteq Box(1)
      BY DEF Box
    <3>2. p # q /\ p # s /\ p # t /\ q # s /\ q # t /\ s # t
      OBVIOUS
    <3> HIDE DEF p, q, s, t
    <3>3. Boxed(Body(p, q, s, t), 1)
      BY <3>1, <3>2, FourCells DEF Boxed
    <3> QED BY <3>3 DEF p, q, s, t
  <2>6. Boxed(Body(<<1,2>>, <<1,1>>, <<2,1>>, <<2,0>>), 2)
    <3> DEFINE p == <<1,2>>  q == <<1,1>>  s == <<2,1>>  t == <<2,0>>
    <3>1. {p, q, s, t} \subseteq Box(3)
      BY DEF Box
    <3>2. p # q /\ p # s /\ p # t /\ q # s /\ q # t /\ s # t
      OBVIOUS
    <3> HIDE DEF p, q, s, t
    <3>3. Boxed(Body(p, q, s, t), 2)
      BY <3>1, <3>2, FourCells DEF Boxed
    <3> QED BY <3>3 DEF p, q, s, t
  <2>7. Boxed(Body(<<2,2>>, <<1,2>>, <<1,1>>, <<0,1>>), 3)
    <3> DEFINE p == <<2,2>>  q == <<1,2>>  s == <<1,1>>  t == <<0,1>>
    <3>1. {p, q, s, t} \subseteq Box(3)
      BY DEF Box
    <3>2. p # q /\ p # s /\ p # t /\ q # s /\ q # t /\ s # t
      OBVIOUS
    <3> HIDE DEF p, q, s, t
    <3>3. Boxed(Body(p, q, s, t), 3)
      BY <3>1, <3>2, FourCells DEF Boxed
    <3> QED BY <3>3 DEF p, q, s, t
  <2>8. Boxed(Body(<<0,2>>, <<0,1>>, <<1,1>>, <<1,0>>), 4)
    <3> DEFINE p == <<0,2>>  q == <<0,1>>  s == <<1,1>>  t == <<1,0>>
    <3>1. {p, q, s, t} \subseteq Box(3)
      BY DEF Box
    <3>2. p # q /\ p # s /\ p # t /\ q # s /\ q # t /\ s # t
      OBVIOUS
    <3> HIDE DEF p, q, s, t
    <3>3. Boxed(Body(p, q, s, t), 4)
      BY <3>1, <3>2, FourCells DEF Boxed
    <3> QED BY <3>3 DEF p, q, s, t
  <2> QED BY <1>6, <2>1, <2>2, <2>3, <2>4, <2>5, <2>6, <2>7, <2>8 DEF Boxed
<1>7. CASE kind = "O"
  <2>1. Bodies.O[r] = Body(<<1,0>>, <<1,1>>, <<2,0>>, <<2,1>>)
    BY DEF Bodies
  <2>2. Boxed(Body(<<1,0>>, <<1,1>>, <<2,0>>, <<2,1>>), r)
    <3> DEFINE p == <<1,0>>  q == <<1,1>>  s == <<2,0>>  t == <<2,1>>
    <3>1. {p, q, s, t} \subseteq Box(3) /\ {p, q, s, t} \subseteq Box(1)
      BY DEF Box
    <3>2. p # q /\ p # s /\ p # t /\ q # s /\ q # t /\ s # t
      OBVIOUS
    <3> HIDE DEF p, q, s, t
    <3>3. Boxed(Body(p, q, s, t), r)
      BY <3>1, <3>2, FourCells DEF Boxed
    <3> QED BY <3>3 DEF p, q, s, t
  <2> QED BY <1>7, <2>1, <2>2 DEF Boxed
<1>8. kind \in {"I", "J", "L", "O", "S", "T", "Z"}
  BY DEF Bodies
<1> QED BY <1>1, <1>2, <1>3, <1>4, <1>5, <1>6, <1>7, <1>8

-----------------------------------------------------------------------------
(* Lines.  What a removed line does to the rows above it.                   *)

Rows == INVISIBLE_ROWS_COUNT..(BOARD_HEIGHT - 1)
Columns == 0..(BOARD_WIDTH - 1)

\* The cells of a board that shows.
LEMMA CellsShow ==
  ASSUME NEW g \in SUBSET Visible, NEW c \in g
  PROVE  c[1] \in Columns /\ c[2] \in Rows /\ c = <<c[1], c[2]>>
BY TetrisAssumption DEF TetrisAssumption, Visible, Columns, Rows

\* A cell shows if its row does.
LEMMA ShowsIn ==
  ASSUME NEW x \in Columns, NEW y \in Rows
  PROVE  <<x, y>> \in Visible
BY TetrisAssumption DEF TetrisAssumption, Visible, Columns, Rows

\* The full rows are finitely many; if there are any, there is a lowest.
LEMMA FullRowsFinite ==
  ASSUME NEW g
  PROVE  /\ FullRows(g) \in SUBSET Rows /\ IsFiniteSet(FullRows(g))
         /\ Cardinality(FullRows(g)) \in Nat
<1>1. FullRows(g) \in SUBSET Rows
  BY DEF FullRows, Rows
<1>2. IsFiniteSet(Rows)
  BY FS_Interval, TetrisAssumption DEF TetrisAssumption, Rows
<1> QED BY <1>1, <1>2, FS_Subset, FS_CardinalityType

\* The lowest full row.
LEMMA LowestFull ==
  ASSUME NEW g, FullRows(g) # {}
  PROVE  /\ Max(FullRows(g)) \in FullRows(g) /\ Max(FullRows(g)) \in Rows
         /\ \A r \in FullRows(g) : r <= Max(FullRows(g))
<1>1. FullRows(g) \in SUBSET Rows
  BY FullRowsFinite
<1>2. FullRows(g) \in SUBSET Nat /\ BOARD_HEIGHT \in Nat /\ \A r \in FullRows(g) : r <= BOARD_HEIGHT
  BY <1>1, TetrisAssumption DEF TetrisAssumption, Rows
<1>3. Max(FullRows(g)) \in FullRows(g) /\ \A r \in FullRows(g) : r <= Max(FullRows(g))
  BY <1>2, MaxIsGreatest
<1> QED BY <1>1, <1>3

\* row is the lowest full row of g.
Lowest(g, row) == row \in FullRows(g) /\ row \in Rows /\ \A r \in FullRows(g) : r <= row

\* What is at <<x, y>> when row is gone.
ComesTo(g, row, x, y) ==
  \/ y > row /\ <<x, y>> \in g
  \/ y <= row /\ y - 1 \in Rows /\ <<x, y - 1>> \in g

\* What is left when a row is gone: below it as it was, above it a row further down.
LEMMA LeftCells ==
  ASSUME NEW g \in SUBSET Visible, NEW row \in Rows
  PROVE  /\ LineRemoved(g, row) \in SUBSET Visible
         /\ \A x \in Columns : \A y \in Rows :
              <<x, y>> \in LineRemoved(g, row) <=> ComesTo(g, row, x, y)
<1> DEFINE h == LineRemoved(g, row)
<1> USE TetrisAssumption DEF TetrisAssumption
<1>1. \A c \in g : c[1] \in Columns /\ c[2] \in Rows /\ c = <<c[1], c[2]>>
  BY CellsShow
<1>2. \A c : c \in h <=> \/ c \in g /\ (c[2] > row \/ c[2] < INVISIBLE_ROWS_COUNT)
                         \/ \E d \in g : /\ d[2] < row /\ d[2] + 1 >= INVISIBLE_ROWS_COUNT
                                         /\ c = <<d[1], d[2] + 1>>
  BY DEF LineRemoved
<1>3. \A d \in g : d[2] < row => d[2] + 1 \in Rows /\ d[2] + 1 >= INVISIBLE_ROWS_COUNT
  BY <1>1 DEF Rows
<1>4. \A c \in g : ~(c[2] < INVISIBLE_ROWS_COUNT)
  BY <1>1 DEF Rows
<1>5. ASSUME NEW c \in h PROVE c \in Visible
  <2>1. CASE c \in g
    BY <2>1
  <2>2. ASSUME NEW d \in g, d[2] < row, c = <<d[1], d[2] + 1>> PROVE c \in Visible
    <3>1. d[1] \in Columns /\ d[2] + 1 \in Rows
      BY <1>1, <1>3, <2>2
    <3> QED BY <2>2, <3>1, ShowsIn
  <2> QED BY <1>2, <2>1, <2>2
<1>6. ASSUME NEW x \in Columns, NEW y \in Rows
      PROVE  <<x, y>> \in h <=> ComesTo(g, row, x, y)
  <2>1. y \in Int /\ row \in Int /\ <<x, y>>[2] = y
    BY DEF Rows
  <2>2. ASSUME NEW d \in g, d[2] < row, <<x, y>> = <<d[1], d[2] + 1>>
        PROVE  y <= row /\ y - 1 \in Rows /\ <<x, y - 1>> \in g
    <3>1. d[2] \in Rows /\ d[2] \in Int /\ d = <<d[1], d[2]>>
      BY <1>1 DEF Rows
    <3>2. x = d[1] /\ y = d[2] + 1
      BY <2>2
    <3>3. y - 1 = d[2] /\ y <= row
      BY <2>1, <2>2, <3>1, <3>2
    <3> QED BY <3>1, <3>2, <3>3
  <2>3. ASSUME y <= row, y - 1 \in Rows, <<x, y - 1>> \in g
        PROVE  \E d \in g : d[2] < row /\ d[2] + 1 >= INVISIBLE_ROWS_COUNT
               /\ <<x, y>> = <<d[1], d[2] + 1>>
    <3> DEFINE e == <<x, y - 1>>
    <3>1. e[2] = y - 1 /\ e[1] = x
      OBVIOUS
    <3>2. e[2] < row /\ e[2] + 1 = y
      BY <2>1, <2>3, <3>1
    <3>3. e \in g /\ e[2] + 1 >= INVISIBLE_ROWS_COUNT
      BY <1>3, <2>3, <3>2
    <3> HIDE DEF e
    <3> QED BY <3>1, <3>2, <3>3
  <2>4. <<x, y>> \in g => ~(y < INVISIBLE_ROWS_COUNT)
    BY <1>4, <2>1
  <2> QED BY <1>2, <2>1, <2>2, <2>3, <2>4 DEF ComesTo
<1> QED BY <1>5, <1>6

\* A full row.
LEMMA FullIs ==
  ASSUME NEW g, NEW r \in Rows
  PROVE  /\ r \in FullRows(g) <=> Full(g, r)
         /\ Full(g, r) <=> \A x \in Columns : <<x, r>> \in g
BY DEF FullRows, Full, Rows, Columns

\* The full rows that are left are those above, a row further down.
LEMMA LeftRows ==
  ASSUME NEW g \in SUBSET Visible, NEW row, Lowest(g, row)
  PROVE  FullRows(LineRemoved(g, row)) = {r + 1 : r \in FullRows(g) \ {row}}
<1> DEFINE h == LineRemoved(g, row)
<1> USE TetrisAssumption DEF TetrisAssumption
<1>1. \A x \in Columns : \A y \in Rows :
        <<x, y>> \in h <=> ComesTo(g, row, x, y)
  BY LeftCells DEF Lowest
<1>2. 0 \in Columns /\ row \in Rows /\ row \in Int /\ FullRows(g) \in SUBSET Rows
  BY FullRowsFinite DEF Columns, Lowest, Rows
<1> HIDE DEF h
<1>3. ASSUME NEW y \in Rows PROVE y \in FullRows(h) <=> y - 1 \in FullRows(g) /\ y - 1 # row
  <2>1. y \in Int /\ y - 1 \in Int
    BY DEF Rows
  <2>2. CASE y > row
    <3>1. ~Full(g, y)
      BY <1>2, <2>1, <2>2, FullIs DEF Lowest
    <3>2. ASSUME NEW x \in Columns PROVE <<x, y>> \in h <=> <<x, y>> \in g
      <4>1. <<x, y>> \in h <=> ComesTo(g, row, x, y)
        BY <1>1
      <4> QED BY <1>2, <2>1, <2>2, <4>1 DEF ComesTo
    <3>4. Full(h, y) <=> Full(g, y)
      BY <3>2, FullIs
    <3>3. y - 1 \in FullRows(g) => y - 1 = row
      BY <1>2, <2>1, <2>2 DEF Lowest
    <3> QED BY <3>1, <3>3, <3>4, FullIs
  <2>3. CASE y <= row
    <3>1. y - 1 # row /\ ~(y > row)
      BY <1>2, <2>1, <2>3
    <3>2. CASE y - 1 \in Rows
      <4>1. ASSUME NEW x \in Columns PROVE <<x, y>> \in h <=> <<x, y - 1>> \in g
        <5>1. <<x, y>> \in h <=> ComesTo(g, row, x, y)
          BY <1>1
        <5> QED BY <3>1, <2>3, <3>2, <5>1 DEF ComesTo
      <4>2. Full(h, y) <=> Full(g, y - 1)
        BY <4>1, <3>2, FullIs
      <4> QED BY <3>1, <3>2, <4>2, FullIs
    <3>3. CASE y - 1 \notin Rows
      <4>1. ~ComesTo(g, row, 0, y)
        BY <3>1, <3>3 DEF ComesTo
      <4>2. <<0, y>> \notin h
        BY <1>1, <1>2, <4>1
      <4> QED BY <1>2, <3>3, <4>2, FullIs
    <3> QED BY <3>2, <3>3
  <2> QED BY <1>2, <2>1, <2>2, <2>3
<1>4. FullRows(h) \in SUBSET Rows
  BY FullRowsFinite
<1>5. ASSUME NEW r \in FullRows(g) \ {row} PROVE r + 1 \in Rows /\ (r + 1) - 1 = r
  BY <1>2 DEF Rows, Lowest
<1>6. ASSUME NEW y \in FullRows(h) PROVE y \in {r + 1 : r \in FullRows(g) \ {row}}
  <2>1. y - 1 \in FullRows(g) \ {row} /\ y = (y - 1) + 1
    BY <1>3, <1>4 DEF Rows
  <2> QED BY <2>1
<1>7. ASSUME NEW r \in FullRows(g) \ {row} PROVE r + 1 \in FullRows(h)
  BY <1>3, <1>5
<1>8. FullRows(h) = {r + 1 : r \in FullRows(g) \ {row}}
  BY <1>6, <1>7
<1> QED BY <1>8 DEF h

-----------------------------------------------------------------------------
(* What lies when the full lines are gone.                                  *)

Unfull(g) == {c \in g : ~Full(g, c[2])}
Below(g, n) == {r \in FullRows(g) : r > n}
Fallen(g, c) == <<c[1], c[2] + Cardinality(Below(g, c[2]))>>

\* Settled, with the depth of a fall by name.
LEMMA SettledIs == \A g : Settled(g) = {Fallen(g, c) : c \in Unfull(g)}
BY DEF Settled, Fallen, Below, Unfull

\* The rows below n that were full, a row further down, but for the lowest.
LEMMA LeftBelow ==
  ASSUME NEW g \in SUBSET Visible, NEW row, Lowest(g, row), NEW n \in Rows
  PROVE  /\ n < row => /\ Cardinality(Below(g, n)) \in Nat
                       /\ Cardinality(Below(LineRemoved(g, row), n + 1)) = Cardinality(Below(g,
                         n)) - 1
         /\ n > row => Below(LineRemoved(g, row), n) = {} /\ Below(g, n) = {}
<1> DEFINE h == LineRemoved(g, row)
<1>1. FullRows(h) = {r + 1 : r \in FullRows(g) \ {row}}
  BY LeftRows
<1>2. FullRows(g) \in SUBSET Nat /\ FullRows(g) \in SUBSET Rows /\ IsFiniteSet(FullRows(g))
      /\ row \in FullRows(g) /\ n \in Nat
  BY FullRowsFinite, TetrisAssumption DEF TetrisAssumption, Rows, Lowest
<1> HIDE DEF h
<1>3. ASSUME n < row
      PROVE  /\ Cardinality(Below(g, n)) \in Nat
             /\ Cardinality(Below(h, n + 1)) = Cardinality(Below(g, n)) - 1
  <2> DEFINE S == Below(g, n)
  <2>1. S \in SUBSET FullRows(g) /\ row \in S
    BY <1>2, <1>3 DEF Below
  <2>2. Below(h, n + 1) = {r + 1 : r \in S \ {row}}
    BY <1>1, <1>2 DEF Below
  <2> HIDE DEF S
  <2>3. IsFiniteSet(S) /\ Cardinality(S) \in Nat
    BY <1>2, <2>1, FS_Subset, FS_CardinalityType
  <2>4. IsFiniteSet(S \ {row}) /\ Cardinality(S \ {row}) = Cardinality(S) - 1
    BY <2>1, <2>3, FS_RemoveElement
  <2>5. S \ {row} \in SUBSET Nat
    BY <1>2, <2>1
  <2>6. Cardinality({r + 1 : r \in S \ {row}}) = Cardinality(S \ {row})
    BY <2>4, <2>5, ShiftedAsMany
  <2> QED BY <2>2, <2>3, <2>4, <2>6 DEF S
<1>4. ASSUME n > row PROVE Below(h, n) = {} /\ Below(g, n) = {}
  BY <1>1, <1>2, <1>4 DEF Below, Lowest
<1> QED BY <1>3, <1>4 DEF h

\* A row less.
LEMMA LeftRowCount ==
  ASSUME NEW g \in SUBSET Visible, NEW row, Lowest(g, row)
  PROVE  /\ Cardinality(FullRows(g)) \in Nat
         /\ Cardinality(FullRows(LineRemoved(g, row))) = Cardinality(FullRows(g)) - 1
<1>1. FullRows(g) \in SUBSET Nat /\ IsFiniteSet(FullRows(g)) /\ row \in FullRows(g)
      /\ Cardinality(FullRows(g)) \in Nat
  BY FullRowsFinite, TetrisAssumption DEF TetrisAssumption, Rows, Lowest
<1>2. IsFiniteSet(FullRows(g) \ {row}) /\ FullRows(g) \ {row} \in SUBSET Nat
      /\ Cardinality(FullRows(g) \ {row}) = Cardinality(FullRows(g)) - 1
  BY <1>1, FS_RemoveElement
<1>3. FullRows(LineRemoved(g, row)) = {r + 1 : r \in FullRows(g) \ {row}}
  BY LeftRows
<1> QED BY <1>1, <1>2, <1>3, ShiftedAsMany

\* What falls when the lowest full row is gone, and then the others, is what
\* falls when all are.
LEMMA SettlesAlike ==
  ASSUME NEW g \in SUBSET Visible, NEW row, Lowest(g, row)
  PROVE  Settled(LineRemoved(g, row)) = Settled(g)
<1> DEFINE h == LineRemoved(g, row)
<1> USE TetrisAssumption DEF TetrisAssumption
<1>1. /\ h \in SUBSET Visible
      /\ \A x \in Columns : \A y \in Rows :
           <<x, y>> \in h <=> ComesTo(g, row, x, y)
  BY LeftCells DEF Lowest
<1>2. FullRows(h) = {r + 1 : r \in FullRows(g) \ {row}}
  BY LeftRows
<1>3. \A n \in Rows :
        /\ n < row => /\ Cardinality(Below(g, n)) \in Nat
                      /\ Cardinality(Below(h, n + 1)) = Cardinality(Below(g, n)) - 1
        /\ n > row => Below(h, n) = {} /\ Below(g, n) = {}
  BY LeftBelow
<1>4. \A c \in g : c[1] \in Columns /\ c[2] \in Rows /\ c = <<c[1], c[2]>>
  BY CellsShow
<1>5. \A c \in h : c[1] \in Columns /\ c[2] \in Rows /\ c = <<c[1], c[2]>>
  BY <1>1, CellsShow
<1>6. row \in Rows /\ row \in Int /\ row \in FullRows(g) /\ Full(g, row)
  BY FullIs DEF Lowest, Rows
<1> HIDE DEF h
<1>7. ASSUME NEW x \in Columns, NEW y \in Rows, y > row
      PROVE  /\ <<x, y>> \in Unfull(g) <=> <<x, y>> \in Unfull(h)
             /\ Fallen(h, <<x, y>>) = Fallen(g, <<x, y>>)
  <2>0. <<x, y>> \in h <=> ComesTo(g, row, x, y)
    BY <1>1
  <2>1. <<x, y>> \in h <=> <<x, y>> \in g
    BY <1>6, <1>7, <2>0 DEF Rows, ComesTo
  <2>2. y \notin FullRows(g) /\ y \notin FullRows(h)
    <3>1. \A r \in FullRows(g) : r \in Int /\ r <= row
      BY <1>6 DEF Lowest, Rows
    <3>2. y \in Int /\ row \in Int
      BY <1>6 DEF Rows
    <3>3. y \notin FullRows(g)
      BY <1>7, <3>1, <3>2
    <3>4. \A r \in FullRows(g) \ {row} : r + 1 <= row
      BY <3>1, <3>2
    <3>5. \A r \in FullRows(g) \ {row} : y # r + 1
      BY <1>7, <3>1, <3>2, <3>4
    <3> QED BY <1>2, <3>3, <3>5
  <2>3. ~Full(g, y) /\ ~Full(h, y)
    BY <2>2, FullIs
  <2>4. Below(h, y) = Below(g, y)
    BY <1>3, <1>7
  <2> QED BY <2>1, <2>3, <2>4 DEF Unfull, Fallen
<1>8. ASSUME NEW x \in Columns, NEW y \in Rows, y < row
      PROVE  /\ <<x, y>> \in Unfull(g) <=> <<x, y + 1>> \in Unfull(h)
             /\ Fallen(h, <<x, y + 1>>) = Fallen(g, <<x, y>>)
  <2>1. y + 1 \in Rows /\ y + 1 <= row /\ ~(y + 1 > row) /\ (y + 1) - 1 = y /\ y \in Int /\ y # row
    BY <1>6, <1>8 DEF Rows
  <2>0. <<x, y + 1>> \in h <=> ComesTo(g, row, x, y + 1)
    BY <1>1, <2>1
  <2>2. <<x, y + 1>> \in h <=> <<x, y>> \in g
    BY <2>0, <2>1 DEF ComesTo
  <2>3. y + 1 \in FullRows(h) <=> y \in FullRows(g)
    <3>1. \A r \in FullRows(g) : r \in Int
      BY FullRowsFinite DEF Rows
    <3> QED BY <1>2, <2>1, <3>1
  <2>4. Full(h, y + 1) <=> Full(g, y)
    BY <2>1, <2>3, FullIs
  <2>5. <<x, y>> \in Unfull(g) <=> <<x, y + 1>> \in Unfull(h)
    BY <2>2, <2>4 DEF Unfull
  <2>6. Cardinality(Below(g, y)) \in Nat
        /\ Cardinality(Below(h, y + 1)) = Cardinality(Below(g, y)) - 1
    BY <1>3, <1>8
  <2>7. (y + 1) + Cardinality(Below(h, y + 1)) = y + Cardinality(Below(g, y))
    BY <2>1, <2>6
  <2> QED BY <2>5, <2>7 DEF Fallen
<1>9. ASSUME NEW c \in Unfull(g) PROVE \E e \in Unfull(h) : Fallen(h, e) = Fallen(g, c)
  <2>1. PICK x \in Columns, y \in Rows : c = <<x, y>>
    BY <1>4 DEF Unfull
  <2>2. y # row
    BY <1>6, <2>1 DEF Unfull
  <2>3. y > row \/ y < row
    BY <1>6, <2>2 DEF Rows
  <2>4. CASE y > row
    BY <1>7, <2>1, <2>4
  <2>5. CASE y < row
    <3>1. <<x, y + 1>> \in Unfull(h) /\ Fallen(h, <<x, y + 1>>) = Fallen(g, <<x, y>>)
      BY <1>8, <2>1, <2>5
    <3> QED BY <2>1, <3>1
  <2> QED BY <2>3, <2>4, <2>5
<1>10. ASSUME NEW c \in Unfull(h) PROVE \E e \in Unfull(g) : Fallen(g, e) = Fallen(h, c)
  <2>1. PICK x \in Columns, y \in Rows : c = <<x, y>>
    BY <1>5 DEF Unfull
  <2>2. CASE y > row
    BY <1>7, <2>1, <2>2
  <2>3. CASE y <= row
    <3>1. c \in h /\ ~(y > row) /\ y \in Int
      BY <1>6, <2>1, <2>3 DEF Unfull, Rows
    <3>0. ComesTo(g, row, x, y)
      BY <1>1, <2>1, <3>1
    <3>2. y - 1 \in Rows /\ y - 1 < row /\ (y - 1) + 1 = y
      BY <1>6, <2>3, <3>0, <3>1 DEF ComesTo
    <3>3. <<x, y - 1>> \in Unfull(g) /\ Fallen(h, <<x, (y - 1) + 1>>) = Fallen(g, <<x, y - 1>>)
      BY <1>8, <2>1, <3>2
    <3> QED BY <2>1, <3>2, <3>3
  <2> QED BY <1>6, <2>2, <2>3 DEF Rows
<1>11. {Fallen(h, c) : c \in Unfull(h)} = {Fallen(g, c) : c \in Unfull(g)}
  BY <1>9, <1>10
<1> QED BY <1>11, SettledIs DEF h

-----------------------------------------------------------------------------
(* How many blocks a removed line takes along.                              *)

\* Sets that have nothing in common add up.
LEMMA AddUp ==
  ASSUME NEW S, NEW T, IsFiniteSet(S), IsFiniteSet(T), S \cap T = {}
  PROVE  /\ IsFiniteSet(S \cup T) /\ Cardinality(S) \in Nat /\ Cardinality(T) \in Nat
         /\ Cardinality(S \cup T) = Cardinality(S) + Cardinality(T)
<1>1. Cardinality(S \cap T) = 0
  BY FS_EmptySet
<1>2. Cardinality(S) \in Nat /\ Cardinality(T) \in Nat
  BY FS_CardinalityType
<1>3. IsFiniteSet(S \cup T)
      /\ Cardinality(S \cup T) = Cardinality(S) + Cardinality(T) - Cardinality(S \cap T)
  BY FS_Union
<1> QED BY <1>1, <1>2, <1>3

\* Cells that move down by n are as many as before.
LEMMA MovedAsMany ==
  ASSUME NEW S \in SUBSET Visible, IsFiniteSet(S), NEW T, T = {<<c[1], c[2] + 1>> : c \in S}
  PROVE  IsFiniteSet(T) /\ Cardinality(T) = Cardinality(S)
<1> DEFINE f == [c \in S |-> <<c[1], c[2] + 1>>]
<1>1. \A c \in S : c[1] \in Int /\ c[2] \in Int /\ c = <<c[1], c[2]>>
  BY CellsShow, TetrisAssumption DEF TetrisAssumption, Columns, Rows
<1>2. f \in [S -> T]
  OBVIOUS
<1>3. \A t \in T : \E c \in S : f[c] = t
  OBVIOUS
<1>4. ASSUME NEW a \in S, NEW b \in S, f[a] = f[b] PROVE a = b
  <2>1. a[1] = b[1] /\ a[2] + 1 = b[2] + 1
    BY <1>4
  <2>2. a[2] = b[2]
    BY <1>1, <2>1
  <2> QED BY <1>1, <2>1, <2>2
<1>5. f \in Bijection(S, T)
  BY <1>2, <1>3, <1>4 DEF Bijection, Injection, Surjection, IsInjective
<1>6. ExistsBijection(S, T)
  BY <1>5 DEF ExistsBijection
<1> QED BY <1>6, FS_Bijection

\* A whole line is as many blocks as there are columns.
LEMMA LineCount ==
  ASSUME NEW row \in Rows
  PROVE  /\ IsFiniteSet({<<x, row>> : x \in Columns})
         /\ Cardinality({<<x, row>> : x \in Columns}) = BOARD_WIDTH
<1> DEFINE T == {<<x, row>> : x \in Columns}
           f == [x \in Columns |-> <<x, row>>]
<1>1. f \in [Columns -> T]
  OBVIOUS
<1>2. \A t \in T : \E x \in Columns : f[x] = t
  OBVIOUS
<1>3. \A a, b \in Columns : f[a] = f[b] => a = b
  OBVIOUS
<1>4. f \in Bijection(Columns, T)
  BY <1>1, <1>2, <1>3 DEF Bijection, Injection, Surjection, IsInjective
<1>5. ExistsBijection(Columns, T)
  BY <1>4 DEF ExistsBijection
<1>6. IsFiniteSet(Columns) /\ Cardinality(Columns) = BOARD_WIDTH
  <2>1. 0 \in Int /\ BOARD_WIDTH - 1 \in Int /\ BOARD_WIDTH >= 1 /\ BOARD_WIDTH \in Nat
    BY TetrisAssumption DEF TetrisAssumption
  <2>2. IsFiniteSet(Columns) /\ Cardinality(Columns) = IF 0 > BOARD_WIDTH - 1 THEN 0
        ELSE (BOARD_WIDTH - 1) - 0 + 1
    BY <2>1, FS_Interval DEF Columns
  <2> QED BY <2>1, <2>2
<1> QED BY <1>5, <1>6, FS_Bijection

\* What shows has finitely many cells.
LEMMA VisibleFinite ==
  ASSUME NEW g \in SUBSET Visible
  PROVE  IsFiniteSet(g) /\ Cardinality(g) \in Nat
<1>1. IsFiniteSet(0..(BOARD_WIDTH - 1)) /\ IsFiniteSet(0..(BOARD_HEIGHT - 1))
  BY FS_Interval, TetrisAssumption DEF TetrisAssumption
<1>2. IsFiniteSet((0..(BOARD_WIDTH - 1)) \X (0..(BOARD_HEIGHT - 1)))
  BY <1>1, FS_Product
<1>3. g \in SUBSET ((0..(BOARD_WIDTH - 1)) \X (0..(BOARD_HEIGHT - 1)))
  BY DEF Visible
<1>4. IsFiniteSet(g)
  BY <1>2, <1>3, FS_Subset
<1> QED BY <1>4, FS_CardinalityType

\* A line takes as many blocks along as there are columns.
LEMMA LeftCount ==
  ASSUME NEW g \in SUBSET Visible, NEW row, Lowest(g, row)
  PROVE  Cardinality(LineRemoved(g, row)) + BOARD_WIDTH = Cardinality(g)
<1> DEFINE h == LineRemoved(g, row)
           upper == {c \in g : c[2] < row}
           moved == {<<c[1], c[2] + 1>> : c \in upper}
           lower == {c \in g : c[2] > row}
           line == {<<x, row>> : x \in Columns}
<1>1. \A c \in g : c[1] \in Columns /\ c[2] \in Rows /\ c[2] \in Int /\ c = <<c[1], c[2]>>
  BY CellsShow DEF Rows
<1>2. row \in Rows /\ row \in Int /\ Full(g, row)
  BY FullIs DEF Lowest, Rows
<1>3. upper \in SUBSET Visible /\ lower \in SUBSET Visible
  OBVIOUS
<1>4. line \in SUBSET g
  BY <1>2, FullIs
<1>5. \A c \in g : c[2] = row => c \in line
  BY <1>1
<1>6. g = (upper \cup lower) \cup line
  <2>1. \A c \in g : c[2] < row \/ c[2] > row \/ c[2] = row
    BY <1>1, <1>2
  <2> QED BY <2>1, <1>4, <1>5
<1>7. \A c \in line : c[2] = row
  OBVIOUS
<1>8. (upper \cup lower) \cap line = {} /\ upper \cap lower = {}
  BY <1>1, <1>2, <1>7
<1>9. h = lower \cup moved
  <2>1. \A c \in g : ~(c[2] < INVISIBLE_ROWS_COUNT) /\ c[2] + 1 >= INVISIBLE_ROWS_COUNT
    BY <1>1, TetrisAssumption DEF TetrisAssumption, Rows
  <2>2. {c \in g : c[2] > row \/ c[2] < INVISIBLE_ROWS_COUNT} = lower
    BY <2>1
  <2>3. {d \in g : d[2] < row /\ d[2] + 1 >= INVISIBLE_ROWS_COUNT} = upper
    BY <2>1
  <2> QED BY <2>2, <2>3 DEF LineRemoved
<1>10. \A c \in moved : ~(c[2] > row)
  BY <1>1, <1>2
<1>11. lower \cap moved = {}
  BY <1>10
<1> HIDE DEF h, upper, moved, lower, line
<1>12. IsFiniteSet(upper) /\ IsFiniteSet(lower) /\ IsFiniteSet(line)
       /\ Cardinality(line) = BOARD_WIDTH
  BY <1>2, <1>3, VisibleFinite, LineCount DEF line
<1>13. IsFiniteSet(moved) /\ Cardinality(moved) = Cardinality(upper)
  BY <1>3, <1>12, MovedAsMany DEF moved
<1>14. Cardinality(h) = Cardinality(lower) + Cardinality(upper)
  BY <1>9, <1>11, <1>12, <1>13, AddUp
<1>15. IsFiniteSet(upper \cup lower) /\ Cardinality(upper
       \cup lower) = Cardinality(upper) + Cardinality(lower)
       /\ Cardinality(upper) \in Nat /\ Cardinality(lower) \in Nat
  BY <1>8, <1>12, AddUp
<1>16. Cardinality(g) = Cardinality(upper \cup lower) + BOARD_WIDTH
  BY <1>6, <1>8, <1>12, <1>15, AddUp
<1> QED BY <1>14, <1>15, <1>16 DEF h

-----------------------------------------------------------------------------
(* checkAndRemoveLines: all full lines go, one after the other, and what    *)
(* they leave has no full line.                                             *)

Gone(g) == [fields |-> Settled(g), count |-> Cardinality(FullRows(g))]

\* Nothing falls where no line is full.
LEMMA NoLineFull ==
  ASSUME NEW g \in SUBSET Visible, FullRows(g) = {}
  PROVE  Settled(g) = g /\ Cardinality(FullRows(g)) = 0
<1>1. \A c \in g : c[1] \in Columns /\ c[2] \in Rows /\ c[2] \in Int /\ c = <<c[1], c[2]>>
  BY CellsShow DEF Rows
<1>2. \A c \in g : ~Full(g, c[2])
  BY <1>1, FullIs
<1>3. Unfull(g) = g
  BY <1>2 DEF Unfull
<1>4. \A n : Below(g, n) = {}
  BY DEF Below
<1>5. Cardinality({}) = 0
  BY FS_EmptySet
<1>6. ASSUME NEW c \in g PROVE Fallen(g, c) = c
  <2>2. Cardinality(Below(g, c[2])) = 0
    BY <1>4, <1>5
  <2>3. c[2] \in Int
    BY <1>1
  <2>1. c[2] + Cardinality(Below(g, c[2])) = c[2]
    BY <2>2, <2>3
  <2> QED BY <1>1, <2>1 DEF Fallen
<1>7. {Fallen(g, c) : c \in g} = g
  BY <1>6
<1> QED BY <1>3, <1>5, <1>7, SettledIs

\* The board after the lowest full line is removed.
Next1(g) == LineRemoved(g, Max(FullRows(g)))

\* One line less each time.
LEMMA OneLess ==
  ASSUME NEW g \in SUBSET Visible, FullRows(g) # {}
  PROVE  /\ Next1(g) \in SUBSET Visible
         /\ Settled(Next1(g)) = Settled(g)
         /\ Cardinality(FullRows(g)) \in Nat
         /\ Cardinality(FullRows(Next1(g))) = Cardinality(FullRows(g)) - 1
         /\ Cardinality(Next1(g)) + BOARD_WIDTH = Cardinality(g)
<1>1. Lowest(g, Max(FullRows(g))) /\ Max(FullRows(g)) \in Rows
  BY LowestFull DEF Lowest
<1> QED BY <1>1, LeftCells, SettlesAlike, LeftRowCount, LeftCount DEF Next1

\* What RowsRemoved is to be at g, given what it is elsewhere.
RemovesAt(f, g) ==
  f[g] = IF FullRows(g) = {} THEN [fields |-> g, count |-> 0]
         ELSE [f[Next1(g)] EXCEPT !.count = @ + 1]

\* There is such a function, and so RowsRemoved is one.
LEMMA RowsRemovedIs == \A g \in SUBSET Visible : RemovesAt(RowsRemoved, g)
<1> DEFINE Is(f) == f = [g \in SUBSET Visible |->
                          IF FullRows(g) = {} THEN [fields |-> g, count |-> 0]
                          ELSE [f[LineRemoved(g, Max(FullRows(g)))] EXCEPT !.count = @ + 1]]
           w == [g \in SUBSET Visible |-> Gone(g)]
<1>1. Is(w)
  <2>1. ASSUME NEW g \in SUBSET Visible, FullRows(g) = {}
        PROVE  w[g] = [fields |-> g, count |-> 0]
    BY <2>1, NoLineFull DEF Gone
  <2>2. ASSUME NEW g \in SUBSET Visible, FullRows(g) # {}
        PROVE  w[g] = [w[LineRemoved(g, Max(FullRows(g)))] EXCEPT !.count = @ + 1]
    <3> DEFINE h == LineRemoved(g, Max(FullRows(g)))
    <3>1. h = Next1(g)
      BY DEF Next1
    <3> HIDE DEF h
    <3>2. w[h] = [fields |-> Settled(h), count |-> Cardinality(FullRows(h))]
      BY <2>2, <3>1, OneLess DEF Gone
    <3>3. [w[h] EXCEPT !.count = @ + 1] = [fields |-> Settled(h),
          count |-> Cardinality(FullRows(h)) + 1]
      <4> HIDE DEF w
      <4>1. PICK v : v = w[h]
        OBVIOUS
      <4>2. v = [fields |-> Settled(h), count |-> Cardinality(FullRows(h))]
        BY <3>2, <4>1
      <4>3. [v EXCEPT !.count = @ + 1] = [fields |-> Settled(h),
            count |-> Cardinality(FullRows(h)) + 1]
        BY <4>2
      <4> QED BY <4>1, <4>3
    <3>4. Settled(h) = Settled(g) /\ Cardinality(FullRows(h)) + 1 = Cardinality(FullRows(g))
      BY <2>2, <3>1, OneLess
    <3> QED BY <3>3, <3>4 DEF Gone, h
  <2> HIDE DEF w
  <2>3. w = [g \in SUBSET Visible |-> w[g]]
    BY DEF w
  <2> QED BY <2>1, <2>2, <2>3
<1>2. RowsRemoved = CHOOSE f : Is(f)
  BY DEF RowsRemoved
<1> HIDE DEF w
<1>3. Is(RowsRemoved)
  <2> HIDE DEF Is
  <2> QED BY <1>1, <1>2
<1> QED BY <1>3 DEF RemovesAt, Next1

\* checkAndRemoveLines from a board that shows: the lines that are full are
\* counted, all above them falls, and no line is full in the end.
RemovedWell(g) ==
  /\ RowsRemoved[g] = Gone(g)
  /\ Settled(g) \in SUBSET Visible /\ FullRows(Settled(g)) = {}
  /\ Cardinality(Settled(g)) + BOARD_WIDTH * Cardinality(FullRows(g)) = Cardinality(g)

\* By induction over the number of full lines.
LEMMA AllRemoved == \A g \in SUBSET Visible : RemovedWell(g)
<1> DEFINE T == {n \in Nat : \A g \in SUBSET Visible : Cardinality(FullRows(g)) = n
    => RemovedWell(g)}
<1>1. 0 \in T
  <2> SUFFICES ASSUME NEW g \in SUBSET Visible, Cardinality(FullRows(g)) = 0 PROVE RemovedWell(g)
    OBVIOUS
  <2>1. FullRows(g) = {}
    BY FullRowsFinite, FS_EmptySet
  <2>2. Settled(g) = g
    BY <2>1, NoLineFull
  <2>3. RowsRemoved[g] = [fields |-> g, count |-> 0]
    BY <2>1, RowsRemovedIs DEF RemovesAt
  <2>4. Cardinality(g) \in Nat
    BY VisibleFinite
  <2>5. Cardinality(g) + BOARD_WIDTH * 0 = Cardinality(g)
    BY <2>4, TetrisAssumption DEF TetrisAssumption
  <2> QED BY <2>1, <2>2, <2>3, <2>5 DEF RemovedWell, Gone
<1>2. ASSUME NEW n \in Nat, n \in T PROVE n + 1 \in T
  <2> SUFFICES ASSUME NEW g \in SUBSET Visible, Cardinality(FullRows(g)) = n + 1
      PROVE RemovedWell(g)
    OBVIOUS
  <2> DEFINE h == Next1(g)
  <2>1. FullRows(g) # {}
    BY FS_EmptySet
  <2>2. /\ h \in SUBSET Visible /\ Settled(h) = Settled(g)
        /\ Cardinality(FullRows(h)) = n /\ Cardinality(h) + BOARD_WIDTH = Cardinality(g)
    BY <2>1, OneLess
  <2>3. RemovesAt(RowsRemoved, g)
    BY RowsRemovedIs
  <2>4. RowsRemoved[g] = [RowsRemoved[h] EXCEPT !.count = @ + 1]
    BY <2>1, <2>3 DEF RemovesAt
  <2> HIDE DEF h
  <2>5. RemovedWell(h)
    BY <1>2, <2>2
  <2>6. RowsRemoved[h] = [fields |-> Settled(g), count |-> n]
    BY <2>2, <2>5 DEF RemovedWell, Gone
  <2>7. RowsRemoved[g] = [fields |-> Settled(g), count |-> n + 1]
    BY <2>4, <2>6
  <2>8. Cardinality(Settled(g)) + BOARD_WIDTH * n = Cardinality(h) /\ Settled(g) \in SUBSET Visible
        /\ FullRows(Settled(g)) = {}
    BY <2>2, <2>5 DEF RemovedWell
  <2>9. Cardinality(Settled(g)) \in Nat /\ BOARD_WIDTH \in Nat
    BY <2>8, VisibleFinite, TetrisAssumption DEF TetrisAssumption
  <2>10. BOARD_WIDTH * (n + 1) = BOARD_WIDTH * n + BOARD_WIDTH /\ BOARD_WIDTH * n \in Nat
    BY <2>9
  <2>11. Cardinality(Settled(g)) + BOARD_WIDTH * (n + 1) = Cardinality(g)
    BY <2>2, <2>8, <2>9, <2>10
  <2> QED BY <2>7, <2>8, <2>11 DEF RemovedWell, Gone
<1> HIDE DEF T
<1>3. Nat \subseteq T
  BY <1>1, <1>2, NumbersBelong
<1>4. \A g \in SUBSET Visible : Cardinality(FullRows(g)) \in T
  BY <1>3, FullRowsFinite
<1> QED BY <1>4 DEF T

-----------------------------------------------------------------------------
(* Pieces on the board.                                                     *)

PieceSet == [kind : Kinds, rotation : 0..3, x : Int, y : Int]

\* Four cells are four.
LEMMA FourIsFour ==
  ASSUME NEW S, NEW box, FourIn(S, box)
  PROVE  IsFiniteSet(S) /\ Cardinality(S) = 4
<1>1. PICK a \in box, b \in box, c \in box, d \in box :
        S = {a, b, c, d} /\ a # b /\ a # c /\ a # d /\ b # c /\ b # d /\ c # d
  BY DEF FourIn
<1>2. IsFiniteSet({a}) /\ Cardinality({a}) = 1
  BY FS_Singleton
<1>3. IsFiniteSet({a} \cup {b}) /\ Cardinality({a} \cup {b}) = 2
  BY <1>1, <1>2, FS_AddElement
<1>4. IsFiniteSet(({a} \cup {b}) \cup {c}) /\ Cardinality(({a} \cup {b}) \cup {c}) = 3
  <2>1. c \notin {a} \cup {b}
    BY <1>1
  <2> QED BY <1>3, <2>1, FS_AddElement
<1>5. IsFiniteSet((({a} \cup {b}) \cup {c}) \cup {d})
      /\ Cardinality((({a} \cup {b}) \cup {c}) \cup {d}) = 4
  <2>1. d \notin ({a} \cup {b}) \cup {c}
    BY <1>1
  <2> QED BY <1>4, <2>1, FS_AddElement
<1>6. (({a} \cup {b}) \cup {c}) \cup {d} = S
  BY <1>1
<1> QED BY <1>5, <1>6

\* The body of a piece.
LEMMA BodyIs ==
  ASSUME NEW p \in PieceSet
  PROVE  /\ FourIn(Bodies[p.kind][p.rotation + 1], Box(3))
         /\ p.rotation = 0 => FourIn(Bodies[p.kind][p.rotation + 1], Box(1))
<1>1. p.kind \in Kinds /\ p.rotation \in 0..3
  BY DEF PieceSet
<1>2. p.kind \in DOMAIN Bodies
  BY <1>1, TetrisAssumption DEF TetrisAssumption
<1>3. p.rotation + 1 \in 1..4 /\ (p.rotation = 0 => p.rotation + 1 = 1)
  BY <1>1
<1> QED BY <1>2, <1>3, BodiesAreFour

\* A piece takes four fields wherever it is.
LEMMA FieldsAreFour ==
  ASSUME NEW p \in PieceSet
  PROVE  IsFiniteSet(FieldsOf(p)) /\ Cardinality(FieldsOf(p)) = 4
<1> DEFINE S == Bodies[p.kind][p.rotation + 1]
           f == [b \in S |-> <<b[1] + p.x, b[2] + p.y>>]
<1>1. FourIn(S, Box(3))
  BY BodyIs
<1>2. IsFiniteSet(S) /\ Cardinality(S) = 4 /\ S \subseteq Box(3)
  BY <1>1, FourIsFour DEF FourIn
<1>3. FieldsOf(p) = {<<b[1] + p.x, b[2] + p.y>> : b \in S}
  BY DEF FieldsOf
<1>4. p.x \in Int /\ p.y \in Int
  BY DEF PieceSet
<1> HIDE DEF S
<1>5. \A b \in S : b[1] \in Int /\ b[2] \in Int /\ b = <<b[1], b[2]>>
  BY <1>2 DEF Box
<1>6. f \in [S -> FieldsOf(p)]
  BY <1>3
<1>7. \A t \in FieldsOf(p) : \E b \in S : f[b] = t
  BY <1>3
<1>8. ASSUME NEW a \in S, NEW b \in S, f[a] = f[b] PROVE a = b
  <2>1. a[1] + p.x = b[1] + p.x /\ a[2] + p.y = b[2] + p.y
    BY <1>8
  <2>2. a[1] \in Int /\ b[1] \in Int /\ a[2] \in Int /\ b[2] \in Int
    BY <1>5
  <2>3. \A i, j, k \in Int : i + k = j + k => i = j
    OBVIOUS
  <2>4. a[1] = b[1] /\ a[2] = b[2]
    BY <1>4, <2>1, <2>2, <2>3
  <2> QED BY <1>5, <2>4
<1>9. f \in Bijection(S, FieldsOf(p))
  BY <1>6, <1>7, <1>8 DEF Bijection, Injection, Surjection, IsInjective
<1>10. ExistsBijection(S, FieldsOf(p))
  BY <1>9 DEF ExistsBijection
<1> QED BY <1>2, <1>10, FS_Bijection

\* A new piece is in the rows that do not show.
LEMMA StartsHidden ==
  ASSUME NEW kind \in Kinds
  PROVE  Starting(kind) \in PieceSet /\ FieldsOf(Starting(kind)) \subseteq Board \ Visible
<1> DEFINE p == Starting(kind)
<1>1. p \in PieceSet /\ p.rotation = 0 /\ p.x = StartX /\ p.y = 0
  BY TetrisAssumption DEF TetrisAssumption, Starting, PieceSet
<1> HIDE DEF p
<1>2. Bodies[p.kind][p.rotation + 1] \subseteq Box(1)
  BY <1>1, BodyIs DEF FourIn
<1>3. ASSUME NEW c \in FieldsOf(p) PROVE c \in Board \ Visible
  <2>1. PICK b \in Bodies[p.kind][p.rotation + 1] : c = <<b[1] + p.x, b[2] + p.y>>
    BY DEF FieldsOf
  <2>2. b[1] \in 0..3 /\ b[2] \in 0..1
    BY <1>2 DEF Box
  <2>3. b[1] + p.x \in 0..(BOARD_WIDTH - 1)
    BY <1>1, <2>2, TetrisAssumption DEF TetrisAssumption
  <2>4. b[2] + p.y \in 0..(BOARD_HEIGHT - 1) /\ ~(b[2] + p.y >= INVISIBLE_ROWS_COUNT)
    BY <1>1, <2>2, TetrisAssumption DEF TetrisAssumption
  <2> QED BY <2>1, <2>3, <2>4 DEF Board, Visible
<1> QED BY <1>1, <1>3 DEF p

\* A piece that comes to lie fills at most four lines.
LEMMA FourLines ==
  ASSUME NEW l \in SUBSET Visible, FullRows(l) = {}, NEW p \in PieceSet,
         FieldsOf(p) \subseteq Visible
  PROVE  Cardinality(FullRows(l \cup FieldsOf(p))) \in 0..4
<1> DEFINE g == l \cup FieldsOf(p)
           S == FieldsOf(p)
           T == {c[2] : c \in S}
           f == [c \in S |-> c[2]]
<1>1. IsFiniteSet(S) /\ Cardinality(S) = 4
  BY FieldsAreFour
<1>2. f \in Surjection(S, T)
  BY DEF Surjection
<1>3. IsFiniteSet(T) /\ Cardinality(T) <= 4
  BY <1>1, <1>2, FS_Surjection
<1>4. ASSUME NEW r \in FullRows(g) PROVE r \in T
  <2>1. r \in Rows /\ Full(g, r)
    BY FullRowsFinite, FullIs
  <2>2. ~Full(l, r)
    BY <2>1, FullIs
  <2>3. PICK x \in Columns : <<x, r>> \notin l
    BY <2>1, <2>2, FullIs
  <2>4. <<x, r>> \in S
    BY <2>1, <2>3, FullIs
  <2>5. <<x, r>>[2] = r
    OBVIOUS
  <2> QED BY <2>4, <2>5
<1>5. FullRows(g) \in SUBSET T
  BY <1>4
<1>6. Cardinality(FullRows(g)) <= Cardinality(T) /\ Cardinality(T) \in Nat
      /\ Cardinality(FullRows(g)) \in Nat
  BY <1>3, <1>5, FS_Subset, FS_CardinalityType
<1> QED BY <1>3, <1>6

-----------------------------------------------------------------------------
(* The board.  fields holds the placed blocks, the falling piece where it   *)
(* shows, and above that at most the piece: erasing the piece leaves what   *)
(* is placed, so a move is possible just when the piece meets none of it.   *)

BoardIs(f, p, l) ==
  /\ p \in PieceSet
  /\ l \in SUBSET Visible /\ FullRows(l) = {}
  /\ FieldsOf(p) \subseteq Board \ l
  /\ f \cap Visible = l \cup (FieldsOf(p) \cap Visible)
  /\ f \ Visible \subseteq FieldsOf(p)

BoardOK ==
  /\ nextKind \in Kinds /\ blocked \in BOOLEAN
  /\ lines \in 0..(MaxLines + 3)
  /\ BoardIs(fields, active, placed)

\* What vanishes, vanishes by whole lines.
Conserved == placed' # placed
             => Cardinality(placed') + BOARD_WIDTH * (lines' - lines) = Cardinality(placed) + 4

\* Without the piece, the fields are what is placed.
LEMMA Erased ==
  ASSUME NEW f, NEW p, NEW l, BoardIs(f, p, l)
  PROVE  /\ f \ FieldsOf(p) = l
         /\ f \cup FieldsOf(p) = l \cup FieldsOf(p)
<1>1. ASSUME NEW c \in f, c \notin FieldsOf(p) PROVE c \in l
  BY <1>1 DEF BoardIs
<1>2. ASSUME NEW c \in l PROVE c \in f /\ c \notin FieldsOf(p)
  BY <1>2 DEF BoardIs
<1> QED BY <1>1, <1>2

\* A piece that fits may be put where another was, both ways of marking it.
LEMMA Remarked ==
  ASSUME NEW f, NEW p, NEW l, BoardIs(f, p, l),
         NEW q \in PieceSet, isMovePossible(l, q)
  PROVE  /\ BoardIs(l \cup FieldsOf(q), q, l)
         /\ BoardIs(drawn(l, FieldsOf(p), FieldsOf(q)), q, l)
<1>1. FieldsOf(q) \subseteq Board \ l /\ l \in SUBSET Visible /\ FullRows(l) = {}
  BY DEF BoardIs, isMovePossible
<1>2. l \cap FieldsOf(p) = {}
  BY DEF BoardIs
<1>3. drawn(l, FieldsOf(p), FieldsOf(q)) = l \cup (FieldsOf(q) \cap Visible)
  BY <1>2 DEF drawn
<1>4. (l \cup FieldsOf(q)) \cap Visible = l \cup (FieldsOf(q) \cap Visible)
  BY <1>1
<1>5. (l \cup FieldsOf(q)) \ Visible \subseteq FieldsOf(q)
  BY <1>1
<1>6. (l \cup (FieldsOf(q) \cap Visible)) \cap Visible = l \cup (FieldsOf(q) \cap Visible)
  BY <1>1
<1>7. (l \cup (FieldsOf(q) \cap Visible)) \ Visible \subseteq FieldsOf(q)
  BY <1>1
<1> QED BY <1>1, <1>3, <1>4, <1>5, <1>6, <1>7 DEF BoardIs

\* The piece may stay where it is.
LEMMA MayStay ==
  ASSUME NEW f, NEW p, NEW l, BoardIs(f, p, l)
  PROVE  isMovePossible(l, p) /\ p \in PieceSet
BY DEF BoardIs, isMovePossible

\* A piece turned, shifted or let down is a piece.
LEMMA PiecesMove ==
  ASSUME NEW p \in PieceSet
  PROVE  /\ rotateCW(p) \in PieceSet /\ Down(p) \in PieceSet
         /\ \A x \in Int : [p EXCEPT !.x = @ + x] \in PieceSet
<1>1. p = [kind |-> p.kind, rotation |-> p.rotation, x |-> p.x, y |-> p.y]
      /\ p.kind \in Kinds /\ p.rotation \in 0..3 /\ p.x \in Int /\ p.y \in Int
  BY DEF PieceSet
<1>2. (p.rotation + 1) % 4 \in 0..3 /\ p.y + 1 \in Int
  BY <1>1
<1>3. rotateCW(p) = [kind |-> p.kind, rotation |-> (p.rotation + 1) % 4, x |-> p.x, y |-> p.y]
  BY <1>1 DEF rotateCW
<1>4. Down(p) = [kind |-> p.kind, rotation |-> p.rotation, x |-> p.x, y |-> p.y + 1]
  BY <1>1 DEF Down
<1>5. ASSUME NEW x \in Int PROVE [p EXCEPT !.x = @ + x] \in PieceSet
  <2>1. [p EXCEPT !.x = @ + x] = [kind |-> p.kind, rotation |-> p.rotation, x |-> p.x + x,
        y |-> p.y]
    BY <1>1
  <2>2. p.x + x \in Int
    BY <1>1
  <2> QED BY <1>1, <2>1, <2>2 DEF PieceSet
<1> QED BY <1>1, <1>2, <1>3, <1>4, <1>5 DEF PieceSet

\* Turning the piece.
LEMMA TurnedBoard ==
  ASSUME BoardIs(fields, active, placed), Turned(rotateCW(active)), placed' = placed
  PROVE  BoardIs(fields', active', placed')
<1> DEFINE q == rotateCW(active)
<1>1. fields \ FieldsOf(active) = placed
  BY Erased
<1>2. active \in PieceSet /\ isMovePossible(placed, active)
  BY MayStay
<1>3. q \in PieceSet
  BY <1>2, PiecesMove
<1> HIDE DEF q
<1>4. CASE isMovePossible(placed, q)
  <2>1. active' = q /\ fields' = drawn(placed, FieldsOf(active), FieldsOf(q))
    BY <1>1, <1>4 DEF Turned, q
  <2> QED BY <1>3, <1>4, <2>1, Remarked
<1>5. CASE ~isMovePossible(placed, q)
  <2>1. active' = active /\ fields' = placed \cup FieldsOf(active)
    BY <1>1, <1>5 DEF Turned, q
  <2> QED BY <1>2, <2>1, Remarked
<1> QED BY <1>4, <1>5

\* Shifting it.
LEMMA ShiftedBoard ==
  ASSUME BoardIs(fields, active, placed), NEW x \in Int, Shifted(x), placed' = placed
  PROVE  BoardIs(fields', active', placed')
<1> DEFINE q == [active EXCEPT !.x = @ + x]
<1>1. fields \ FieldsOf(active) = placed
  BY Erased
<1>2. active \in PieceSet /\ isMovePossible(placed, active)
  BY MayStay
<1>3. q \in PieceSet
  BY <1>2, PiecesMove
<1>4. /\ active' = IF isMovePossible(placed, q) THEN q ELSE active
      /\ fields' = placed \cup FieldsOf(active')
  BY <1>1 DEF Shifted
<1> HIDE DEF q
<1>5. active' \in PieceSet /\ isMovePossible(placed, active')
  BY <1>2, <1>3, <1>4
<1> QED BY <1>4, <1>5, Remarked

\* A piece that comes to rest: the lines it fills go, and a new one starts.
LEMMA PlacedBoard ==
  ASSUME BoardOK, placePiece(fields \cup FieldsOf(active))
  PROVE  BoardOK' /\ Conserved
<1> DEFINE F == FieldsOf(active)
           g == placed \cup F
<1>1. BoardIs(fields, active, placed)
  BY DEF BoardOK
<1>2. fields \cup F = g
  BY <1>1, Erased
<1>3. active \in PieceSet /\ isMovePossible(placed, active)
  BY <1>1, MayStay
<1>4. CASE isGameOver
  <2>1. blocked' = TRUE /\ fields' = g /\ UNCHANGED <<active, nextKind, lines, placed>>
    BY <1>2, <1>4 DEF placePiece
  <2>2. BoardIs(g, active, placed)
    BY <1>1, <1>3, Remarked
  <2>3. BoardIs(fields', active', placed')
    BY <2>1, <2>2
  <2> QED BY <2>1, <2>3 DEF BoardOK, Conserved
<1>5. CASE ~isGameOver
  <2>1. /\ lines \in 0..(MaxLines + 3) /\ lines < MaxLines
        /\ fields' = RowsRemoved[g].fields /\ lines' = lines + RowsRemoved[g].count
        /\ active' = Starting(nextKind) /\ nextKind \in Kinds /\ nextKind' \in Kinds
        /\ placed' = Settled(g) /\ blocked' = blocked /\ blocked \in BOOLEAN
    BY <1>2, <1>5 DEF placePiece, BoardOK, Removed
  <2>2. F \subseteq Board \ placed /\ placed \in SUBSET Visible /\ FullRows(placed) = {}
    BY <1>1 DEF BoardIs
  <2>3. F \subseteq Visible
    <3>1. ASSUME NEW c \in F PROVE c \in Visible
      <4>1. c \in Board /\ ~(c[2] < INVISIBLE_ROWS_COUNT)
        BY <1>5, <2>2 DEF isGameOver
      <4>2. c[2] \in Int
        BY <4>1, TetrisAssumption DEF Board, TetrisAssumption
      <4>3. c[2] >= INVISIBLE_ROWS_COUNT
        BY <4>1, <4>2, TetrisAssumption DEF TetrisAssumption
      <4> QED BY <4>1, <4>3 DEF Board, Visible
    <3> QED BY <3>1
  <2> HIDE DEF F
  <2>4. g \in SUBSET Visible
    BY <2>2, <2>3
  <2>5. Cardinality(FullRows(g)) \in 0..4
    BY <1>3, <2>2, <2>3, FourLines DEF F
  <2>6. IsFiniteSet(F) /\ Cardinality(F) = 4
    BY <1>3, FieldsAreFour DEF F
  <2>7. IsFiniteSet(placed) /\ Cardinality(placed) \in Nat
    BY <2>2, VisibleFinite
  <2>8. Cardinality(g) = Cardinality(placed) + 4
    <3>1. F \cap placed = {}
      BY <2>2
    <3> QED BY <2>6, <2>7, <3>1, AddUp
  <2> HIDE DEF g
  <2>9. RemovedWell(g)
    BY <2>4, AllRemoved
  <2>10. RowsRemoved[g] = [fields |-> Settled(g), count |-> Cardinality(FullRows(g))]
    BY <2>9 DEF RemovedWell, Gone
  <2>11. fields' = Settled(g) /\ lines' = lines + Cardinality(FullRows(g))
    BY <2>1, <2>10
  <2>12. lines' \in 0..(MaxLines + 3) /\ lines' - lines = Cardinality(FullRows(g))
    BY <2>1, <2>5, <2>11, TetrisAssumption DEF TetrisAssumption
  <2>13. Settled(g) \in SUBSET Visible /\ FullRows(Settled(g)) = {}
         /\ Cardinality(Settled(g)) + BOARD_WIDTH * Cardinality(FullRows(g)) = Cardinality(g)
    BY <2>9 DEF RemovedWell
  <2>14. Starting(nextKind) \in PieceSet /\ FieldsOf(Starting(nextKind)) \subseteq Board \ Visible
    BY <2>1, StartsHidden
  <2>15. BoardIs(Settled(g), Starting(nextKind), Settled(g))
    BY <2>13, <2>14 DEF BoardIs
  <2>16. BoardIs(fields', active', placed')
    BY <2>1, <2>11, <2>15
  <2>17. Conserved
    BY <2>1, <2>8, <2>12, <2>13 DEF Conserved
  <2> QED BY <2>1, <2>12, <2>16, <2>17 DEF BoardOK
<1> QED BY <1>4, <1>5

\* A piece that goes down or comes to rest.
LEMMA DownBoard ==
  ASSUME BoardOK, movePieceDown
  PROVE  BoardOK' /\ Conserved
<1> DEFINE q == Down(active)
<1>1. BoardIs(fields, active, placed)
  BY DEF BoardOK
<1>2. fields \ FieldsOf(active) = placed
  BY <1>1, Erased
<1>3. q \in PieceSet
  BY <1>1, MayStay, PiecesMove
<1> HIDE DEF q
<1>4. CASE CanFall
  <2>1. isMovePossible(placed, q)
    BY <1>2, <1>4 DEF CanFall, q
  <2>2. /\ active' = q /\ fields' = drawn(placed, FieldsOf(active), FieldsOf(q))
        /\ UNCHANGED <<nextKind, blocked, lines, placed>>
    BY <1>2, <1>4 DEF movePieceDown, q
  <2>3. BoardIs(fields', active', placed')
    BY <1>1, <1>3, <2>1, <2>2, Remarked
  <2> QED BY <2>2, <2>3 DEF BoardOK, Conserved
<1>5. CASE ~CanFall
  BY <1>5, PlacedBoard DEF movePieceDown
<1> QED BY <1>4, <1>5

-----------------------------------------------------------------------------
(* The game.                                                                *)

GameTypes ==
  /\ loop \in {"input", "dropping", "draw", "left"}
  /\ gameState \in {"WAITING", "RUNNING", "PAUSED", "OVER", "EXIT"}
  /\ tickCounter \in 0..GAME_REFRESH_PERIOD

\* A pause that still owes a descent has had none.
PauseOK ==
  /\ pausedMoves \in 0..1
  /\ gameState = "PAUSED" /\ tickCounter = 0 => pausedMoves = 0

TetrisInv == GameTypes /\ BoardOK /\ PauseOK

\* A step that leaves the board alone.
LEMMA BoardStays ==
  ASSUME BoardOK, UNCHANGED boardVars
  PROVE  BoardOK' /\ Conserved
BY DEF BoardOK, boardVars, Conserved

LEMMA TetrisFirst == TetrisInit => TetrisInv
<1> SUFFICES ASSUME TetrisInit PROVE TetrisInv
  OBVIOUS
<1>1. GameTypes /\ PauseOK
  BY TetrisAssumption DEF TetrisInit, GameTypes, PauseOK, TetrisAssumption
<1>2. PICK kind \in Kinds : active = Starting(kind)
  BY DEF TetrisInit
<1>3. active \in PieceSet /\ FieldsOf(active) \subseteq Board \ Visible
  BY <1>2, StartsHidden
<1>4. FullRows({}) = {}
  <2>1. 0 \in Columns
    BY TetrisAssumption DEF TetrisAssumption, Columns
  <2>2. ASSUME NEW r \in FullRows({}) PROVE FALSE
    BY <2>1, <2>2 DEF FullRows, Full, Columns
  <2> QED BY <2>2
<1>5. fields = {} /\ placed = {}
  BY DEF TetrisInit
<1>6. BoardIs(fields, active, placed)
  BY <1>3, <1>4, <1>5 DEF BoardIs
<1>7. nextKind \in Kinds /\ blocked \in BOOLEAN
  BY DEF TetrisInit
<1>8. lines = 0
  BY DEF TetrisInit
<1>9. lines \in 0..(MaxLines + 3)
  BY <1>8, TetrisAssumption DEF TetrisAssumption
<1> QED BY <1>1, <1>6, <1>7, <1>9 DEF TetrisInv, BoardOK

\* What a step does to the board.
LEMMA BoardNext ==
  ASSUME BoardOK, TetrisNext
  PROVE  BoardOK' /\ Conserved
<1>1. CASE NoKey \/ startGame \/ DropKey \/ togglePause \/ ExitKey \/ timerCallback
  BY <1>1, BoardStays DEF NoKey, startGame, DropKey, togglePause, ExitKey, timerCallback
<1>2. CASE RotateKey
  <2>1. BoardIs(fields', active', placed')
    BY <1>2, TurnedBoard DEF RotateKey, BoardOK
  <2> QED BY <1>2, <2>1 DEF RotateKey, BoardOK, Conserved
<1>3. ASSUME NEW x \in {-1, 1}, SideKey(x) PROVE BoardOK' /\ Conserved
  <2>1. BoardIs(fields', active', placed')
    BY <1>3, ShiftedBoard DEF SideKey, BoardOK
  <2> QED BY <1>3, <2>1 DEF SideKey, BoardOK, Conserved
<1>4. CASE DownKey \/ dropPiece
  BY <1>4, DownBoard DEF DownKey, dropPiece
<1>5. CASE drawWindow
  <2>1. CASE tickCounter = 0
    BY <1>5, <2>1, DownBoard DEF drawWindow
  <2>2. CASE tickCounter # 0
    BY <1>5, <2>2, BoardStays DEF drawWindow
  <2> QED BY <2>1, <2>2
<1> QED BY <1>1, <1>2, <1>3, <1>4, <1>5 DEF TetrisNext, MainStep

\* What it does to the game's state and to the tick.
LEMMA GameNext ==
  ASSUME GameTypes, PauseOK, TetrisNext
  PROVE  GameTypes' /\ PauseOK'
<1> USE TetrisAssumption DEF TetrisAssumption, GameTypes, PauseOK, Input, Running
<1>1. CASE NoKey \/ startGame \/ ExitKey \/ togglePause
  BY <1>1 DEF NoKey, startGame, ExitKey, togglePause
<1>2. CASE RotateKey \/ SideKey(-1) \/ SideKey(1) \/ DropKey
  BY <1>2 DEF RotateKey, SideKey, DropKey
<1>3. CASE DownKey \/ dropPiece
  <2>1. tickCounter' \in {tickCounter, GAME_REFRESH_PERIOD}
    BY <1>3 DEF DownKey, dropPiece, resetTickCounter
  <2>2. loop' \in {"dropping", "draw"} /\ gameState' = gameState /\ pausedMoves' = pausedMoves
    BY <1>3 DEF DownKey, dropPiece
  <2>3. GAME_REFRESH_PERIOD \in 0..GAME_REFRESH_PERIOD /\ GAME_REFRESH_PERIOD # 0
    OBVIOUS
  <2> QED BY <2>1, <2>2, <2>3
<1>4. CASE drawWindow
  <2>1. CASE tickCounter = 0
    <3>1. tickCounter' = GAME_REFRESH_PERIOD /\ GAME_REFRESH_PERIOD # 0
      BY <1>4, <2>1 DEF drawWindow, resetTickCounter
    <3>2. pausedMoves' \in 0..1
      BY <1>4, <2>1 DEF drawWindow
    <3>3. gameState' \in {gameState, "OVER"} /\ loop' \in {"left", "input"}
      BY <1>4 DEF drawWindow
    <3> QED BY <3>1, <3>2, <3>3
  <2>2. CASE tickCounter # 0
    <3>1. tickCounter' = tickCounter /\ pausedMoves' = pausedMoves
      BY <1>4, <2>2 DEF drawWindow
    <3>2. gameState' \in {gameState, "OVER"} /\ loop' \in {"left", "input"}
      BY <1>4 DEF drawWindow
    <3> QED BY <2>2, <3>1, <3>2
  <2> QED BY <2>1, <2>2
<1>5. CASE timerCallback
  BY <1>5 DEF timerCallback
<1> QED BY <1>1, <1>2, <1>3, <1>4, <1>5 DEF TetrisNext, MainStep

LEMMA TetrisStep == TetrisInv /\ [TetrisNext]_tetrisVars => TetrisInv'
<1> SUFFICES ASSUME TetrisInv, [TetrisNext]_tetrisVars PROVE TetrisInv'
  OBVIOUS
<1>1. CASE TetrisNext
  BY <1>1, BoardNext, GameNext DEF TetrisInv
<1>2. CASE UNCHANGED tetrisVars
  BY <1>2 DEF tetrisVars, TetrisInv, GameTypes, BoardOK, PauseOK
<1> QED BY <1>1, <1>2

\* What the invariant says to a reader.
LEMMA TetrisInvTells == TetrisInv => PiecesKept
<1> SUFFICES ASSUME TetrisInv PROVE PiecesKept
  OBVIOUS
<1>1. BoardIs(fields, active, placed) /\ lines \in 0..(MaxLines + 3)
  BY DEF TetrisInv, BoardOK
<1>2. Visible \subseteq Board
  BY DEF Visible, Board
<1>3. fields \subseteq Board /\ placed \subseteq Board
  BY <1>1, <1>2 DEF BoardIs
<1>4. TetrisTypeOK
  BY <1>1, <1>3 DEF TetrisInv, GameTypes, TetrisTypeOK
<1>5. FieldsArePieces /\ StartIsFree
  BY <1>1 DEF BoardIs, FieldsArePieces, StartIsFree
<1>6. PausedMovesOnce
  BY DEF TetrisInv, PauseOK, PausedMovesOnce
<1> QED BY <1>4, <1>5, <1>6 DEF PiecesKept

\* PiecesKept, whatever the size of the board: through moves, turns, ticks,
\* drops, pauses and removed lines, the fields are what is placed and the
\* piece that falls, and a pause lets at most one descent through.
THEOREM PiecesAreKept == TetrisInit /\ [][TetrisNext]_tetrisVars => []PiecesKept
<1>1. TetrisInit => TetrisInv
  BY TetrisFirst
<1>2. TetrisInv /\ [TetrisNext]_tetrisVars => TetrisInv'
  BY TetrisStep
<1>3. TetrisInv => PiecesKept
  BY TetrisInvTells
<1> QED BY <1>1, <1>2, <1>3, PTL

\* A line goes for every BOARD_WIDTH blocks that vanish: checkAndRemoveLines
\* counts the lines it removes, and loses and doubles no block above them.
THEOREM BlocksAreConserved == TetrisInit /\ [][TetrisNext]_tetrisVars => BlocksConserved
<1>1. TetrisInit => TetrisInv
  BY TetrisFirst
<1>2. TetrisInv /\ [TetrisNext]_tetrisVars => TetrisInv'
  BY TetrisStep
<1>3. TetrisInv /\ [TetrisNext]_tetrisVars => [Conserved]_tetrisVars
  BY BoardNext DEF TetrisInv
<1>4. [][Conserved]_tetrisVars <=> BlocksConserved
  BY PTL DEF Conserved, BlocksConserved
<1> QED BY <1>1, <1>2, <1>3, <1>4, PTL

-----------------------------------------------------------------------------
(* The console: what is true of it in every state.                          *)

Stages == {"stopped", "modes", "banner", "installed"}
Buffers == {"NULL", "allocated", "freed"}

\* Text modes of one graphics mode.
ModesFor(modes, res, number) ==
  LET sizes(m) == modes[m].size
      max == <<res[1] \div Glyph[1], res[2] \div Glyph[2]>>
  IN  /\ modes = [m \in DOMAIN modes |-> TextMode(sizes(m), res, number)]
      /\ DOMAIN modes = 1..Len(modes) /\ Len(modes) \in Nat \ {0}
      /\ sizes(1) # NoWindow
      /\ \A m \in DOMAIN modes : sizes(m) = NoWindow \/ Fits(sizes(m), max)
      /\ \A m, k \in DOMAIN modes : sizes(m) = sizes(k) => m = k
      /\ max \in {sizes(m) : m \in DOMAIN modes}

GopShape ==
  /\ gop \in [modes : Seq(Resolutions), mode : Nat, broken : SUBSET Nat, path : BOOLEAN,
              pcd : Sizes, hii : BOOLEAN, openBy : {"none", "console"}]
  /\ gop.mode \in 0..(Len(gop.modes) - 1)

\* The resolution and the graphics mode the console was started on.
StartedOn(number) ==
  /\ number \in 0..(Len(gop.modes) - 1)
  /\ ModesFor(gc.modes, gop.modes[number + 1], number)
  /\ (\E m \in DOMAIN gop.modes : gop.modes[m] = gop.pcd /\ m - 1 \notin gop.broken)
       => gop.modes[number + 1] = gop.pcd

GcShape ==
  /\ gc = [modes |-> gc.modes, lineBuffer |-> gc.lineBuffer, at |-> gc.at]
  /\ gc.at \in Stages /\ gc.lineBuffer \in Buffers
  /\ gc.at = "stopped" => gc = NoGc
  /\ gc.at # "stopped" => StartedOn(gc.modes[1].gopMode)
  /\ gop.openBy = "console" <=> gc.at # "stopped"

\* A screen in one of the modes.
Shaped(s) ==
  /\ s = [mode |-> s.mode, attr |-> s.attr, wide |-> s.wide, col |-> s.col, row |-> s.row,
          visible |-> s.visible, cells |-> s.cells, ink |-> s.ink]
  /\ s.mode \in 0..(Len(gc.modes) - 1)
  /\ Window(s) # NoWindow
InWindow(s) ==
  /\ s.col \in 0..(Window(s)[1] - 1) /\ s.row \in 0..(Window(s)[2] - 1)
OnScreen(s) ==
  /\ Shaped(s) /\ InWindow(s) /\ DOMAIN s.cells = Cells(Window(s))

ScrShape ==
  /\ gc.at \in {"stopped", "modes"} => scr = Template
  /\ gc.at \in {"banner", "installed"} =>
       OnScreen(scr) /\ gc.modes[scr.mode + 1].gopMode = gop.mode
  /\ out.active => gc.at \in {"banner", "installed"} /\ out.rest \in Seq(STRING)
  /\ out = [active |-> out.active, rest |-> out.rest, wide |-> out.wide, ideal |-> out.ideal]
  /\ out.active \in BOOLEAN /\ plain \in BOOLEAN
  /\ outputs \in 0..MaxOutputs /\ gcFaults \in 0..MaxGcFaults

\* The cursor is not drawn, or is drawn where it stands.
Off(s) == s.ink = {}
On(s) == s.ink = Mark(s)

\* A wide character that did not fit has moved the cursor to the next line and
\* drawn it there; it will be drawn over it.
Moving(s, rest) == /\ On(s) /\ s.wide /\ s.col = 0
                   /\ rest # <<>> /\ Head(rest) \notin Controls
InkRight ==
  plain => /\ gc.at \in {"banner", "installed"} /\ ~out.active => On(scr)
           /\ out.active => Off(scr) \/ Moving(scr, out.rest)

GcInv == GopShape /\ GcShape /\ ScrShape /\ InkRight
-----------------------------------------------------------------------------
(* The text modes.                                                          *)

MaxCells(res) == <<res[1] \div Glyph[1], res[2] \div Glyph[2]>>

LEMMA Euclid ==
  ASSUME NEW r \in Int, NEW g \in Int, g > 0
  PROVE  r = g * (r \div g) + (r % g)
OBVIOUS

LEMMA CellsFit ==
  ASSUME NEW r \in Nat, NEW g \in Nat \ {0}
  PROVE  /\ r \div g \in Nat /\ (r \div g) * g <= r
         /\ \A s \in Nat : s * g <= r => s <= r \div g
         /\ \A s \in Nat : s <= r \div g => s * g <= r
<1>1. r = (r \div g) * g + (r % g) /\ r \div g \in Nat /\ r % g \in 0..(g - 1)
  <2>1. r % g \in 0..(g - 1) /\ r \div g \in Int /\ r \div g >= 0
    OBVIOUS
  <2>2. r = g * (r \div g) + (r % g)
    BY Euclid
  <2>3. g * (r \div g) = (r \div g) * g
    BY <2>1
  <2>4. r = (r \div g) * g + (r % g)
    BY <2>2, <2>3, Zenon
  <2>5. r \div g \in Nat
    BY <2>1
  <2> QED BY <2>1, <2>4, <2>5, Zenon
<1> DEFINE q == r \div g
           t == r % g
<1>2. q \in Nat /\ t \in 0..(g - 1) /\ r = q * g + t
  BY <1>1
<1> HIDE DEF q, t
<1>3. q * g <= r
  <2>1. q * g \in Int
    BY <1>2
  <2> QED BY <1>2, <2>1
<1>4. ASSUME NEW s \in Nat, s * g <= r PROVE s <= q
  <2> SUFFICES ASSUME s >= q + 1 PROVE FALSE
    BY <1>2
  <2>1. s * g >= (q + 1) * g
    BY <1>2
  <2>2. (q + 1) * g = q * g + g
    BY <1>2
  <2>3. q * g \in Int /\ s * g \in Int
    BY <1>2
  <2> QED BY <1>2, <1>4, <2>1, <2>2, <2>3
<1>5. ASSUME NEW s \in Nat, s <= q PROVE s * g <= r
  <2>1. s * g <= q * g
    BY <1>2, <1>5
  <2>2. q * g \in Int /\ s * g \in Int
    BY <1>2
  <2> QED BY <1>3, <2>1, <2>2
<1> QED BY <1>2, <1>3, <1>4, <1>5 DEF q

\* The screen takes the base mode.
LEMMA BaseFits ==
  ASSUME NEW res \in Resolutions
  PROVE  /\ MaxCells(res) \in (Nat \ {0}) \X (Nat \ {0})
         /\ \A i \in 1..2 : BaseMode[i] <= MaxCells(res)[i]
         /\ Fits(BaseMode, MaxCells(res))
<1>1. /\ Glyph \in (Nat \ {0}) \X (Nat \ {0}) /\ BaseMode \in (Nat \ {0}) \X (Nat \ {0})
  BY GcAssumption
<1>2. /\ res \in Nat \X Nat /\ BaseMode[1] * Glyph[1] <= res[1] /\ BaseMode[2] * Glyph[2] <= res[2]
  BY DEF Resolutions, Sizes
<1>3. /\ Glyph[1] \in Nat \ {0} /\ Glyph[2] \in Nat \ {0} /\ BaseMode[1] \in Nat \ {0}
      /\ BaseMode[2] \in Nat \ {0} /\ res[1] \in Nat /\ res[2] \in Nat
  BY <1>1, <1>2
<1>4. /\ res[1] \div Glyph[1] \in Nat /\ BaseMode[1] <= res[1] \div Glyph[1]
      /\ res[2] \div Glyph[2] \in Nat /\ BaseMode[2] <= res[2] \div Glyph[2]
  BY <1>2, <1>3, CellsFit
<1> DEFINE a == res[1] \div Glyph[1]
           b == res[2] \div Glyph[2]
<1>5. /\ a \in Nat \ {0} /\ b \in Nat \ {0} /\ BaseMode[1] <= a /\ BaseMode[2] <= b
  BY <1>3, <1>4
<1>6. MaxCells(res) = <<a, b>>
  BY DEF MaxCells
<1> HIDE DEF a, b
<1> QED BY <1>1, <1>3, <1>5, <1>6 DEF Fits

\* What an entry of the table does to the list, and the lists it goes through.
Entries(max) == Append(ModeTable, max)
FixedSizes(max) == <<BaseMode, IF Fits(SecondMode, max) THEN SecondMode ELSE NoWindow>>
WithEntry(sizes, size, max) ==
  IF Fits(size, max) /\ size \notin ToSet(sizes) THEN Append(sizes, size) ELSE sizes
ListedAt(f, n, max) ==
  IF n = 0 THEN FixedSizes(max) ELSE WithEntry(f[n - 1], Entries(max)[n], max)
Lists(f, n, max) == f = [i \in 0..n |-> ListedAt(f, i, max)]

LEMMA TableLists ==
  ASSUME NEW max
  PROVE  \A n \in Nat : \E f : Lists(f, n, max)
<1> DEFINE T == {n \in Nat : \E f : Lists(f, n, max)}
<1>1. 0 \in T
  <2>1. Lists([i \in 0..0 |-> FixedSizes(max)], 0, max)
    BY DEF Lists, ListedAt
  <2> QED BY <2>1
<1>2. ASSUME NEW n \in Nat, n \in T PROVE n + 1 \in T
  <2>1. PICK f : Lists(f, n, max)
    BY <1>2
  <2> DEFINE g == [i \in 0..(n + 1) |-> IF i = n + 1 THEN ListedAt(f, i, max) ELSE f[i]]
  <2>2. ASSUME NEW i \in 0..(n + 1) PROVE g[i] = ListedAt(g, i, max)
    <3>1. CASE i = n + 1
      <4>1. g[i] = ListedAt(f, i, max) /\ i # 0 /\ g[i - 1] = f[i - 1]
        BY <3>1
      <4> HIDE DEF g
      <4> QED BY <4>1 DEF ListedAt
    <3>2. CASE i # n + 1
      <4>1. i \in 0..n /\ g[i] = f[i] /\ (i # 0 => g[i - 1] = f[i - 1])
        BY <3>2
      <4>2. f[i] = ListedAt(f, i, max)
        BY <2>1, <4>1 DEF Lists
      <4> HIDE DEF g
      <4> QED BY <4>1, <4>2 DEF ListedAt
    <3> QED BY <3>1, <3>2
  <2>3. g = [i \in 0..(n + 1) |-> g[i]]
    OBVIOUS
  <2> HIDE DEF g
  <2>4. Lists(g, n + 1, max)
    BY <2>2, <2>3 DEF Lists
  <2> QED BY <2>4
<1>3. \A n \in Nat : n \in T => n + 1 \in T
  BY <1>2
<1> HIDE DEF T
<1>4. Nat \subseteq T
  BY <1>1, <1>3, NumbersBelong
<1> QED BY <1>4 DEF T

LEMMA ListedIsLast ==
  ASSUME NEW max, Len(Entries(max)) \in Nat
  PROVE  \E f : Lists(f, Len(Entries(max)), max) /\ ListedSizes(max) = f[Len(Entries(max))]
<1>1. \E f : Lists(f, Len(Entries(max)), max)
  BY TableLists
<1> QED BY <1>1 DEF ListedSizes, Lists, ListedAt, Entries, FixedSizes, WithEntry

\* The sizes listed so far are different ones that fit, the first the base mode's.
SizesRight(sizes, max) ==
  /\ sizes \in Seq(Sizes) /\ Len(sizes) > 0 /\ sizes[1] = BaseMode
  /\ \A m \in 1..Len(sizes) : sizes[m] = NoWindow \/ Fits(sizes[m], max)
  /\ \A m, k \in 1..Len(sizes) : sizes[m] = sizes[k] => m = k

LEMMA EntryAdded ==
  ASSUME NEW max \in Sizes, NEW sizes, SizesRight(sizes, max), NEW size \in Sizes
  PROVE  /\ SizesRight(WithEntry(sizes, size, max), max)
         /\ Fits(size, max) =>
              \E m \in 1..Len(WithEntry(sizes, size, max)) : WithEntry(sizes, size, max)[m] = size
<1> DEFINE t == WithEntry(sizes, size, max)
<1>1. sizes \in Seq(Sizes) /\ Len(sizes) \in Nat /\ DOMAIN sizes = 1..Len(sizes)
  BY LenProperties DEF SizesRight
<1>2. ToSet(sizes) = {sizes[m] : m \in 1..Len(sizes)}
  BY <1>1 DEF ToSet
<1>3. CASE Fits(size, max) /\ size \notin ToSet(sizes)
  <2>1. t = Append(sizes, size)
    BY <1>3 DEF WithEntry
  <2> HIDE DEF t
  <2>2. /\ t \in Seq(Sizes) /\ Len(t) = Len(sizes) + 1
        /\ \A m \in 1..Len(sizes) : t[m] = sizes[m]
        /\ t[Len(sizes) + 1] = size
    BY <1>1, <2>1, AppendProperties
  <2>3. \A m \in 1..Len(t) : m \in 1..Len(sizes) \/ m = Len(sizes) + 1
    BY <1>1, <2>2
  <2>4. \A m \in 1..Len(sizes) : sizes[m] # size
    BY <1>2, <1>3
  <2>5. \A m, k \in 1..Len(t) : t[m] = t[k] => m = k
    BY <2>2, <2>3, <2>4 DEF SizesRight
  <2>6. \A m \in 1..Len(t) : t[m] = NoWindow \/ Fits(t[m], max)
    BY <1>3, <2>2, <2>3 DEF SizesRight
  <2>7. 1 \in 1..Len(sizes) /\ Len(t) > 0 /\ Len(sizes) + 1 \in 1..Len(t)
    BY <1>1, <2>2 DEF SizesRight
  <2>8. SizesRight(t, max)
    BY <2>2, <2>5, <2>6, <2>7 DEF SizesRight
  <2> QED BY <2>2, <2>7, <2>8 DEF t
<1>4. CASE ~(Fits(size, max) /\ size \notin ToSet(sizes))
  <2>1. t = sizes
    BY <1>4 DEF WithEntry
  <2> QED BY <1>2, <1>4, <2>1
<1> QED BY <1>3, <1>4

LEMMA FixedRight ==
  ASSUME NEW max \in Sizes, Fits(BaseMode, max)
  PROVE  SizesRight(FixedSizes(max), max)
<1> DEFINE second == IF Fits(SecondMode, max) THEN SecondMode ELSE NoWindow
<1>1. /\ BaseMode \in (Nat \ {0}) \X (Nat \ {0}) /\ SecondMode \in (Nat \ {0}) \X (Nat \ {0})
      /\ BaseMode # SecondMode
  BY GcAssumption
<1>2. NoWindow \in Sizes /\ BaseMode \in Sizes /\ SecondMode \in Sizes
  BY <1>1 DEF NoWindow, Sizes
<1>3. BaseMode # NoWindow
  BY <1>1 DEF NoWindow
<1>4. second \in Sizes /\ second # BaseMode /\ (second = NoWindow \/ Fits(second, max))
  BY <1>1, <1>2, <1>3
<1>5. FixedSizes(max) = <<BaseMode, second>>
  BY DEF FixedSizes
<1> HIDE DEF second
<1>6. /\ <<BaseMode, second>> \in Seq(Sizes) /\ Len(<<BaseMode, second>>) = 2
      /\ <<BaseMode, second>>[1] = BaseMode /\ <<BaseMode, second>>[2] = second
  BY <1>2, <1>4
<1>7. \A m \in 1..2 : m = 1 \/ m = 2
  OBVIOUS
<1> QED BY <1>4, <1>5, <1>6, <1>7 DEF SizesRight

\* All entries.
LEMMA ListedRight ==
  ASSUME NEW max \in Sizes, Fits(BaseMode, max), Fits(max, max)
  PROVE  /\ SizesRight(ListedSizes(max), max)
         /\ \E m \in 1..Len(ListedSizes(max)) : ListedSizes(max)[m] = max
<1> DEFINE E == Entries(max)
           N == Len(Entries(max))
<1>1. ModeTable \in Seq(Sizes) /\ Len(ModeTable) \in Nat
  BY GcAssumption, LenProperties
<1>2. /\ E \in Seq(Sizes) /\ N = Len(ModeTable) + 1 /\ E[N] = max
  BY <1>1, AppendProperties DEF Entries
<1>3. N \in Nat /\ N >= 1 /\ \A n \in 1..N : E[n] \in Sizes
  BY <1>1, <1>2, ElementOfSeq
<1>4. PICK f : Lists(f, N, max) /\ ListedSizes(max) = f[N]
  BY <1>3, ListedIsLast
<1>5. \A n \in 0..N : f[n] = ListedAt(f, n, max)
  BY <1>4 DEF Lists
<1> DEFINE T == {n \in Nat : n <= N => SizesRight(f[n], max)}
<1>6. 0 \in T
  <2>1. f[0] = FixedSizes(max)
    BY <1>3, <1>5 DEF ListedAt
  <2> QED BY <2>1, FixedRight
<1>7. ASSUME NEW n \in Nat, n + 1 <= N PROVE f[n + 1] = WithEntry(f[n], E[n + 1], max)
  <2>1. n + 1 \in 0..N /\ n + 1 # 0 /\ (n + 1) - 1 = n
    BY <1>3, <1>7
  <2>2. f[n + 1] = ListedAt(f, n + 1, max)
    BY <1>5, <2>1
  <2> QED BY <2>1, <2>2 DEF ListedAt
<1> HIDE DEF E, N
<1>8. ASSUME NEW n \in Nat, n \in T PROVE n + 1 \in T
  <2> SUFFICES ASSUME n + 1 <= N PROVE SizesRight(f[n + 1], max)
    OBVIOUS
  <2>1. SizesRight(f[n], max)
    BY <1>3, <1>8
  <2>2. n + 1 \in 1..N
    BY <1>3
  <2>3. E[n + 1] \in Sizes
    BY <1>3, <2>2
  <2> QED BY <1>7, <2>1, <2>3, EntryAdded
<1>9. \A n \in Nat : n \in T => n + 1 \in T
  BY <1>8
<1>10. Nat \subseteq T
  <2> HIDE DEF T
  <2> QED BY <1>6, <1>9, NumbersBelong
<1>11. SizesRight(f[N], max)
  BY <1>3, <1>10
<1>12. \E m \in 1..Len(f[N]) : f[N][m] = max
  <2>1. PICK n \in Nat : n + 1 = N
    BY <1>1, <1>2
  <2>2. f[N] = WithEntry(f[n], max, max)
    BY <1>2, <1>3, <1>7, <2>1
  <2>3. SizesRight(f[n], max)
    BY <1>3, <1>10, <2>1
  <2> QED BY <2>2, <2>3, EntryAdded
<1> QED BY <1>4, <1>11, <1>12 DEF N

\* The list of modes of a screen is right.
LEMMA ModesAreRight ==
  ASSUME NEW res \in Resolutions, NEW number
  PROVE  ModesFor(InitializeGraphicsConsoleTextMode(res, number), res, number)
<1> DEFINE max == MaxCells(res)
           sizes == ListedSizes(max)
           modes == [i \in DOMAIN sizes |-> TextMode(sizes[i], res, number)]
<1>1. max \in (Nat \ {0}) \X (Nat \ {0}) /\ Fits(BaseMode, max)
  BY BaseFits
<1>2. InitializeGraphicsConsoleTextMode(res, number) = modes
  BY DEF InitializeGraphicsConsoleTextMode, MaxCells
<1>0. MaxCells(res) = <<res[1] \div Glyph[1], res[2] \div Glyph[2]>>
  BY DEF MaxCells
<1> HIDE DEF max
<1>3. max \in Sizes /\ Fits(max, max)
  BY <1>1 DEF Fits, Sizes
<1>4. SizesRight(sizes, max) /\ \E m \in 1..Len(sizes) : sizes[m] = max
  BY <1>1, <1>3, ListedRight
<1> HIDE DEF sizes
<1>5. sizes \in Seq(Sizes) /\ DOMAIN sizes = 1..Len(sizes) /\ Len(sizes) \in Nat \ {0}
  BY <1>4, LenProperties DEF SizesRight
<1>6. DOMAIN modes = 1..Len(sizes) /\ \A i \in 1..Len(sizes) : modes[i] = TextMode(sizes[i], res,
      number)
  BY <1>5
<1>7. \A i \in 1..Len(sizes) : modes[i].size = sizes[i]
  BY <1>6 DEF TextMode
<1>8. modes = [m \in DOMAIN modes |-> TextMode(modes[m].size, res, number)]
  BY <1>5, <1>6, <1>7
<1>9. Len(modes) = Len(sizes)
  BY <1>5, <1>6
<1>10. BaseMode # NoWindow
  BY GcAssumption DEF NoWindow
<1>11. 1 \in 1..Len(sizes)
  BY <1>5
<1>12. modes[1].size # NoWindow
  BY <1>4, <1>7, <1>10, <1>11 DEF SizesRight
<1> HIDE DEF modes
<1>13. \A m \in DOMAIN modes : modes[m].size = NoWindow \/ Fits(modes[m].size, max)
  BY <1>4, <1>6, <1>7 DEF SizesRight
<1>14. \A m, k \in DOMAIN modes : modes[m].size = modes[k].size => m = k
  BY <1>4, <1>6, <1>7 DEF SizesRight
<1>15. max \in {modes[m].size : m \in DOMAIN modes}
  BY <1>4, <1>6, <1>7
<1>16. max = <<res[1] \div Glyph[1], res[2] \div Glyph[2]>>
  BY <1>0 DEF max
<1> QED BY <1>2, <1>5, <1>6, <1>8, <1>9, <1>12, <1>13, <1>14, <1>15, <1>16 DEF ModesFor
-----------------------------------------------------------------------------
(* What is drawn.                                                           *)

Shape(s) ==
  s = [mode |-> s.mode, attr |-> s.attr, wide |-> s.wide, col |-> s.col, row |-> s.row,
       visible |-> s.visible, cells |-> s.cells, ink |-> s.ink]

\* t is s but for what is named.
Is(t, s, wide, col, row, cells, ink) ==
  /\ Shape(t) /\ t.mode = s.mode /\ t.attr = s.attr /\ t.visible = s.visible
  /\ t.wide = wide /\ t.col = col /\ t.row = row /\ t.cells = cells /\ t.ink = ink

LEMMA FieldSet ==
  ASSUME NEW s, Shape(s), NEW x
  PROVE  /\ Is([s EXCEPT !.ink = x], s, s.wide, s.col, s.row, s.cells, x)
         /\ Is([s EXCEPT !.wide = x], s, x, s.col, s.row, s.cells, s.ink)
         /\ Is([s EXCEPT !.col = x], s, s.wide, x, s.row, s.cells, s.ink)
         /\ Is([s EXCEPT !.row = x], s, s.wide, s.col, x, s.cells, s.ink)
         /\ Is([s EXCEPT !.cells = x], s, s.wide, s.col, s.row, x, s.ink)
<1> DEFINE m == s.mode
           a == s.attr
           w == s.wide
           c == s.col
           r == s.row
           v == s.visible
           e == s.cells
           i == s.ink
<1>1. s = [mode |-> m, attr |-> a, wide |-> w, col |-> c, row |-> r, visible |-> v,
           cells |-> e, ink |-> i]
  BY DEF Shape
<1> HIDE DEF m, a, w, c, r, v, e, i
<1>2. /\ [s EXCEPT !.ink = x] = [mode |-> m, attr |-> a, wide |-> w, col |-> c, row |-> r,
                                 visible |-> v, cells |-> e, ink |-> x]
      /\ [s EXCEPT !.wide = x] = [mode |-> m, attr |-> a, wide |-> x, col |-> c, row |-> r,
                                  visible |-> v, cells |-> e, ink |-> i]
      /\ [s EXCEPT !.col = x] = [mode |-> m, attr |-> a, wide |-> w, col |-> x, row |-> r,
                                 visible |-> v, cells |-> e, ink |-> i]
      /\ [s EXCEPT !.row = x] = [mode |-> m, attr |-> a, wide |-> w, col |-> c, row |-> x,
                                 visible |-> v, cells |-> e, ink |-> i]
      /\ [s EXCEPT !.cells = x] = [mode |-> m, attr |-> a, wide |-> w, col |-> c, row |-> r,
                                   visible |-> v, cells |-> x, ink |-> i]
  BY <1>1
<1>4. /\ s.mode = m /\ s.attr = a /\ s.wide = w /\ s.col = c /\ s.row = r
      /\ s.visible = v /\ s.cells = e /\ s.ink = i
  BY DEF m, a, w, c, r, v, e, i
<1>5. \A p, q, j, k, z :
        Is([mode |-> m, attr |-> a, wide |-> p, col |-> q, row |-> j,
            visible |-> v, cells |-> k, ink |-> z], s, p, q, j, k, z)
  BY <1>4 DEF Is, Shape
<1> QED BY <1>2, <1>4, <1>5

LEMMA IsTrans ==
  ASSUME NEW s, NEW t, NEW u, NEW w, NEW c, NEW r, NEW e, NEW i,
         NEW w2, NEW c2, NEW r2, NEW e2, NEW i2,
         Is(t, s, w, c, r, e, i), Is(u, t, w2, c2, r2, e2, i2)
  PROVE  Is(u, s, w2, c2, r2, e2, i2)
BY DEF Is

LEMMA PlaceSet ==
  ASSUME NEW s, Shape(s), NEW x, NEW y
  PROVE  /\ Is([s EXCEPT !.col = x, !.row = y], s, s.wide, x, y, s.cells, s.ink)
         /\ Is([s EXCEPT !.row = y, !.col = x], s, s.wide, x, y, s.cells, s.ink)
         /\ Is([s EXCEPT !.cells = x, !.ink = y], s, s.wide, s.col, s.row, x, y)
<1> DEFINE t == [s EXCEPT !.col = x]
           u == [s EXCEPT !.row = y]
           v == [s EXCEPT !.cells = x]
<1>1. /\ [s EXCEPT !.col = x, !.row = y] = [t EXCEPT !.row = y]
      /\ [s EXCEPT !.row = y, !.col = x] = [u EXCEPT !.col = x]
      /\ [s EXCEPT !.cells = x, !.ink = y] = [v EXCEPT !.ink = y]
  OBVIOUS
<1>2. /\ Is(t, s, s.wide, x, s.row, s.cells, s.ink)
      /\ Is(u, s, s.wide, s.col, y, s.cells, s.ink)
      /\ Is(v, s, s.wide, s.col, s.row, x, s.ink)
  BY FieldSet
<1> HIDE DEF t, u, v
<1>3. Shape(t) /\ Shape(u) /\ Shape(v)
  BY <1>2 DEF Is
<1>4. /\ Is([t EXCEPT !.row = y], t, t.wide, t.col, y, t.cells, t.ink)
      /\ Is([u EXCEPT !.col = x], u, u.wide, x, u.row, u.cells, u.ink)
      /\ Is([v EXCEPT !.ink = y], v, v.wide, v.col, v.row, v.cells, y)
  BY <1>3, FieldSet
<1>5. /\ t.wide = s.wide /\ t.col = x /\ t.cells = s.cells /\ t.ink = s.ink
      /\ u.wide = s.wide /\ u.row = y /\ u.cells = s.cells /\ u.ink = s.ink
      /\ v.wide = s.wide /\ v.col = s.col /\ v.row = s.row /\ v.cells = x
  BY <1>2 DEF Is
<1> QED BY <1>1, <1>2, <1>4, <1>5, IsTrans

\* Only what was drawn may be different.
Stays(s, t) ==
  /\ Shape(t) /\ t.mode = s.mode /\ t.attr = s.attr /\ t.visible = s.visible
  /\ t.wide = s.wide /\ DOMAIN t.cells = DOMAIN s.cells

LEMMA StaysTrans ==
  ASSUME NEW s, NEW t, NEW u, Stays(s, t), Stays(t, u)
  PROVE  Stays(s, u) /\ Window(t) = Window(s) /\ Window(u) = Window(s)
BY DEF Stays, Window

LEMMA IsStays ==
  ASSUME NEW s, NEW t, NEW col, NEW row, NEW ink, Is(t, s, s.wide, col, row, s.cells, ink)
  PROVE  Stays(s, t) /\ t.col = col /\ t.row = row /\ t.ink = ink
BY DEF Is, Stays

LEMMA MarkIs ==
  ASSUME NEW s, NEW t, t.visible = s.visible, t.attr = s.attr, t.col = s.col, t.row = s.row
  PROVE  Mark(t) = Mark(s)
BY DEF Mark, GetTextColors

LEMMA FlushIs ==
  ASSUME NEW s, Shape(s)
  PROVE  LET t == FlushCursor(s)
         IN  /\ Stays(s, t) /\ t.col = s.col /\ t.row = s.row /\ t.cells = s.cells
             /\ Off(s) => On(t)
             /\ On(s) => Off(t)
<1> DEFINE t == FlushCursor(s)
           mark == {<<s.col, s.row, GetTextColors(s).fore>>}
           x == (s.ink \cup mark) \ (s.ink \cap mark)
<1>1. CASE ~s.visible \/ GetTextColors(s).fore = 0
  <2>1. t = s /\ Mark(s) = {}
    BY <1>1 DEF FlushCursor, Mark
  <2> QED BY <2>1 DEF Stays, On, Off
<1>2. CASE ~(~s.visible \/ GetTextColors(s).fore = 0)
  <2>1. t = [s EXCEPT !.ink = (s.ink \ mark) \cup (mark \ s.ink)] /\ Mark(s) = mark
    BY <1>2 DEF FlushCursor, Mark
  <2> HIDE DEF t, mark
  <2>2. Is(t, s, s.wide, s.col, s.row, s.cells, (s.ink \ mark) \cup (mark \ s.ink))
    BY <2>1, FieldSet
  <2>3. Mark(t) = Mark(s)
    BY <2>2, MarkIs DEF Is
  <2>4. Stays(s, t) /\ t.col = s.col /\ t.row = s.row /\ t.cells = s.cells
    BY <2>2 DEF Is, Stays
  <2>5. t.ink = (s.ink \ mark) \cup (mark \ s.ink)
    BY <2>2 DEF Is
  <2>6. s.ink = {} => t.ink = mark
    BY <2>5
  <2>7. s.ink = mark => t.ink = {}
    BY <2>5
  <2> QED BY <2>1, <2>3, <2>4, <2>6, <2>7 DEF On, Off, t
<1> QED BY <1>1, <1>2

\* What the font draws of a text has a cell for its first character.
Glyphs(str) == [i \in DOMAIN str |-> GlyphCells(str[i])]
FlatAt(f, seqs, i) == IF i = 1 THEN seqs[i] ELSE f[i - 1] \o seqs[i]
Flattens(f, seqs, n) == f = [i \in 1..n |-> FlatAt(f, seqs, i)]

LEMMA SeqsFlatten ==
  ASSUME NEW seqs
  PROVE  \A n \in Nat : \E f : Flattens(f, seqs, n)
<1> DEFINE T == {n \in Nat : \E f : Flattens(f, seqs, n)}
<1>1. 0 \in T
  <2>1. 1..0 = {}
    OBVIOUS
  <2>2. Flattens([i \in 1..0 |-> 0], seqs, 0)
    BY <2>1 DEF Flattens
  <2> QED BY <2>2
<1>2. ASSUME NEW n \in Nat, n \in T PROVE n + 1 \in T
  <2>1. PICK f : Flattens(f, seqs, n)
    BY <1>2
  <2> DEFINE g == [i \in 1..(n + 1) |-> IF i = n + 1 THEN FlatAt(f, seqs, i) ELSE f[i]]
  <2>2. ASSUME NEW i \in 1..(n + 1) PROVE g[i] = FlatAt(g, seqs, i)
    <3>1. CASE i = n + 1
      <4>1. g[i] = FlatAt(f, seqs, i) /\ (i # 1 => g[i - 1] = f[i - 1])
        BY <3>1
      <4> HIDE DEF g
      <4> QED BY <4>1 DEF FlatAt
    <3>2. CASE i # n + 1
      <4>1. i \in 1..n /\ g[i] = f[i] /\ (i # 1 => g[i - 1] = f[i - 1])
        BY <3>2
      <4>2. f[i] = FlatAt(f, seqs, i)
        BY <2>1, <4>1 DEF Flattens
      <4> HIDE DEF g
      <4> QED BY <4>1, <4>2 DEF FlatAt
    <3> QED BY <3>1, <3>2
  <2>3. g = [i \in 1..(n + 1) |-> g[i]]
    OBVIOUS
  <2> HIDE DEF g
  <2>4. Flattens(g, seqs, n + 1)
    BY <2>2, <2>3 DEF Flattens
  <2> QED BY <2>4
<1>3. \A n \in Nat : n \in T => n + 1 \in T
  BY <1>2
<1> HIDE DEF T
<1>4. Nat \subseteq T
  BY <1>1, <1>3, NumbersBelong
<1> QED BY <1>4 DEF T

LEMMA FlattenIs ==
  ASSUME NEW seqs, Len(seqs) \in Nat, Len(seqs) # 0
  PROVE  \E f : Flattens(f, seqs, Len(seqs)) /\ FlattenSeq(seqs) = f[Len(seqs)]
<1>1. \E f : Flattens(f, seqs, Len(seqs))
  BY SeqsFlatten
<1> QED BY <1>1 DEF FlattenSeq, Flattens, FlatAt

LEMMA OneOrTwo ==
  ASSUME NEW S, NEW a \in S
  PROVE  /\ <<a>> \in Seq(S) /\ Len(<<a>>) >= 1
         /\ <<a, a>> \in Seq(S) /\ Len(<<a, a>>) >= 1
<1>1. <<a>> \in Seq(S) /\ <<a, a>> \in Seq(S)
  OBVIOUS
<1>2. Len(<<a>>) = 1 /\ Len(<<a, a>>) = 2
  OBVIOUS
<1> QED BY <1>1, <1>2

LEMMA FirstCell ==
  ASSUME NEW S, NEW str \in Seq(S), str # << >>, GraphicsConsoleConOutTestString(str)
  PROVE  1 \in DOMAIN FlattenSeq(Glyphs(str))
<1> DEFINE seqs == Glyphs(str)
           n == Len(str)
           G == S \cup {"w"}
<1>1. n \in Nat /\ n >= 1 /\ DOMAIN str = 1..n
  BY EmptySeq, LenProperties
<1>2. \A i \in 1..n : str[i] \in S /\ str[i] # "?"
  BY <1>1, ElementOfSeq DEF GraphicsConsoleConOutTestString, ToSet
<1>3. ASSUME NEW ch \in S, ch # "?"
      PROVE  GlyphCells(ch) \in Seq(G) /\ Len(GlyphCells(ch)) >= 1
  <2>1. CASE ch = "w"
    <3>1. GlyphCells(ch) = <<"w", "w">>
      BY <2>1 DEF GlyphCells
    <3>2. "w" \in G
      OBVIOUS
    <3> QED BY <3>1, <3>2, OneOrTwo
  <2>2. CASE ch # "w"
    <3>1. GlyphCells(ch) = <<ch>>
      BY <1>3, <2>2 DEF GlyphCells
    <3>2. ch \in G
      OBVIOUS
    <3> QED BY <3>1, <3>2, OneOrTwo
  <2> QED BY <2>1, <2>2
<1>4. Len(seqs) = n /\ \A i \in 1..n : seqs[i] = GlyphCells(str[i])
  BY <1>1 DEF Glyphs
<1> HIDE DEF seqs, n, G
<1>5. \A i \in 1..n : seqs[i] \in Seq(G) /\ Len(seqs[i]) >= 1
  BY <1>2, <1>3, <1>4
<1>6. PICK f : Flattens(f, seqs, n) /\ FlattenSeq(seqs) = f[n]
  BY <1>1, <1>4, FlattenIs
<1> DEFINE T == {i \in Nat : 1 <= i /\ i <= n => f[i] \in Seq(G) /\ Len(f[i]) >= 1}
<1>7. \A i \in 1..n : f[i] = FlatAt(f, seqs, i)
  BY <1>6 DEF Flattens
<1>8. 0 \in T
  OBVIOUS
<1>9. ASSUME NEW i \in Nat, i \in T PROVE i + 1 \in T
  <2> SUFFICES ASSUME i + 1 <= n
               PROVE f[i + 1] \in Seq(G) /\ Len(f[i + 1]) >= 1
    OBVIOUS
  <2>1. i + 1 \in 1..n /\ f[i + 1] = FlatAt(f, seqs, i + 1)
    BY <1>1, <1>7
  <2>2. CASE i = 0
    <3>1. i + 1 = 1
      BY <2>2
    <3>2. f[i + 1] = seqs[i + 1]
      BY <2>1, <3>1 DEF FlatAt
    <3> QED BY <1>5, <2>1, <3>2
  <2>3. CASE i # 0
    <3>1. i + 1 # 1 /\ (i + 1) - 1 = i
      BY <2>3
    <3>2. f[i + 1] = f[i] \o seqs[i + 1]
      BY <2>1, <3>1 DEF FlatAt
    <3>3. f[i] \in Seq(G) /\ Len(f[i]) >= 1
      BY <1>1, <1>9, <2>3
    <3>4. seqs[i + 1] \in Seq(G) /\ Len(seqs[i + 1]) >= 1
      BY <1>5, <2>1
    <3> HIDE DEF T
    <3>5. /\ f[i] \o seqs[i + 1] \in Seq(G)
          /\ Len(f[i] \o seqs[i + 1]) = Len(f[i]) + Len(seqs[i + 1])
      BY <3>3, <3>4, ConcatProperties
    <3>6. Len(f[i]) \in Nat /\ Len(seqs[i + 1]) \in Nat
      BY <3>3, <3>4, LenProperties
    <3>7. Len(f[i]) + Len(seqs[i + 1]) >= 1
      <4>1. PICK a \in Nat, b \in Nat : a = Len(f[i]) /\ b = Len(seqs[i + 1])
        BY <3>6
      <4>2. a >= 1 /\ b >= 1
        BY <3>3, <3>4, <4>1
      <4>3. a + b >= 1
        BY <4>2
      <4> QED BY <4>1, <4>3
    <3> QED BY <3>2, <3>5, <3>7
  <2> QED BY <2>2, <2>3
<1>10. \A i \in Nat : i \in T => i + 1 \in T
  BY <1>9
<1>11. Nat \subseteq T
  <2> HIDE DEF T
  <2> QED BY <1>8, <1>10, NumbersBelong
<1>12. f[n] \in Seq(G) /\ Len(f[n]) >= 1
  BY <1>1, <1>11
<1>13. DOMAIN f[n] = 1..Len(f[n]) /\ Len(f[n]) \in Nat
  BY <1>12, LenProperties
<1>14. 1 \in DOMAIN f[n]
  BY <1>12, <1>13
<1> QED BY <1>6, <1>14 DEF seqs

\* A text leaves the cursor; what it covers it wipes off.
LEMMA DrawIs ==
  ASSUME NEW S, NEW s, Shape(s), NEW str, NEW done \in BOOLEAN
  PROVE  LET t == DrawUnicodeWeightAtCursorN(s, str, done)
         IN  /\ Stays(s, t) /\ t.col = s.col /\ t.row = s.row
             /\ Off(s) => Off(t)
             /\ ~done => t = s
             /\ str = << >> => t.ink = s.ink
             /\ /\ s.col \in Int /\ done /\ On(s) /\ str \in Seq(S) /\ str # << >>
                /\ GraphicsConsoleConOutTestString(str)
                => Off(t)
<1> DEFINE t == DrawUnicodeWeightAtCursorN(s, str, done)
           image == FlattenSeq([i \in DOMAIN str |-> GlyphCells(str[i])])
           Covers(col, row) == row = s.row /\ col - s.col + 1 \in DOMAIN image
           cells == [c \in DOMAIN s.cells |->
                       IF Covers(c[1], c[2]) THEN image[c[1] - s.col + 1] ELSE s.cells[c]]
           ink == {i \in s.ink : ~Covers(i[1], i[2])}
<1>1. CASE ~done
  <2>1. t = s
    BY <1>1 DEF DrawUnicodeWeightAtCursorN
  <2> QED BY <1>1, <2>1 DEF Stays
<1>2. CASE done
  <2>1. t = [s EXCEPT !.cells = cells, !.ink = ink]
    BY <1>2 DEF DrawUnicodeWeightAtCursorN
  <2>2. DOMAIN cells = DOMAIN s.cells
    OBVIOUS
  <2>3. s.ink = {} => ink = {}
    OBVIOUS
  <2>4. ASSUME s.col \in Int, On(s), str \in Seq(S), str # << >>,
               GraphicsConsoleConOutTestString(str)
        PROVE  ink = {}
    <3>1. 1 \in DOMAIN image
      BY <2>4, FirstCell DEF Glyphs
    <3> HIDE DEF image
    <3>2. s.col - s.col + 1 = 1
      BY <2>4
    <3>3. Covers(s.col, s.row)
      BY <3>1, <3>2
    <3>4. ASSUME NEW i \in s.ink PROVE Covers(i[1], i[2])
      <4>1. i = <<s.col, s.row, GetTextColors(s).fore>>
        BY <2>4 DEF On, Mark
      <4>2. i[1] = s.col /\ i[2] = s.row
        BY <4>1
      <4> QED BY <3>3, <4>2
    <3> QED BY <3>4
  <2>7. str = << >> => ink = s.ink
    <3> SUFFICES ASSUME str = << >> PROVE ink = s.ink
      OBVIOUS
    <3>1. [i \in DOMAIN str |-> GlyphCells(str[i])] = << >>
      OBVIOUS
    <3>2. image = << >>
      BY <3>1 DEF FlattenSeq
    <3>3. DOMAIN image = {}
      BY <3>2
    <3> QED BY <3>3
  <2> HIDE DEF t, cells, ink, image
  <2>5. Is(t, s, s.wide, s.col, s.row, cells, ink)
    BY <2>1, PlaceSet
  <2>6. Stays(s, t) /\ t.col = s.col /\ t.row = s.row /\ t.ink = ink
    BY <2>2, <2>5 DEF Is, Stays
  <2> QED BY <1>2, <2>3, <2>4, <2>6, <2>7 DEF On, Off, t
<1> QED BY <1>1, <1>2
-----------------------------------------------------------------------------
(* The end of a line, blanks and runs of text.                              *)

Width(s) == Window(s)[1]
Height(s) == Window(s)[2]
\* A screen that has a mode, with the cursor in one of its rows.
Fine(s) ==
  /\ Shape(s) /\ Width(s) \in Nat \ {0} /\ Height(s) \in Nat \ {0}
  /\ s.row \in 0..(Height(s) - 1)
NextRow(s) == IF s.row = Height(s) - 1 THEN s.row ELSE s.row + 1

LEMMA NextRowIs ==
  ASSUME NEW s, Fine(s)
  PROVE  NextRow(s) \in 0..(Height(s) - 1)
BY DEF Fine, NextRow

LEMMA StaysFine ==
  ASSUME NEW s, NEW t, Fine(s), Stays(s, t), t.row \in 0..(Height(s) - 1)
  PROVE  Fine(t) /\ Width(t) = Width(s) /\ Height(t) = Height(s)
<1>1. Window(t) = Window(s)
  BY DEF Stays, Window
<1> QED BY <1>1 DEF Fine, Stays, Width, Height

LEMMA LineFeedIs ==
  ASSUME NEW s, Fine(s)
  PROVE  LET t == LineFeed(s)
         IN  /\ Stays(s, t) /\ t.col = s.col /\ t.row = NextRow(s)
             /\ Off(s) => Off(t)
<1> DEFINE t == LineFeed(s)
           last == Window(s)[2] - 1
           cells == [c \in DOMAIN s.cells |->
                       IF c[2] = last THEN " " ELSE s.cells[<<c[1], c[2] + 1>>]]
           ink == {i \in s.ink : i[1] >= Window(s)[1]}
                    \cup {<<i[1], i[2] - 1, i[3]>> :
                            i \in {j \in s.ink : j[1] < Window(s)[1] /\ j[2] > 0}}
<1>1. CASE s.row # last
  <2>1. t = [s EXCEPT !.row = s.row + 1]
    BY <1>1 DEF LineFeed
  <2>2. Is(t, s, s.wide, s.col, s.row + 1, s.cells, s.ink)
    BY <2>1, FieldSet DEF Fine
  <2>3. NextRow(s) = s.row + 1
    BY <1>1 DEF NextRow, Height
  <2> HIDE DEF t
  <2> QED BY <2>2, <2>3 DEF Is, Stays, Off, t
<1>2. CASE s.row = last
  <2>1. t = [s EXCEPT !.cells = cells, !.ink = ink]
    BY <1>2 DEF LineFeed
  <2>2. DOMAIN cells = DOMAIN s.cells
    OBVIOUS
  <2>3. s.ink = {} => ink = {}
    OBVIOUS
  <2>4. NextRow(s) = s.row
    BY <1>2 DEF NextRow, Height
  <2> HIDE DEF cells, ink, t
  <2>5. Is(t, s, s.wide, s.col, s.row, cells, ink)
    BY <2>1, PlaceSet DEF Fine
  <2> QED BY <2>2, <2>3, <2>4, <2>5 DEF Is, Stays, Off, t
<1> QED BY <1>1, <1>2

LEMMA CrLfIs ==
  ASSUME NEW s, Fine(s)
  PROVE  LET t == CrLf(s)
         IN  /\ Stays(s, t) /\ t.col = 0 /\ t.row = NextRow(s)
             /\ On(s) => On(t)
<1> DEFINE a == FlushCursor(s)
           b == CarriageReturn(a)
           c == LineFeed(b)
           t == FlushCursor(c)
<1>1. Shape(s) /\ s.row \in 0..(Height(s) - 1)
  BY DEF Fine
<1>2. Stays(s, a) /\ a.row = s.row /\ (On(s) => Off(a))
  BY <1>1, FlushIs
<1> HIDE DEF a
<1>3. Is(b, a, a.wide, 0, a.row, a.cells, a.ink)
  BY <1>2, FieldSet DEF CarriageReturn, Stays
<1> HIDE DEF b
<1>4. Stays(a, b) /\ b.col = 0 /\ b.row = s.row /\ (On(s) => Off(b))
  BY <1>2, <1>3 DEF Is, Stays, Off
<1>5. Stays(s, b)
  BY <1>2, <1>4, StaysTrans
<1>6. Fine(b) /\ Height(b) = Height(s)
  BY <1>1, <1>4, <1>5, StaysFine
<1>7. NextRow(b) = NextRow(s)
  BY <1>4, <1>6 DEF NextRow
<1>8. Stays(b, c) /\ c.col = 0 /\ c.row = NextRow(s) /\ (On(s) => Off(c))
  BY <1>4, <1>6, <1>7, LineFeedIs
<1> HIDE DEF c
<1>9. Stays(s, c) /\ Shape(c)
  BY <1>5, <1>8, StaysTrans DEF Stays
<1>10. Stays(c, t) /\ t.col = 0 /\ t.row = NextRow(s) /\ (On(s) => On(t))
  BY <1>8, <1>9, FlushIs
<1>11. Stays(s, t)
  BY <1>9, <1>10, StaysTrans
<1> QED BY <1>10, <1>11 DEF CrLf, a, b, c

\* Where the cursor is once the line's end is looked after.
WrapIn(s, t) ==
  /\ Stays(s, t)
  /\ t.col = IF s.col >= Width(s) THEN 0 ELSE s.col
  /\ t.row = IF s.col >= Width(s) THEN NextRow(s) ELSE s.row

LEMMA WrapIs ==
  ASSUME NEW s, Fine(s), s.col \in Nat
  PROVE  LET t == Wrap(s)
         IN  /\ WrapIn(s, t)
             /\ Off(s) => Off(t)
             /\ s.col < Width(s) => t = s
<1> DEFINE a == FlushCursor(s)
           b == CrLf(a)
           t == Wrap(s)
<1>1. Shape(s) /\ s.row \in 0..(Height(s) - 1) /\ Width(s) \in Nat
  BY DEF Fine
<1>2. CASE s.col >= Width(s)
  <2>1. t = FlushCursor(b)
    BY <1>2 DEF Wrap, Width
  <2>2. Stays(s, a) /\ a.col = s.col /\ a.row = s.row /\ (Off(s) => On(a))
    BY <1>1, FlushIs
  <2> HIDE DEF a
  <2>3. Fine(a) /\ Height(a) = Height(s)
    BY <1>1, <2>2, StaysFine
  <2>4. NextRow(a) = NextRow(s)
    BY <2>2, <2>3 DEF NextRow
  <2>5. Stays(a, b) /\ b.col = 0 /\ b.row = NextRow(s) /\ (Off(s) => On(b))
    BY <2>2, <2>3, <2>4, CrLfIs
  <2> HIDE DEF b
  <2>6. Stays(s, b) /\ Shape(b)
    BY <2>2, <2>5, StaysTrans DEF Stays
  <2> HIDE DEF t
  <2>7. Stays(b, t) /\ t.col = 0 /\ t.row = NextRow(s) /\ (Off(s) => Off(t))
    BY <2>1, <2>5, <2>6, FlushIs
  <2>8. Stays(s, t)
    BY <2>6, <2>7, StaysTrans
  <2>9. ~(s.col < Width(s))
    BY <1>1, <1>2
  <2> QED BY <1>2, <2>7, <2>8, <2>9 DEF WrapIn, t
<1>3. CASE ~(s.col >= Width(s))
  <2>1. t = s
    BY <1>3 DEF Wrap, Width
  <2> QED BY <1>1, <1>3, <2>1 DEF WrapIn, Stays
<1> QED BY <1>2, <1>3

\* A blank at the cursor.
SpaceIn(s, t) ==
  /\ Stays(s, t)
  /\ t.col = IF s.col + 1 >= Width(s) THEN 0 ELSE s.col + 1
  /\ t.row = IF s.col + 1 >= Width(s) THEN NextRow(s) ELSE s.row

LEMMA BlankHasCell ==
  ASSUME NEW a, a # "?"
  PROVE  <<a>> \in Seq({a}) /\ <<a>> # << >> /\ GraphicsConsoleConOutTestString(<<a>>)
<1>1. <<a>> \in Seq({a}) /\ Len(<<a>>) = 1
  OBVIOUS
<1>2. \A i \in DOMAIN <<a>> : <<a>>[i] = a
  OBVIOUS
<1>3. <<a>> # << >>
  OBVIOUS
<1> QED BY <1>1, <1>2, <1>3 DEF GraphicsConsoleConOutTestString, ToSet

LEMMA SpaceIs ==
  ASSUME NEW s, Fine(s), s.col \in Nat, NEW done \in BOOLEAN
  PROVE  LET t == Space(s, done)
         IN  /\ SpaceIn(s, t)
             /\ done /\ (Off(s) \/ On(s)) => On(t)
<1> DEFINE a == FlushCursor(s)
           b == [a EXCEPT !.wide = FALSE]
           c == DrawUnicodeWeightAtCursorN(b, <<" ">>, done)
           e == [c EXCEPT !.col = c.col + 1]
           f == Wrap(e)
           g == [f EXCEPT !.wide = s.wide]
           t == FlushCursor(g)
           now == done /\ (Off(s) \/ On(s))
<1>0. Space(s, done) = t
  BY DEF Space
<1>1. /\ Shape(s) /\ s.row \in 0..(Height(s) - 1) /\ Width(s) \in Nat /\ s.col \in Int
      /\ Height(s) \in Nat
  BY DEF Fine
<1>2. /\ Stays(s, a) /\ a.col = s.col /\ a.row = s.row
      /\ Off(s) \/ On(s) => Off(a) \/ On(a)
  BY <1>1, FlushIs
<1> HIDE DEF a
<1>3. Is(b, a, FALSE, a.col, a.row, a.cells, a.ink)
  BY <1>2, FieldSet DEF Stays
<1>4. Mark(b) = Mark(a)
  <2> HIDE DEF b
  <2> QED BY <1>3, MarkIs DEF Is
<1>5. /\ Shape(b) /\ b.mode = s.mode /\ b.attr = s.attr /\ b.visible = s.visible
      /\ DOMAIN b.cells = DOMAIN s.cells /\ b.col = s.col /\ b.row = s.row
      /\ now => Off(b) \/ On(b)
  <2> HIDE DEF b
  <2> QED BY <1>2, <1>3, <1>4 DEF Is, Stays, Off, On
<1> HIDE DEF b
<1>6. Stays(b, c) /\ c.col = s.col /\ c.row = s.row /\ (now => Off(c))
  <2>1. /\ <<" ">> \in Seq({" "}) /\ <<" ">> # << >>
        /\ GraphicsConsoleConOutTestString(<<" ">>)
    BY BlankHasCell
  <2> QED BY <1>1, <1>5, <2>1, DrawIs
<1> HIDE DEF c
<1>7. Is(e, c, c.wide, c.col + 1, c.row, c.cells, c.ink)
  BY <1>6, FieldSet DEF Stays
<1> HIDE DEF e
<1>8. /\ Shape(e) /\ e.mode = s.mode /\ e.attr = s.attr /\ e.visible = s.visible
      /\ DOMAIN e.cells = DOMAIN s.cells /\ e.col = s.col + 1 /\ e.row = s.row
      /\ now => Off(e)
  BY <1>5, <1>6, <1>7 DEF Is, Stays, Off
<1>9. Window(e) = Window(s)
  BY <1>8 DEF Window
<1>10. Fine(e) /\ e.col \in Nat /\ Width(e) = Width(s) /\ NextRow(e) = NextRow(s)
  BY <1>1, <1>8, <1>9 DEF Fine, Width, Height, NextRow
<1>11. WrapIn(e, f) /\ (now => Off(f))
  BY <1>8, <1>10, WrapIs
<1> HIDE DEF f
<1>12. Is(g, f, s.wide, f.col, f.row, f.cells, f.ink)
  BY <1>11, FieldSet DEF WrapIn, Stays
<1> HIDE DEF g
<1>13. /\ Stays(s, g)
       /\ g.col = IF s.col + 1 >= Width(s) THEN 0 ELSE s.col + 1
       /\ g.row = IF s.col + 1 >= Width(s) THEN NextRow(s) ELSE s.row
  BY <1>8, <1>10, <1>11, <1>12 DEF Is, Stays, WrapIn
<1>14. now => Off(g)
  BY <1>11, <1>12 DEF Is, Off
<1>15. Stays(g, t) /\ t.col = g.col /\ t.row = g.row /\ (now => On(t))
  BY <1>13, <1>14, FlushIs DEF Stays
<1> HIDE DEF t
<1>16. Stays(s, t)
  BY <1>13, <1>15, StaysTrans
<1> QED BY <1>0, <1>13, <1>15, <1>16 DEF SpaceIn
\* A backspace ends in the window, and draws no mark.
LEMMA BackspaceIs ==
  ASSUME NEW s, Fine(s), s.col \in 0..(Width(s) - 1), NEW done \in BOOLEAN
  PROVE  LET t == Backspace(s, done)
         IN  /\ Stays(s, t) /\ t.col \in 0..(Width(s) - 1) /\ t.row \in 0..(Height(s) - 1)
             /\ done /\ Off(s) => Off(t)
<1> DEFINE last == Width(s) - 1
           t == Backspace(s, done)
<1>0. /\ Shape(s) /\ Width(s) \in Nat /\ Width(s) >= 1 /\ Height(s) \in Nat /\ s.col \in Nat
      /\ s.row \in 0..(Height(s) - 1)
  BY DEF Fine
<1>1. CASE s.col = 0 /\ s.row > 0
  <2> DEFINE a == [s EXCEPT !.row = s.row - 1, !.col = last]
             b == Space(a, done)
             c == FlushCursor(b)
             e == [c EXCEPT !.row = c.row - 1, !.col = last]
  <2>1. t = e
    BY <1>1 DEF Backspace, Width
  <2>2. Is(a, s, s.wide, last, s.row - 1, s.cells, s.ink)
    BY <1>0, PlaceSet
  <2> HIDE DEF a
  <2>3. Stays(s, a) /\ a.col = last /\ a.row = s.row - 1 /\ (Off(s) => Off(a))
    BY <2>2 DEF Is, Stays, Off
  <2>4. Fine(a) /\ Width(a) = Width(s) /\ Height(a) = Height(s)
    BY <1>0, <1>1, <2>3, StaysFine
  <2>5. NextRow(a) = s.row /\ a.col \in Nat /\ a.col + 1 >= Width(a)
    BY <1>0, <1>1, <2>3, <2>4 DEF NextRow
  <2>6. Stays(a, b) /\ b.row = s.row /\ (done /\ Off(s) => On(b))
    BY <2>3, <2>4, <2>5, SpaceIs DEF SpaceIn
  <2> HIDE DEF b
  <2>7. Stays(b, c) /\ c.row = s.row /\ (done /\ Off(s) => Off(c))
    BY <2>6, FlushIs DEF Stays
  <2> HIDE DEF c
  <2>8. Is(e, c, c.wide, last, c.row - 1, c.cells, c.ink)
    BY <2>7, PlaceSet DEF Stays
  <2> HIDE DEF e
  <2>9. Stays(c, e) /\ e.col = last /\ e.row = s.row - 1 /\ (done /\ Off(s) => Off(e))
    BY <2>7, <2>8 DEF Is, Stays, Off
  <2>10. Stays(s, e)
    BY <2>3, <2>6, <2>7, <2>9, StaysTrans
  <2>11. last \in 0..(Width(s) - 1) /\ s.row - 1 \in 0..(Height(s) - 1)
    BY <1>0, <1>1
  <2> QED BY <2>1, <2>9, <2>10, <2>11
<1>2. CASE s.col > 0
  <2> DEFINE a == [s EXCEPT !.col = s.col - 1]
             b == Space(a, done)
             c == FlushCursor(b)
             e == [c EXCEPT !.col = c.col - 1]
  <2>1. t = e
    BY <1>0, <1>2 DEF Backspace
  <2>2. Is(a, s, s.wide, s.col - 1, s.row, s.cells, s.ink)
    BY <1>0, FieldSet
  <2> HIDE DEF a
  <2>3. Stays(s, a) /\ a.col = s.col - 1 /\ a.row = s.row /\ (Off(s) => Off(a))
    BY <2>2 DEF Is, Stays, Off
  <2>4. Fine(a) /\ Width(a) = Width(s) /\ Height(a) = Height(s)
    BY <1>0, <2>3, StaysFine
  <2>5. a.col \in Nat /\ a.col + 1 = s.col /\ ~(a.col + 1 >= Width(a))
    BY <1>0, <1>2, <2>3, <2>4
  <2>6. Stays(a, b) /\ b.col = s.col /\ b.row = s.row /\ (done /\ Off(s) => On(b))
    BY <2>3, <2>4, <2>5, SpaceIs DEF SpaceIn
  <2> HIDE DEF b
  <2>7. Stays(b, c) /\ c.col = s.col /\ c.row = s.row /\ (done /\ Off(s) => Off(c))
    BY <2>6, FlushIs DEF Stays
  <2> HIDE DEF c
  <2>8. Is(e, c, c.wide, c.col - 1, c.row, c.cells, c.ink)
    BY <2>7, FieldSet DEF Stays
  <2> HIDE DEF e
  <2>9. Stays(c, e) /\ e.col = s.col - 1 /\ e.row = s.row /\ (done /\ Off(s) => Off(e))
    BY <2>7, <2>8 DEF Is, Stays, Off
  <2>10. Stays(s, e)
    BY <2>3, <2>6, <2>7, <2>9, StaysTrans
  <2>11. s.col - 1 \in 0..(Width(s) - 1)
    BY <1>0, <1>2
  <2> QED BY <1>0, <2>1, <2>9, <2>10, <2>11
<1>3. CASE ~(s.col = 0 /\ s.row > 0) /\ ~(s.col > 0)
  <2>1. t = s
    BY <1>3 DEF Backspace
  <2> QED BY <1>0, <2>1 DEF Stays
<1> QED BY <1>1, <1>2, <1>3

\* The text in front of the next control character.
TextLength(str) ==
  CHOOSE k \in 0..Len(str) :
    /\ \A i \in 1..k : str[i] \notin Controls
    /\ k < Len(str) => str[k + 1] \in Controls

LEMMA TextLengthIs ==
  ASSUME NEW str, Len(str) \in Nat
  PROVE  /\ TextLength(str) \in 0..Len(str)
         /\ \A i \in 1..TextLength(str) : str[i] \notin Controls
         /\ TextLength(str) < Len(str) => str[TextLength(str) + 1] \in Controls
<1> DEFINE C == {i \in 1..Len(str) : str[i] \in Controls}
           Ends(k) == /\ \A i \in 1..k : str[i] \notin Controls
                      /\ k < Len(str) => str[k + 1] \in Controls
<1>1. \E k \in 0..Len(str) : Ends(k)
  <2>1. CASE C = {}
    <3>1. Ends(Len(str)) /\ Len(str) \in 0..Len(str)
      BY <2>1
    <3> QED BY <3>1
  <2>2. CASE C # {}
    <3>1. C \in SUBSET Nat
      OBVIOUS
    <3>2. PICK m \in C : \A k \in C : m <= k
      BY <2>2, <3>1, LeastNumber
    <3>3. m - 1 \in 0..Len(str) /\ (m - 1) + 1 = m
      BY <3>2
    <3>4. \A i \in 1..(m - 1) : i \in 1..Len(str) /\ ~(m <= i)
      BY <3>2
    <3>5. \A i \in 1..(m - 1) : str[i] \notin Controls
      BY <3>2, <3>4
    <3>6. str[(m - 1) + 1] \in Controls
      BY <3>2, <3>3
    <3> QED BY <3>3, <3>5, <3>6
  <2> QED BY <2>1, <2>2
<1>2. TextLength(str) = CHOOSE k \in 0..Len(str) : Ends(k)
  BY DEF TextLength
<1> HIDE DEF Ends
<1>3. TextLength(str) \in 0..Len(str) /\ Ends(TextLength(str))
  BY <1>1, <1>2
<1> QED BY <1>3 DEF Ends

\* How much of the text is drawn: a run that goes over the line's end stops in
\* front of a wide character.
LEMMA RunIs ==
  ASSUME NEW s, Fine(s), s.col \in 0..(Width(s) - 1),
         NEW S, NEW str \in Seq(S), str # << >>, Head(str) \notin Controls
  PROVE  LET r == Run(s, str)
         IN  /\ r.count \in 0..Len(str) /\ r.units \in Nat
             /\ s.col + r.units <= Width(s) + 1
             /\ s.col + r.units > Width(s)
                => s.wide /\ r.count < Len(str) /\ str[r.count + 1] \notin Controls
             /\ r.count = 0 => r.units = 2 /\ s.col + 1 = Width(s)
<1> DEFINE n == TextLength(str)
           room == Width(s) - s.col
           half == room \div 2
           whole == IF n < half THEN n ELSE half
           cut == n > whole /\ room % 2 = 1
           narrow == IF n < room THEN n ELSE room
           r == Run(s, str)
<1>1. /\ Width(s) \in Nat /\ s.col \in Nat /\ room \in Nat /\ room >= 1
      /\ s.col + room = Width(s)
  BY DEF Fine
<1>2. Len(str) \in Nat /\ Len(str) >= 1 /\ str[1] \notin Controls
  BY LenProperties, EmptySeq
<1>3. /\ n \in 0..Len(str) /\ n >= 1
      /\ \A i \in 1..n : str[i] \notin Controls
  BY <1>2, TextLengthIs
<1>4. /\ half \in Nat /\ 2 * half <= room /\ (room % 2 = 1 => 2 * half + 1 = room)
      /\ (half = 0 => room = 1)
  <2> HIDE DEF room
  <2>1. room \div 2 \in Nat /\ room % 2 \in 0..1 /\ room = 2 * (room \div 2) + (room % 2)
    BY <1>1
  <2> QED BY <1>1, <2>1
<1>5. r = IF ~s.wide THEN [count |-> narrow, units |-> narrow]
          ELSE [count |-> whole, units |-> 2 * whole + (IF cut THEN 2 ELSE 0)]
  BY DEF Run, TextLength, Width
<1>6. n \in Nat /\ n <= Len(str)
  BY <1>2, <1>3
<1> HIDE DEF n, room, r
<1>7. CASE ~s.wide
  <2>1. r.count = narrow /\ r.units = narrow
    BY <1>5, <1>7
  <2>2. narrow \in 0..Len(str) /\ narrow \in Nat /\ narrow <= room /\ narrow >= 1
    BY <1>1, <1>2, <1>3, <1>6
  <2> HIDE DEF narrow
  <2>3. s.col + narrow <= Width(s)
    BY <1>1, <2>2
  <2> QED BY <1>1, <2>1, <2>2, <2>3 DEF r
<1>8. CASE s.wide
  <2>1. r.count = whole /\ r.units = 2 * whole + (IF cut THEN 2 ELSE 0)
    BY <1>5, <1>8
  <2> HIDE DEF half
  <2>2. whole \in 0..Len(str) /\ whole \in Nat /\ whole <= half /\ whole <= n
    BY <1>2, <1>4, <1>6
  <2>3. n > whole => whole = half
    BY <1>4, <1>6
  <2> HIDE DEF whole
  <2>4. CASE cut
    <3>1. room % 2 = 1 /\ n > whole
      BY <2>4
    <3>2. whole = half /\ 2 * half + 1 = room
      BY <1>4, <2>3, <3>1
    <3>3. r.units = 2 * whole + 2
      BY <2>1, <2>4
    <3>4. s.col + (2 * whole + 2) = Width(s) + 1 /\ 2 * whole + 2 \in Nat
      <4> DEFINE W == Width(s)
                 c == s.col
      <4>1. W \in Nat /\ c \in Nat /\ c + room = W /\ whole \in Nat /\ 2 * whole + 1 = room
        BY <1>1, <2>2, <3>2
      <4> HIDE DEF W, c
      <4>2. c + (2 * whole + 2) = W + 1 /\ 2 * whole + 2 \in Nat
        BY <4>1
      <4> QED BY <4>2 DEF W, c
    <3>7. whole = 0 => r.units = 2 /\ s.col + 1 = Width(s)
      <4> SUFFICES ASSUME whole = 0 PROVE r.units = 2 /\ s.col + 1 = Width(s)
        OBVIOUS
      <4>1. 2 * whole + 2 = 2 /\ 2 * whole + 1 = 1
        OBVIOUS
      <4>2. room = 1
        BY <3>2, <4>1
      <4> QED BY <1>1, <3>3, <4>1, <4>2
    <3>8. r.units \in Nat /\ s.col + r.units = Width(s) + 1
      BY <3>3, <3>4
    <3>5. whole < Len(str) /\ whole + 1 \in 1..n
      BY <1>2, <1>6, <2>2, <3>1
    <3>6. str[whole + 1] \notin Controls
      BY <1>3, <3>5
    <3> HIDE DEF cut
    <3> QED BY <1>1, <1>8, <2>1, <2>2, <3>5, <3>6, <3>7, <3>8 DEF r
  <2>5. CASE ~cut
    <3>1. r.units = 2 * whole
      BY <2>1, <2>2, <2>5
    <3>2. 2 * whole <= room
      BY <1>1, <1>4, <2>2
    <3>3. r.units \in Nat /\ s.col + r.units <= Width(s)
      BY <1>1, <2>2, <3>1, <3>2
    <3>4. whole # 0
      <4> SUFFICES ASSUME whole = 0 PROVE FALSE
        OBVIOUS
      <4>1. n > whole
        BY <1>3, <1>6
      <4>2. half = 0
        BY <2>3, <4>1
      <4>3. room % 2 = 1
        BY <1>4, <4>2
      <4> QED BY <2>5, <4>1, <4>3
    <3> HIDE DEF cut
    <3> QED BY <1>1, <2>1, <2>2, <3>3, <3>4 DEF r
  <2> QED BY <2>4, <2>5
<1> QED BY <1>7, <1>8

\* What is left of a text.
LEMMA RestIs ==
  ASSUME NEW S, NEW str \in Seq(S), NEW k \in Nat, k <= Len(str)
  PROVE  LET rest == SubSeq(str, k + 1, Len(str))
         IN  /\ rest \in Seq(S)
             /\ k < Len(str) => rest # << >> /\ Head(rest) = str[k + 1]
<1> DEFINE n == Len(str)
           rest == SubSeq(str, k + 1, n)
<1>1. n \in Nat /\ k <= n /\ n \in Int /\ k + 1 \in Int
  BY LenProperties
<1>2. \A i \in (k + 1)..n : str[i] \in S
  <2>1. \A i \in (k + 1)..n : i \in 1..n
    BY <1>1
  <2> QED BY <2>1, ElementOfSeq
<1> HIDE DEF n
<1>3. /\ rest \in Seq(S)
      /\ Len(rest) = IF k + 1 <= n THEN n - (k + 1) + 1 ELSE 0
      /\ \A i \in 1..(n - (k + 1) + 1) : rest[i] = str[k + 1 + i - 1]
  BY <1>1, <1>2, SubSeqProperties
<1> HIDE DEF rest
<1>4. ASSUME k < n PROVE rest # << >> /\ Head(rest) = str[k + 1]
  <2>1. /\ 1 \in 1..(n - (k + 1) + 1) /\ k + 1 + 1 - 1 = k + 1
        /\ k + 1 <= n /\ n - (k + 1) + 1 > 0
    BY <1>1, <1>4
  <2>2. rest[1] = str[k + 1 + 1 - 1] /\ Len(rest) > 0
    BY <1>3, <2>1
  <2>3. rest[1] = str[k + 1]
    BY <2>1, <2>2
  <2>4. rest # << >>
    BY <2>2
  <2>5. Head(rest) = rest[1]
    BY <1>3, <2>4, HeadTailProperties
  <2> QED BY <2>3, <2>4, <2>5
<1> QED BY <1>3, <1>4 DEF n, rest

\* A run ends in the window.
LEMMA PrintedIs ==
  ASSUME NEW s, Fine(s), s.col \in 0..(Width(s) - 1),
         NEW S, NEW str \in Seq(S), str # << >>, Head(str) \notin Controls,
         NEW done \in BOOLEAN, NEW doneSpace \in BOOLEAN
  PROVE  LET t == Printed(s, str, done, doneSpace)
             taken == Run(s, str).count
             rest == SubSeq(str, taken + 1, Len(str))
         IN  /\ Stays(s, t) /\ t.col \in 0..(Width(s) - 1) /\ t.row \in 0..(Height(s) - 1)
             /\ /\ done /\ doneSpace /\ GraphicsConsoleConOutTestString(SubSeq(str, 1, taken))
                /\ Off(s) \/ Moving(s, str)
                => Off(t) \/ Moving(t, rest)
             /\ rest \in Seq(S)
<1> DEFINE r == Run(s, str)
           taken == r.count
           units == r.units
           text == SubSeq(str, 1, taken)
           rest == SubSeq(str, taken + 1, Len(str))
           d == DrawUnicodeWeightAtCursorN(s, text, done)
           m == [d EXCEPT !.col = d.col + units]
           u == [m EXCEPT !.col = m.col - 2]
           v == Space(u, doneSpace)
           t == Printed(s, str, done, doneSpace)
           now == /\ done /\ doneSpace /\ GraphicsConsoleConOutTestString(text)
                  /\ Off(s) \/ Moving(s, str)
<1>1. t = Wrap(IF m.col > Width(s) THEN v ELSE m)
  BY DEF Printed, Width
<1>2. /\ taken \in 0..Len(str) /\ units \in Nat /\ s.col + units <= Width(s) + 1
      /\ s.col + units > Width(s)
         => s.wide /\ taken < Len(str) /\ str[taken + 1] \notin Controls
      /\ taken = 0 => units = 2 /\ s.col + 1 = Width(s)
  BY RunIs
<1> HIDE DEF r
<1>3. /\ Len(str) \in Nat /\ Width(s) \in Nat /\ Width(s) >= 1 /\ s.col \in Nat /\ Shape(s)
      /\ s.row \in 0..(Height(s) - 1) /\ Height(s) \in Nat
  BY LenProperties DEF Fine
<1>4. text \in Seq(S) /\ (taken # 0 => text # << >>) /\ (taken = 0 => text = << >>)
  <2>1. /\ text \in Seq(S)
        /\ Len(text) = IF 1 <= taken THEN taken - 1 + 1 ELSE 0
    BY <1>2, <1>3, SubSeqProperties
  <2>2. Len(text) = taken
    BY <1>2, <1>3, <2>1
  <2> HIDE DEF text
  <2> QED BY <1>2, <2>1, <2>2, EmptySeq
<1>5. rest \in Seq(S) /\ (taken < Len(str) => rest # << >> /\ Head(rest) = str[taken + 1])
  <2>1. taken \in Nat /\ taken <= Len(str)
    BY <1>2, <1>3
  <2> HIDE DEF taken
  <2> QED BY <2>1, RestIs
<1> HIDE DEF text, rest, taken, units
<1>6. /\ Stays(s, d) /\ d.col = s.col /\ d.row = s.row
      /\ Off(s) => Off(d)
      /\ text = << >> => d.ink = s.ink
      /\ done /\ On(s) /\ text # << >> /\ GraphicsConsoleConOutTestString(text) => Off(d)
  BY <1>3, <1>4, DrawIs
<1>7. now => Off(d) \/ (taken = 0 /\ On(d) /\ s.col = 0)
  <2>1. Mark(d) = Mark(s)
    BY <1>6, MarkIs DEF Stays
  <2> QED BY <1>4, <1>6, <2>1 DEF Moving, On, Off
<1> HIDE DEF d
<1>8. Is(m, d, d.wide, d.col + units, d.row, d.cells, d.ink)
  BY <1>6, FieldSet DEF Stays
<1> HIDE DEF m
<1>9. /\ Stays(s, m) /\ m.col = s.col + units /\ m.row = s.row /\ m.ink = d.ink
  BY <1>6, <1>8 DEF Is, Stays
<1>10. Fine(m) /\ Width(m) = Width(s) /\ Height(m) = Height(s) /\ m.col \in Nat
  BY <1>2, <1>3, <1>9, StaysFine
<1>11. CASE m.col > Width(s)
  <2>1. /\ m.col = Width(s) + 1 /\ m.col - 2 = Width(s) - 1
        /\ s.wide /\ taken < Len(str) /\ str[taken + 1] \notin Controls
    <3> DEFINE W == Width(s)
               x == m.col
               c == s.col
    <3>1. x = c + units /\ c + units <= W + 1 /\ x > W /\ c \in Nat /\ units \in Nat /\ W \in Nat
      BY <1>2, <1>3, <1>9, <1>11
    <3>2. c + units > W => s.wide /\ taken < Len(str) /\ str[taken + 1] \notin Controls
      BY <1>2
    <3> HIDE DEF W, x, c
    <3>3. x = W + 1 /\ x - 2 = W - 1 /\ c + units > W
      BY <3>1
    <3> QED BY <3>2, <3>3 DEF W, x
  <2>2. Is(u, m, m.wide, m.col - 2, m.row, m.cells, m.ink)
    BY <1>9, FieldSet DEF Stays
  <2> HIDE DEF u
  <2>3. Stays(s, u) /\ u.col = Width(s) - 1 /\ u.row = s.row /\ u.ink = d.ink
    BY <1>9, <2>1, <2>2 DEF Is, Stays
  <2>4. Fine(u) /\ Width(u) = Width(s) /\ Height(u) = Height(s) /\ u.col \in Nat
    BY <1>3, <2>3, StaysFine
  <2>5. now => Off(u) \/ On(u)
    <3>1. ASSUME taken = 0, s.col = 0 PROVE Mark(u) = Mark(d)
      <4>1. u.col = 0 /\ d.col = 0
        <5>1. Width(s) = 1 /\ Width(s) - 1 = 0
          BY <1>2, <1>3, <3>1
        <5> QED BY <1>6, <2>3, <3>1, <5>1
      <4> QED BY <1>6, <2>3, <4>1, MarkIs DEF Stays
    <3> QED BY <1>7, <2>3, <3>1 DEF On, Off
  <2>6. u.col + 1 >= Width(u)
    BY <1>3, <2>3, <2>4
  <2>7. Stays(u, v) /\ v.col = 0 /\ v.row = NextRow(u) /\ (now => On(v))
    BY <2>4, <2>5, <2>6, SpaceIs DEF SpaceIn
  <2> HIDE DEF v
  <2>8. NextRow(u) \in 0..(Height(s) - 1)
    BY <2>4, NextRowIs
  <2>9. Stays(s, v)
    BY <2>3, <2>7, StaysTrans
  <2>10. Fine(v) /\ Width(v) = Width(s) /\ v.col \in Nat /\ v.col < Width(v)
    BY <1>3, <2>7, <2>8, <2>9, StaysFine
  <2>11. t = Wrap(v)
    BY <1>1, <1>11
  <2> HIDE DEF t
  <2>12. t = v
    BY <2>10, <2>11, WrapIs
  <2>13. 0 \in 0..(Width(s) - 1)
    BY <1>3
  <2>14. now => Moving(t, rest)
    BY <1>5, <2>1, <2>7, <2>9, <2>12 DEF Moving, Stays
  <2> HIDE DEF now
  <2>15. /\ Stays(s, t) /\ t.col \in 0..(Width(s) - 1) /\ t.row \in 0..(Height(s) - 1)
         /\ now => Off(t) \/ Moving(t, rest)
    BY <2>7, <2>8, <2>9, <2>12, <2>13, <2>14
  <2> QED BY <1>5, <2>15 DEF now, t, rest, text, taken, r
<1>12. CASE ~(m.col > Width(s))
  <2>1. m.col <= Width(s) /\ taken # 0
    BY <1>2, <1>3, <1>9, <1>10, <1>12
  <2>2. t = Wrap(m)
    BY <1>1, <1>12
  <2> HIDE DEF t
  <2>3. now => Off(m)
    BY <1>7, <1>9, <2>1 DEF Off
  <2>4. WrapIn(m, t) /\ (now => Off(t))
    BY <1>10, <2>2, <2>3, WrapIs
  <2>5. Stays(s, t)
    BY <1>9, <2>4, StaysTrans DEF WrapIn
  <2>6. NextRow(m) \in 0..(Height(s) - 1)
    BY <1>10, NextRowIs
  <2>7. t.row \in 0..(Height(s) - 1)
    BY <1>3, <1>9, <2>4, <2>6 DEF WrapIn
  <2>8. t.col \in 0..(Width(s) - 1)
    BY <1>3, <1>10, <2>1, <2>4 DEF WrapIn
  <2> HIDE DEF now
  <2>15. /\ Stays(s, t) /\ t.col \in 0..(Width(s) - 1) /\ t.row \in 0..(Height(s) - 1)
         /\ now => Off(t) \/ Moving(t, rest)
    BY <2>4, <2>5, <2>7, <2>8
  <2> QED BY <1>5, <2>15 DEF now, t, rest, text, taken, r
<1> QED BY <1>11, <1>12
-----------------------------------------------------------------------------
(* A console in one of its modes.                                           *)

LEMMA ModesKnown ==
  ASSUME GopShape, GcShape, gc.at # "stopped"
  PROVE  LET number == gc.modes[1].gopMode
             res == gop.modes[number + 1]
         IN  /\ DOMAIN gc.modes = 1..Len(gc.modes) /\ Len(gc.modes) \in Nat \ {0}
             /\ number \in 0..(Len(gop.modes) - 1) /\ res \in Resolutions
             /\ \A m \in 1..Len(gc.modes) :
                  /\ gc.modes[m] = TextMode(gc.modes[m].size, res, number)
                  /\ gc.modes[m].gopMode = number /\ gc.modes[m].res = res
                  /\ \/ gc.modes[m].size = NoWindow
                     \/ /\ gc.modes[m].size[1] \in 1..MaxCells(res)[1]
                        /\ gc.modes[m].size[2] \in 1..MaxCells(res)[2]
             /\ gc.modes[1].size # NoWindow
<1> DEFINE number == gc.modes[1].gopMode
           res == gop.modes[number + 1]
<1>1. number \in 0..(Len(gop.modes) - 1) /\ ModesFor(gc.modes, res, number)
  BY DEF GcShape, StartedOn
<1>2. /\ gc.modes = [m \in DOMAIN gc.modes |-> TextMode(gc.modes[m].size, res, number)]
      /\ DOMAIN gc.modes = 1..Len(gc.modes) /\ Len(gc.modes) \in Nat \ {0}
      /\ gc.modes[1].size # NoWindow
      /\ \A m \in DOMAIN gc.modes :
           gc.modes[m].size = NoWindow \/ Fits(gc.modes[m].size, MaxCells(res))
  BY <1>1 DEF ModesFor, MaxCells
<1>3. gop.modes \in Seq(Resolutions)
  BY DEF GopShape
<1>4. Len(gop.modes) \in Nat
  BY <1>3, LenProperties
<1> HIDE DEF number
<1>5. number + 1 \in 1..Len(gop.modes)
  BY <1>1, <1>4
<1>6. res \in Resolutions
  BY <1>3, <1>5, ElementOfSeq
<1> HIDE DEF res
<1>7. \A m \in 1..Len(gc.modes) : gc.modes[m] = TextMode(gc.modes[m].size, res, number)
  BY <1>2
<1>8. \A m \in 1..Len(gc.modes) : gc.modes[m].gopMode = number /\ gc.modes[m].res = res
  <2>1. \A size : TextMode(size, res, number).gopMode = number
                 /\ TextMode(size, res, number).res = res
    BY DEF TextMode
  <2>2. ASSUME NEW m \in 1..Len(gc.modes)
        PROVE  gc.modes[m].gopMode = number /\ gc.modes[m].res = res
    <3>1. gc.modes[m] = TextMode(gc.modes[m].size, res, number)
      BY <1>7
    <3> QED BY <2>1, <3>1, Zenon
  <2> QED BY <2>2
<1>9. \A m \in 1..Len(gc.modes) :
        \/ gc.modes[m].size = NoWindow
        \/ /\ gc.modes[m].size[1] \in 1..MaxCells(res)[1]
           /\ gc.modes[m].size[2] \in 1..MaxCells(res)[2]
  BY <1>2 DEF Fits
<1> QED BY <1>1, <1>2, <1>6, <1>7, <1>8, <1>9 DEF number, res

\* The window of a mode that can be used.
LEMMA WindowIs ==
  ASSUME GopShape, GcShape, gc.at # "stopped",
         NEW m \in 0..(Len(gc.modes) - 1), gc.modes[m + 1].size # NoWindow
  PROVE  gc.modes[m + 1].size[1] \in Nat \ {0} /\ gc.modes[m + 1].size[2] \in Nat \ {0}
<1> DEFINE res == gop.modes[gc.modes[1].gopMode + 1]
<1>1. Len(gc.modes) \in Nat \ {0}
  BY ModesKnown
<1>2. m + 1 \in 1..Len(gc.modes)
  BY <1>1
<1>3. /\ res \in Resolutions
      /\ gc.modes[m + 1].size[1] \in 1..MaxCells(res)[1]
      /\ gc.modes[m + 1].size[2] \in 1..MaxCells(res)[2]
  BY <1>2, ModesKnown
<1> HIDE DEF res
<1>4. MaxCells(res)[1] \in Nat /\ MaxCells(res)[2] \in Nat
  BY <1>3, BaseFits
<1> QED BY <1>3, <1>4

LEMMA ShapedFine ==
  ASSUME GopShape, GcShape, gc.at # "stopped", NEW s, Shaped(s), s.row \in 0..(Height(s) - 1)
  PROVE  Fine(s)
<1>1. Width(s) \in Nat \ {0} /\ Height(s) \in Nat \ {0}
  BY WindowIs DEF Shaped, Width, Height, Window
<1> QED BY <1>1 DEF Shaped, Shape, Fine

LEMMA OnScreenFine ==
  ASSUME GopShape, GcShape, gc.at # "stopped", NEW s, OnScreen(s)
  PROVE  Fine(s) /\ s.col \in 0..(Width(s) - 1) /\ s.row \in 0..(Height(s) - 1)
BY ShapedFine DEF OnScreen, InWindow, Width, Height

LEMMA StaysOnScreen ==
  ASSUME NEW s, NEW t, OnScreen(s), Stays(s, t),
         t.col \in 0..(Width(s) - 1), t.row \in 0..(Height(s) - 1)
  PROVE  OnScreen(t)
<1>1. Window(t) = Window(s)
  BY DEF Stays, Window
<1> QED BY <1>1 DEF OnScreen, Shaped, InWindow, Stays, Shape, Width, Height

\* Any attribute will do.
LEMMA OnScreenAt ==
  ASSUME NEW s, NEW t, OnScreen(s), Shape(t), t.mode = s.mode, DOMAIN t.cells = DOMAIN s.cells,
         t.col \in 0..(Width(s) - 1), t.row \in 0..(Height(s) - 1)
  PROVE  OnScreen(t)
<1>1. Window(t) = Window(s)
  BY DEF Window
<1> QED BY <1>1 DEF OnScreen, Shaped, InWindow, Shape, Width, Height

LEMMA FlushOnScreen ==
  ASSUME NEW s, OnScreen(s)
  PROVE  /\ OnScreen(FlushCursor(s)) /\ FlushCursor(s).mode = s.mode
         /\ Off(s) => On(FlushCursor(s))
         /\ On(s) => Off(FlushCursor(s))
<1> DEFINE t == FlushCursor(s)
<1>1. Shape(s) /\ s.col \in 0..(Width(s) - 1) /\ s.row \in 0..(Height(s) - 1)
  BY DEF OnScreen, Shaped, InWindow, Shape, Width, Height
<1>2. /\ Stays(s, t) /\ t.col = s.col /\ t.row = s.row
      /\ Off(s) => On(t)
      /\ On(s) => Off(t)
  BY <1>1, FlushIs
<1> HIDE DEF t
<1>3. OnScreen(t) /\ t.mode = s.mode
  BY <1>1, <1>2, StaysOnScreen DEF Stays
<1> QED BY <1>2, <1>3 DEF t

\* t is s but for these.
Has(t, s, mode, attr, visible) ==
  /\ Shape(t) /\ t.mode = mode /\ t.attr = attr /\ t.visible = visible
  /\ t.wide = s.wide /\ t.col = s.col /\ t.row = s.row /\ t.cells = s.cells /\ t.ink = s.ink

LEMMA OtherSet ==
  ASSUME NEW s, Shape(s), NEW x
  PROVE  /\ Has([s EXCEPT !.mode = x], s, x, s.attr, s.visible)
         /\ Has([s EXCEPT !.attr = x], s, s.mode, x, s.visible)
         /\ Has([s EXCEPT !.visible = x], s, s.mode, s.attr, x)
<1> DEFINE m == s.mode
           a == s.attr
           w == s.wide
           c == s.col
           r == s.row
           v == s.visible
           e == s.cells
           i == s.ink
<1>1. s = [mode |-> m, attr |-> a, wide |-> w, col |-> c, row |-> r, visible |-> v,
           cells |-> e, ink |-> i]
  BY DEF Shape
<1>2. /\ s.mode = m /\ s.attr = a /\ s.wide = w /\ s.col = c /\ s.row = r
      /\ s.visible = v /\ s.cells = e /\ s.ink = i
  OBVIOUS
<1> HIDE DEF m, a, w, c, r, v, e, i
<1>3. /\ [s EXCEPT !.mode = x] = [mode |-> x, attr |-> a, wide |-> w, col |-> c, row |-> r,
                                  visible |-> v, cells |-> e, ink |-> i]
      /\ [s EXCEPT !.attr = x] = [mode |-> m, attr |-> x, wide |-> w, col |-> c, row |-> r,
                                  visible |-> v, cells |-> e, ink |-> i]
      /\ [s EXCEPT !.visible = x] = [mode |-> m, attr |-> a, wide |-> w, col |-> c, row |-> r,
                                     visible |-> x, cells |-> e, ink |-> i]
  BY <1>1
<1>4. \A p, q, z : Has([mode |-> p, attr |-> q, wide |-> w, col |-> c, row |-> r,
                        visible |-> z, cells |-> e, ink |-> i], s, p, q, z)
  BY <1>2 DEF Has, Shape
<1> QED BY <1>2, <1>3, <1>4

\* A screen that was filled and where the cursor is at home.
LEMMA FilledIs ==
  ASSUME GopShape, GcShape, gc.at # "stopped", NEW s, Shape(s),
         NEW m \in 0..(Len(gc.modes) - 1), gc.modes[m + 1].size # NoWindow
  PROVE  LET t == [Filled(Home(s), gc.modes[m + 1].size) EXCEPT !.mode = m]
             u == Home(Filled(s, Window(s)))
         IN  /\ OnScreen(t) /\ Off(t) /\ t.mode = m
             /\ s.mode = m => OnScreen(u) /\ Off(u) /\ u.mode = m
<1> DEFINE size == gc.modes[m + 1].size
           blank == [c \in Cells(size) |-> " "]
           a == s.attr
           w == s.wide
           v == s.visible
           n == s.mode
           x == [mode |-> m, attr |-> a, wide |-> w, col |-> 0, row |-> 0, visible |-> v,
                 cells |-> blank, ink |-> {}]
<1>1. size[1] \in Nat \ {0} /\ size[2] \in Nat \ {0}
  BY WindowIs
<1>2. 0 \in 0..(size[1] - 1) /\ 0 \in 0..(size[2] - 1)
  BY <1>1
<1>3. OnScreen(x) /\ Off(x) /\ x.mode = m
  <2>1. Window(x) = size
    BY DEF Window
  <2>2. DOMAIN x.cells = Cells(size)
    OBVIOUS
  <2> HIDE DEF size, blank, a, w, v
  <2> QED BY <1>2, <2>1, <2>2 DEF OnScreen, Shaped, InWindow, Off, size
<1>4. [Filled(Home(s), size) EXCEPT !.mode = m] = x
  <2> DEFINE h == Home(s)
             f == Filled(h, size)
             g == [f EXCEPT !.mode = m]
  <2>1. Is(h, s, s.wide, 0, 0, s.cells, s.ink)
    BY PlaceSet DEF Home
  <2> HIDE DEF h
  <2>2. Is(f, h, h.wide, h.col, h.row, blank, {})
    <3>1. Shape(h)
      BY <2>1 DEF Is
    <3>2. f = [h EXCEPT !.cells = blank, !.ink = {}]
      BY DEF Filled
    <3> HIDE DEF f, blank
    <3> QED BY <3>1, <3>2, PlaceSet
  <2> HIDE DEF f, blank, size
  <2>3. Has(g, f, m, f.attr, f.visible)
    <3>1. Shape(f)
      BY <2>2 DEF Is
    <3> QED BY <3>1, OtherSet
  <2> HIDE DEF g
  <2>5. g = x
    BY <2>1, <2>2, <2>3 DEF Shape, Is, Has
  <2> QED BY <2>5 DEF f, h, g, size
<1>5. ASSUME s.mode = m PROVE Home(Filled(s, Window(s))) = x
  <2> DEFINE f == Filled(s, size)
             h == Home(f)
  <2>0. Window(s) = size
    BY <1>5 DEF Window
  <2>1. Is(f, s, s.wide, s.col, s.row, blank, {})
    BY PlaceSet DEF Filled, blank
  <2> HIDE DEF f, blank
  <2>2. Is(h, f, f.wide, 0, 0, f.cells, f.ink)
    <3>1. Shape(f)
      BY <2>1 DEF Is
    <3>2. h = [f EXCEPT !.col = 0, !.row = 0]
      BY DEF Home
    <3> HIDE DEF h
    <3> QED BY <3>1, <3>2, PlaceSet
  <2> HIDE DEF h, size
  <2>3. h = x
    BY <1>5, <2>1, <2>2 DEF Is, Shape
  <2> QED BY <2>0, <2>3 DEF h, f
<1> QED BY <1>3, <1>4, <1>5
-----------------------------------------------------------------------------
(* What the console's calls draw.                                           *)

LEMMA OnScreenIs ==
  ASSUME NEW s, OnScreen(s)
  PROVE  Shape(s) /\ s.col \in 0..(Width(s) - 1) /\ s.row \in 0..(Height(s) - 1)
BY DEF OnScreen, Shaped, InWindow, Shape, Width, Height

\* The cursor is wiped off, something is changed, and it is drawn again.
LEMMA Redrawn ==
  ASSUME NEW s, OnScreen(s), NEW t, OnScreen(t), t.mode = s.mode, t.ink = FlushCursor(s).ink
  PROVE  LET u == FlushCursor(t)
         IN  /\ OnScreen(u) /\ u.mode = s.mode
             /\ On(s) => On(u)
<1>1. On(s) => Off(FlushCursor(s))
  BY FlushOnScreen
<1>2. On(s) => Off(t)
  BY <1>1 DEF Off
<1> QED BY <1>2, FlushOnScreen

LEMMA SetAttributeIs ==
  ASSUME NEW s, OnScreen(s), NEW attr
  PROVE  LET t == GraphicsConsoleConOutSetAttribute(s, attr)
         IN  /\ OnScreen(t) /\ t.mode = s.mode
             /\ On(s) => On(t)
<1> DEFINE a == FlushCursor(s)
           b == [a EXCEPT !.attr = attr]
<1>1. CASE attr >= 128 \/ attr = s.attr
  BY <1>1 DEF GraphicsConsoleConOutSetAttribute
<1>2. CASE ~(attr >= 128 \/ attr = s.attr)
  <2>1. GraphicsConsoleConOutSetAttribute(s, attr) = FlushCursor(b)
    BY <1>2 DEF GraphicsConsoleConOutSetAttribute
  <2>2. OnScreen(a) /\ a.mode = s.mode
    BY FlushOnScreen
  <2>3. Has(b, a, a.mode, attr, a.visible)
    BY <2>2, OnScreenIs, OtherSet
  <2>4. OnScreen(b)
    <3>1. /\ Shape(b) /\ b.mode = a.mode /\ DOMAIN b.cells = DOMAIN a.cells
          /\ b.col \in 0..(Width(a) - 1) /\ b.row \in 0..(Height(a) - 1)
      BY <2>2, <2>3, OnScreenIs DEF Has
    <3> HIDE DEF b
    <3> QED BY <2>2, <3>1, OnScreenAt
  <2>5. b.mode = s.mode /\ b.ink = FlushCursor(s).ink
    BY <2>2, <2>3 DEF Has
  <2> HIDE DEF b
  <2> QED BY <2>1, <2>4, <2>5, Redrawn
<1> QED BY <1>1, <1>2

LEMMA EnableCursorIs ==
  ASSUME NEW s, OnScreen(s), NEW visible
  PROVE  LET t == FlushCursor([FlushCursor(s) EXCEPT !.visible = visible])
         IN  /\ OnScreen(t) /\ t.mode = s.mode
             /\ On(s) => On(t)
<1> DEFINE a == FlushCursor(s)
           b == [a EXCEPT !.visible = visible]
<1>1. OnScreen(a) /\ a.mode = s.mode
  BY FlushOnScreen
<1>2. Has(b, a, a.mode, a.attr, visible)
  BY <1>1, OnScreenIs, OtherSet
<1>3. OnScreen(b)
  <2>1. /\ Shape(b) /\ b.mode = a.mode /\ DOMAIN b.cells = DOMAIN a.cells
        /\ b.col \in 0..(Width(a) - 1) /\ b.row \in 0..(Height(a) - 1)
    BY <1>1, <1>2, OnScreenIs DEF Has
  <2> HIDE DEF b
  <2> QED BY <1>1, <2>1, OnScreenAt
<1>4. b.mode = s.mode /\ b.ink = FlushCursor(s).ink
  BY <1>1, <1>2 DEF Has
<1> HIDE DEF b
<1> QED BY <1>3, <1>4, Redrawn DEF b

LEMMA SetCursorIs ==
  ASSUME GopShape, GcShape, gc.at # "stopped",
         NEW s, OnScreen(s), NEW col \in Nat, NEW row \in Nat
  PROVE  LET t == SetCursor(s, col, row)
         IN  /\ OnScreen(t) /\ t.mode = s.mode
             /\ On(s) => On(t)
<1> DEFINE a == FlushCursor(s)
           b == [a EXCEPT !.col = col, !.row = row]
           stays == col >= Width(s) \/ row >= Height(s) \/ (col = s.col /\ row = s.row)
<1>1. CASE stays
  <2>1. SetCursor(s, col, row) = s
    BY <1>1 DEF SetCursor, Width, Height
  <2> QED BY <2>1
<1>2. CASE ~stays
  <2>1. SetCursor(s, col, row) = FlushCursor(b)
    BY <1>2 DEF SetCursor, Width, Height
  <2>2. OnScreen(a) /\ a.mode = s.mode
    BY FlushOnScreen
  <2>3. Is(b, a, a.wide, col, row, a.cells, a.ink)
    BY <2>2, OnScreenIs, PlaceSet
  <2>4. Width(a) = Width(s) /\ Height(a) = Height(s)
    BY <2>2 DEF Width, Height, Window
  <2>5. Width(s) \in Nat /\ Height(s) \in Nat
    BY OnScreenFine DEF Fine
  <2>6. col \in 0..(Width(s) - 1) /\ row \in 0..(Height(s) - 1)
    BY <1>2, <2>5
  <2> HIDE DEF stays, b
  <2>7. /\ Shape(b) /\ b.mode = a.mode /\ DOMAIN b.cells = DOMAIN a.cells
        /\ b.col \in 0..(Width(a) - 1) /\ b.row \in 0..(Height(a) - 1)
    BY <2>3, <2>4, <2>6 DEF Is
  <2>8. OnScreen(b)
    BY <2>2, <2>7, OnScreenAt
  <2>9. b.mode = s.mode /\ b.ink = FlushCursor(s).ink
    BY <2>2, <2>3 DEF Is
  <2> QED BY <2>1, <2>8, <2>9, Redrawn
<1> QED BY <1>1, <1>2

LEMMA ClearScreenIs ==
  ASSUME GopShape, GcShape, gc.at # "stopped", NEW s, OnScreen(s)
  PROVE  OnScreen(ClearScreen(s)) /\ ClearScreen(s).mode = s.mode /\ On(ClearScreen(s))
<1> DEFINE u == Home(Filled(s, Window(s)))
<1>1. /\ Shape(s) /\ s.mode \in 0..(Len(gc.modes) - 1)
      /\ gc.modes[s.mode + 1].size # NoWindow
  BY DEF OnScreen, Shaped, Shape, Window
<1>2. OnScreen(u) /\ Off(u) /\ u.mode = s.mode
  BY <1>1, FilledIs
<1> HIDE DEF u
<1> QED BY <1>2, FlushOnScreen DEF ClearScreen, u

\* What SetMode leaves.
LEMMA SetModeIs ==
  ASSUME GopShape, GcShape, gc.at # "stopped", NEW m \in Nat, NEW alloc \in BOOLEAN,
         NEW s, Shape(s),
         s.mode = m => OnScreen(s) /\ gc.modes[m + 1].gopMode = gop.mode
  PROVE  LET w == GraphicsConsoleConOutSetMode(s, m, alloc)
         IN  /\ w.gc = [gc EXCEPT !.lineBuffer = w.gc.lineBuffer]
             /\ w.gc.lineBuffer \in Buffers
             /\ w.gop = [gop EXCEPT !.mode = w.gop.mode]
             /\ w.status = "SUCCESS" =>
                  /\ m \in 0..(Len(gc.modes) - 1)
                  /\ OnScreen(w.scr) /\ On(w.scr) /\ w.scr.mode = m
                  /\ w.gop.mode = gc.modes[m + 1].gopMode
             /\ w.status = "UNSUPPORTED" => w.scr = scr /\ w.gop.mode = gop.mode
             /\ w.status \in {"OUT_OF_RESOURCES", "DEVICE_ERROR"} =>
                  w.scr \in {s, FlushCursor(s)} /\ w.gop.mode = gop.mode
             /\ w.status \in {"SUCCESS", "UNSUPPORTED", "OUT_OF_RESOURCES", "DEVICE_ERROR"}
<1> DEFINE mode == gc.modes[m + 1]
           had == gc.lineBuffer # "NULL"
           erased == IF had THEN FlushCursor(s) ELSE s
           black == [Filled(Home(erased), mode.size) EXCEPT !.mode = m]
           w == GraphicsConsoleConOutSetMode(s, m, alloc)
           known == m \in 0..(Len(gc.modes) - 1)
           usable == known /\ mode.size # NoWindow
           same == had /\ m = s.mode
           refused == mode.gopMode # gop.mode /\ mode.gopMode \in gop.broken
<1>0. gc.lineBuffer \in Buffers /\ gc = [modes |-> gc.modes, lineBuffer |-> gc.lineBuffer,
      at |-> gc.at]
  BY DEF GcShape
<1>1. ASSUME NEW t, NEW buffer \in Buffers, NEW number, NEW status
      PROVE  LET r == Result(t, buffer, number, status)
             IN  /\ r.gc = [gc EXCEPT !.lineBuffer = r.gc.lineBuffer]
                 /\ r.gc.lineBuffer = buffer /\ r.gop.mode = number
                 /\ r.gop = [gop EXCEPT !.mode = r.gop.mode]
                 /\ r.scr = t /\ r.status = status
  <2> DEFINE r == Result(t, buffer, number, status)
  <2>1. /\ r.scr = t /\ r.gc = [gc EXCEPT !.lineBuffer = buffer]
        /\ r.gop = [gop EXCEPT !.mode = number] /\ r.status = status
    BY DEF Result
  <2> HIDE DEF r
  <2>2. [gc EXCEPT !.lineBuffer = buffer].lineBuffer = buffer
    BY <1>0
  <2>3. [gop EXCEPT !.mode = number].mode = number
    BY DEF GopShape
  <2> QED BY <2>1, <2>2, <2>3 DEF r
<1>2. CASE ~usable
  <2>1. w = Refused("UNSUPPORTED")
    BY <1>2 DEF GraphicsConsoleConOutSetMode, GraphicsConsoleConOutQueryMode
  <2>2. w = Result(scr, gc.lineBuffer, gop.mode, "UNSUPPORTED")
    BY <2>1 DEF Refused
  <2> HIDE DEF w
  <2> QED BY <1>0, <1>1, <2>2 DEF w
<1>3. CASE usable /\ same
  <2>1. w = Result(ClearScreen(s), gc.lineBuffer, gop.mode, "SUCCESS")
    BY <1>3 DEF GraphicsConsoleConOutSetMode, GraphicsConsoleConOutQueryMode
  <2>2. /\ OnScreen(ClearScreen(s)) /\ On(ClearScreen(s)) /\ ClearScreen(s).mode = m
        /\ gop.mode = gc.modes[m + 1].gopMode
    BY <1>3, ClearScreenIs
  <2> HIDE DEF w
  <2> QED BY <1>0, <1>1, <1>3, <2>1, <2>2 DEF w
<1>4. CASE usable /\ ~same /\ ~alloc
  <2>1. w = Result(erased, IF had THEN "freed" ELSE "NULL", gop.mode, "OUT_OF_RESOURCES")
    BY <1>4 DEF GraphicsConsoleConOutSetMode, GraphicsConsoleConOutQueryMode
  <2>2. (IF had THEN "freed" ELSE "NULL") \in Buffers /\ erased \in {s, FlushCursor(s)}
    BY DEF Buffers
  <2> HIDE DEF w, had, erased
  <2> QED BY <1>1, <2>1, <2>2 DEF w
<1>5. CASE usable /\ ~same /\ alloc /\ refused
  <2>1. w = Result(erased, "allocated", gop.mode, "DEVICE_ERROR")
    BY <1>5 DEF GraphicsConsoleConOutSetMode, GraphicsConsoleConOutQueryMode
  <2>2. "allocated" \in Buffers /\ erased \in {s, FlushCursor(s)}
    BY DEF Buffers
  <2> HIDE DEF w, erased
  <2> QED BY <1>1, <2>1, <2>2 DEF w
<1>6. CASE usable /\ ~same /\ alloc /\ ~refused
  <2>1. w = Result(FlushCursor(black), "allocated", mode.gopMode, "SUCCESS")
    BY <1>6 DEF GraphicsConsoleConOutSetMode, GraphicsConsoleConOutQueryMode
  <2>2. Shape(erased)
    BY FlushIs DEF Stays
  <2>3. known /\ mode.size # NoWindow
    BY <1>6
  <2> HIDE DEF erased
  <2>4. OnScreen(black) /\ Off(black) /\ black.mode = m
    BY <2>2, <2>3, FilledIs
  <2> HIDE DEF black
  <2>5. /\ OnScreen(FlushCursor(black)) /\ On(FlushCursor(black))
        /\ FlushCursor(black).mode = m
    BY <2>4, FlushOnScreen
  <2>6. "allocated" \in Buffers
    BY DEF Buffers
  <2> HIDE DEF w
  <2> QED BY <1>1, <2>1, <2>3, <2>5, <2>6 DEF w
<1>7. \/ ~usable
      \/ usable /\ same
      \/ usable /\ ~same /\ ~alloc
      \/ usable /\ ~same /\ alloc /\ refused
      \/ usable /\ ~same /\ alloc /\ ~refused
  OBVIOUS
<1> HIDE DEF usable, same, refused
<1> QED BY <1>2, <1>3, <1>4, <1>5, <1>6, <1>7

-----------------------------------------------------------------------------
(* A step that only draws.                                                  *)

LEMMA OnScreenNext ==
  ASSUME OnScreen(scr'), gc'.modes = gc.modes
  PROVE  OnScreen(scr)'
BY DEF OnScreen, Shaped, InWindow, Window

LEMMA GcKept ==
  ASSUME GopShape, GcShape, UNCHANGED <<gop, gc>>
  PROVE  GopShape' /\ GcShape'
BY DEF GopShape, GcShape, StartedOn

LEMMA FaultCounts ==
  ASSUME ScrShape, NEW ok \in BOOLEAN, Fault(ok)
  PROVE  gcFaults' \in 0..MaxGcFaults
BY GcAssumption DEF ScrShape, Fault

OutIs == out = [active |-> out.active, rest |-> out.rest, wide |-> out.wide, ideal |-> out.ideal]

LEMMA DrawingKeeps ==
  ASSUME GcInv, UNCHANGED <<gop, gc>>, gc.at \in {"banner", "installed"},
         OnScreen(scr'), scr'.mode = scr.mode,
         OutIs', out'.active \in BOOLEAN, out'.active => out'.rest \in Seq(STRING),
         outputs' \in 0..MaxOutputs, gcFaults' \in 0..MaxGcFaults, plain' \in BOOLEAN,
         plain' => /\ ~out'.active => On(scr')
                   /\ out'.active => Off(scr') \/ Moving(scr', out'.rest)
  PROVE  GcInv'
<1>1. GopShape' /\ GcShape'
  BY GcKept DEF GcInv
<1>2. gc' = gc /\ gop' = gop /\ gc.at # "stopped" /\ gc.at # "modes"
  OBVIOUS
<1>3. OnScreen(scr)'
  BY <1>2, OnScreenNext
<1>4. gc.modes[scr.mode + 1].gopMode = gop.mode
  BY DEF GcInv, ScrShape
<1>5. ScrShape'
  BY <1>2, <1>3, <1>4 DEF ScrShape, OutIs
<1>6. InkRight'
  <2>1. On(scr)' = On(scr') /\ Off(scr)' = Off(scr')
        /\ Moving(scr, out.rest)' = Moving(scr', out'.rest)
    BY DEF On, Off, Moving, Mark, GetTextColors
  <2> QED BY <1>2, <2>1 DEF InkRight
<1> QED BY <1>1, <1>5, <1>6 DEF GcInv

LEMMA Drawing ==
  ASSUME GcInv, out.active
  PROVE  /\ gc.at \in {"banner", "installed"} /\ gc.at # "stopped" /\ GopShape /\ GcShape
         /\ OnScreen(scr) /\ Fine(scr) /\ Shape(scr)
         /\ scr.col \in 0..(Width(scr) - 1) /\ scr.row \in 0..(Height(scr) - 1)
         /\ out.rest \in Seq(STRING) /\ OutIs
         /\ outputs \in 0..MaxOutputs /\ gcFaults \in 0..MaxGcFaults /\ plain \in BOOLEAN
         /\ plain => Off(scr) \/ Moving(scr, out.rest)
<1>1. GopShape /\ GcShape /\ ScrShape /\ InkRight
  BY DEF GcInv
<1>2. gc.at \in {"banner", "installed"} /\ gc.at # "stopped"
  BY <1>1 DEF ScrShape
<1>3. OnScreen(scr)
  BY <1>1, <1>2 DEF ScrShape
<1>4. Fine(scr) /\ scr.col \in 0..(Width(scr) - 1) /\ scr.row \in 0..(Height(scr) - 1)
  BY <1>1, <1>2, <1>3, OnScreenFine
<1> QED BY <1>1, <1>2, <1>3, <1>4 DEF ScrShape, InkRight, OutIs, Fine

LEMMA RestSet ==
  ASSUME NEW o, o = [active |-> o.active, rest |-> o.rest, wide |-> o.wide, ideal |-> o.ideal],
         NEW x
  PROVE  [o EXCEPT !.rest = x]
           = [active |-> o.active, rest |-> x, wide |-> o.wide, ideal |-> o.ideal]
<1> DEFINE a == o.active
           b == o.rest
           c == o.wide
           d == o.ideal
<1>1. o = [active |-> a, rest |-> b, wide |-> c, ideal |-> d]
  OBVIOUS
<1> HIDE DEF a, b, c, d
<1>2. [o EXCEPT !.rest = x] = [active |-> a, rest |-> x, wide |-> c, ideal |-> d]
  BY <1>1
<1> QED BY <1>2 DEF a, c, d

\* A turn of the loop.
LEMMA TurnKeeps ==
  ASSUME GcInv, out.active, NEW s, NEW n \in Nat, n <= Len(out.rest),
         UNCHANGED <<gop, gc, outputs>>, scr' = s,
         out' = [out EXCEPT !.rest = SubSeq(out.rest, n + 1, Len(out.rest))],
         OnScreen(s), s.mode = scr.mode, gcFaults' \in 0..MaxGcFaults, plain' \in BOOLEAN,
         plain' => \/ Off(s)
                   \/ Moving(s, SubSeq(out.rest, n + 1, Len(out.rest)))
  PROVE  GcInv'
<1> DEFINE rest == SubSeq(out.rest, n + 1, Len(out.rest))
<1>1. rest \in Seq(STRING)
  BY Drawing, RestIs
<1> HIDE DEF rest
<1>2. out' = [out EXCEPT !.rest = rest]
  BY DEF rest
<1>3. /\ out' = [active |-> out.active, rest |-> rest, wide |-> out.wide, ideal |-> out.ideal]
  BY <1>2, Drawing, RestSet DEF OutIs
<1>4. out'.active = out.active /\ out'.rest = rest /\ OutIs'
  <2> DEFINE a == out.active
             c == out.wide
             d == out.ideal
             o == out'
  <2>1. o = [active |-> a, rest |-> rest, wide |-> c, ideal |-> d]
    BY <1>3
  <2> HIDE DEF a, c, d, o
  <2>2. /\ o.active = a /\ o.rest = rest
        /\ o = [active |-> o.active, rest |-> o.rest, wide |-> o.wide, ideal |-> o.ideal]
    BY <2>1
  <2> QED BY <2>2 DEF OutIs, a, o
<1>5. plain' => Off(scr') \/ Moving(scr', out'.rest)
  BY <1>4 DEF rest
<1>6. out'.active \in BOOLEAN /\ out'.active /\ out'.rest \in Seq(STRING)
  BY <1>1, <1>4 DEF GcInv, ScrShape
<1>7. OnScreen(scr') /\ scr'.mode = scr.mode
  OBVIOUS
<1>8. outputs' \in 0..MaxOutputs /\ gc.at \in {"banner", "installed"}
  BY Drawing
<1> QED BY <1>4, <1>5, <1>6, <1>7, <1>8, DrawingKeeps

LEMMA StaysTurn ==
  ASSUME GcInv, out.active, NEW s, Stays(scr, s),
         s.col \in 0..(Width(scr) - 1), s.row \in 0..(Height(scr) - 1)
  PROVE  OnScreen(s) /\ s.mode = scr.mode
BY Drawing, StaysOnScreen DEF Stays

\* In front of a control character the cursor is not drawn.
LEMMA AtControl ==
  ASSUME GcInv, NEW ch \in Controls, At(ch)
  PROVE  /\ out.active /\ Len(out.rest) \in Nat /\ 1 <= Len(out.rest)
         /\ plain => Off(scr)
<1>1. out.active /\ out.rest # << >> /\ Head(out.rest) \in Controls
  BY DEF At
<1>2. Len(out.rest) \in Nat /\ 1 <= Len(out.rest)
  BY <1>1, Drawing, LenProperties, EmptySeq
<1>3. plain => Off(scr)
  BY <1>1, Drawing DEF Moving
<1> QED BY <1>1, <1>2, <1>3

LEMMA BackspaceKeeps ==
  ASSUME GcInv, NEW done \in BOOLEAN, OutputBackspace(done)
  PROVE  GcInv'
<1> DEFINE s == Backspace(scr, done)
<1>1. At("BS") /\ Fault(done) /\ Turn(s, 1) /\ plain' = (plain /\ done)
  BY DEF OutputBackspace
<1>2. out.active /\ Len(out.rest) \in Nat /\ 1 <= Len(out.rest) /\ (plain => Off(scr))
  BY <1>1, AtControl DEF Controls
<1>3. /\ Stays(scr, s) /\ s.col \in 0..(Width(scr) - 1) /\ s.row \in 0..(Height(scr) - 1)
      /\ done /\ Off(scr) => Off(s)
  BY <1>2, Drawing, BackspaceIs
<1> HIDE DEF s
<1>4. OnScreen(s) /\ s.mode = scr.mode
  BY <1>2, <1>3, StaysTurn
<1>5. gcFaults' \in 0..MaxGcFaults
  BY <1>1, FaultCounts DEF GcInv
<1>6. plain' \in BOOLEAN /\ (plain' => Off(s))
  BY <1>1, <1>2, <1>3
<1> QED BY <1>1, <1>2, <1>4, <1>5, <1>6, TurnKeeps DEF Turn

LEMMA LineFeedKeeps ==
  ASSUME GcInv, OutputLineFeed
  PROVE  GcInv'
<1> DEFINE s == LineFeed(scr)
<1>1. At("LF") /\ Turn(s, 1) /\ gcFaults' = gcFaults /\ plain' = plain
  BY DEF OutputLineFeed
<1>2. out.active /\ Len(out.rest) \in Nat /\ 1 <= Len(out.rest) /\ (plain => Off(scr))
  BY <1>1, AtControl DEF Controls
<1>3. Stays(scr, s) /\ s.col = scr.col /\ s.row = NextRow(scr) /\ (Off(scr) => Off(s))
  BY <1>2, Drawing, LineFeedIs
<1> HIDE DEF s
<1>4. OnScreen(s) /\ s.mode = scr.mode
  <2>1. NextRow(scr) \in 0..(Height(scr) - 1) /\ scr.col \in 0..(Width(scr) - 1)
    BY <1>2, Drawing, NextRowIs
  <2> QED BY <1>2, <1>3, <2>1, StaysTurn
<1>5. gcFaults' \in 0..MaxGcFaults /\ plain' \in BOOLEAN
  BY <1>1, <1>2, Drawing
<1> QED BY <1>1, <1>2, <1>3, <1>4, <1>5, TurnKeeps DEF Turn

LEMMA CarriageReturnKeeps ==
  ASSUME GcInv, OutputCarriageReturn
  PROVE  GcInv'
<1> DEFINE s == CarriageReturn(scr)
<1>1. At("CR") /\ Turn(s, 1) /\ gcFaults' = gcFaults /\ plain' = plain
  BY DEF OutputCarriageReturn
<1>2. out.active /\ Len(out.rest) \in Nat /\ 1 <= Len(out.rest) /\ (plain => Off(scr))
  BY <1>1, AtControl DEF Controls
<1>3. Is(s, scr, scr.wide, 0, scr.row, scr.cells, scr.ink)
  BY <1>2, Drawing, FieldSet DEF CarriageReturn
<1> HIDE DEF s
<1>4. Stays(scr, s) /\ s.col = 0 /\ s.row = scr.row /\ (Off(scr) => Off(s))
  BY <1>3 DEF Is, Stays, Off
<1>5. OnScreen(s) /\ s.mode = scr.mode
  <2>1. 0 \in 0..(Width(scr) - 1) /\ scr.row \in 0..(Height(scr) - 1)
    BY <1>2, Drawing DEF Fine
  <2> QED BY <1>2, <1>4, <2>1, StaysTurn
<1>6. gcFaults' \in 0..MaxGcFaults /\ plain' \in BOOLEAN
  BY <1>1, <1>2, Drawing
<1> QED BY <1>1, <1>2, <1>4, <1>5, <1>6, TurnKeeps DEF Turn

LEMMA WidthKeeps ==
  ASSUME GcInv, OutputWidth
  PROVE  GcInv'
<1> DEFINE wide == At("WIDE")
           s == [scr EXCEPT !.wide = wide]
<1>1. (At("WIDE") \/ At("NARROW")) /\ Turn(s, 1) /\ gcFaults' = gcFaults /\ plain' = plain
  BY DEF OutputWidth
<1>2. out.active /\ Len(out.rest) \in Nat /\ 1 <= Len(out.rest) /\ (plain => Off(scr))
  BY <1>1, AtControl DEF Controls
<1> HIDE DEF wide
<1>3. Is(s, scr, wide, scr.col, scr.row, scr.cells, scr.ink)
  BY <1>2, Drawing, FieldSet
<1> HIDE DEF s
<1>4. OnScreen(s) /\ s.mode = scr.mode
  <2>1. /\ Shape(s) /\ s.mode = scr.mode /\ DOMAIN s.cells = DOMAIN scr.cells
        /\ s.col \in 0..(Width(scr) - 1) /\ s.row \in 0..(Height(scr) - 1)
    BY <1>2, <1>3, Drawing DEF Is
  <2> QED BY <1>2, <2>1, Drawing, OnScreenAt
<1>5. plain => Off(s)
  BY <1>2, <1>3 DEF Is, Off
<1>6. gcFaults' \in 0..MaxGcFaults /\ plain' \in BOOLEAN
  BY <1>1, <1>2, Drawing
<1> QED BY <1>1, <1>2, <1>4, <1>5, <1>6, TurnKeeps DEF Turn

LEMMA RunKeeps ==
  ASSUME GcInv, NEW done \in BOOLEAN, NEW doneSpace \in BOOLEAN, OutputRun(done, doneSpace)
  PROVE  GcInv'
<1> DEFINE s == Printed(scr, out.rest, done, doneSpace)
           n == Run(scr, out.rest).count
           text == SubSeq(out.rest, 1, n)
           rest == SubSeq(out.rest, n + 1, Len(out.rest))
           now == done /\ doneSpace /\ GraphicsConsoleConOutTestString(text)
<1>1. /\ out.active /\ out.rest # << >> /\ Head(out.rest) \notin Controls
      /\ Fault(done /\ doneSpace) /\ scr' = s /\ out' = [out EXCEPT !.rest = rest]
      /\ plain' = (plain /\ now) /\ UNCHANGED <<gop, gc, outputs>>
  BY DEF OutputRun
<1>2. /\ Stays(scr, s) /\ s.col \in 0..(Width(scr) - 1) /\ s.row \in 0..(Height(scr) - 1)
      /\ now /\ (Off(scr) \/ Moving(scr, out.rest)) => Off(s) \/ Moving(s, rest)
  BY <1>1, Drawing, PrintedIs
<1>3. n \in Nat /\ n <= Len(out.rest)
  <2>1. n \in 0..Len(out.rest) /\ Len(out.rest) \in Nat
    BY <1>1, Drawing, RunIs, LenProperties
  <2> HIDE DEF n
  <2> QED BY <2>1
<1> HIDE DEF s, n
<1>4. OnScreen(s) /\ s.mode = scr.mode
  BY <1>1, <1>2, StaysTurn
<1>5. gcFaults' \in 0..MaxGcFaults
  BY <1>1, FaultCounts DEF GcInv
<1> HIDE DEF now
<1>6. plain' => Off(s) \/ Moving(s, rest)
  BY <1>1, <1>2, Drawing
<1>7. plain' \in BOOLEAN
  BY <1>1
<1> QED BY <1>1, <1>3, <1>4, <1>5, <1>6, <1>7, TurnKeeps

LEMMA EndsKeeps ==
  ASSUME GcInv, OutputEnds
  PROVE  GcInv'
<1> DEFINE s == [scr EXCEPT !.wide = out.wide]
<1>1. /\ out.active /\ out.rest = << >> /\ scr' = FlushCursor(s) /\ out' = Quiet
      /\ UNCHANGED <<gop, gc, outputs, gcFaults, plain>>
  BY DEF OutputEnds, gcOther
<1>2. Is(s, scr, out.wide, scr.col, scr.row, scr.cells, scr.ink)
  BY <1>1, Drawing, FieldSet
<1> HIDE DEF s
<1>3. plain => Off(s)
  BY <1>1, <1>2, Drawing DEF Is, Off, Moving
<1>4. OnScreen(s) /\ s.mode = scr.mode
  <2>1. /\ Shape(s) /\ s.mode = scr.mode /\ DOMAIN s.cells = DOMAIN scr.cells
        /\ s.col \in 0..(Width(scr) - 1) /\ s.row \in 0..(Height(scr) - 1)
    BY <1>1, <1>2, Drawing DEF Is
  <2> QED BY <1>1, <2>1, Drawing, OnScreenAt
<1>5. OnScreen(scr') /\ scr'.mode = scr.mode /\ (plain => On(scr'))
  BY <1>1, <1>3, <1>4, FlushOnScreen
<1>6. OutIs' /\ out'.active = FALSE
  BY <1>1 DEF OutIs, Quiet
<1>7. /\ outputs' \in 0..MaxOutputs /\ gcFaults' \in 0..MaxGcFaults /\ plain' \in BOOLEAN
      /\ plain' = plain /\ gc.at \in {"banner", "installed"} /\ gop' = gop /\ gc' = gc
  BY <1>1, Drawing
<1> QED BY <1>5, <1>6, <1>7, DrawingKeeps

-----------------------------------------------------------------------------
(* The console's calls keep it so.                                          *)

LEMMA Used ==
  ASSUME GcInv, gc.at \in {"banner", "installed"}, ~out.active
  PROVE  /\ gc.at # "stopped" /\ GopShape /\ GcShape
         /\ OnScreen(scr) /\ Shape(scr) /\ gc.modes[scr.mode + 1].gopMode = gop.mode
         /\ OutIs /\ out.active \in BOOLEAN /\ out.active = FALSE
         /\ outputs \in 0..MaxOutputs /\ gcFaults \in 0..MaxGcFaults /\ plain \in BOOLEAN
         /\ plain => On(scr)
<1>1. GopShape /\ GcShape /\ ScrShape /\ InkRight
  BY DEF GcInv
<1>2. OnScreen(scr)
  BY <1>1 DEF ScrShape
<1> QED BY <1>1, <1>2, OnScreenIs DEF ScrShape, InkRight, OutIs

\* A call that draws on the screen it has.
LEMMA CallKeeps ==
  ASSUME GcInv, InUse, UNCHANGED <<gop, gc, out, outputs, gcFaults>>,
         OnScreen(scr'), scr'.mode = scr.mode,
         plain' \in BOOLEAN, plain' => On(scr')
  PROVE  GcInv'
<1>1. gc.at \in {"banner", "installed"} /\ ~out.active
  BY DEF InUse
<1>2. OutIs'
  BY <1>1, Used DEF OutIs
<1>3. out'.active \in BOOLEAN /\ ~out'.active
  BY <1>1, Used
<1>4. outputs' \in 0..MaxOutputs /\ gcFaults' \in 0..MaxGcFaults
  BY <1>1, Used
<1> QED BY <1>1, <1>2, <1>3, <1>4, DrawingKeeps

LEMMA SetAttributeKeeps ==
  ASSUME GcInv, NEW attr, SetAttribute(attr)
  PROVE  GcInv'
<1>1. /\ InUse /\ scr' = GraphicsConsoleConOutSetAttribute(scr, attr)
      /\ UNCHANGED <<gop, gc, out, outputs, gcFaults, plain>>
  BY DEF SetAttribute, gcOther
<1>2. OnScreen(scr) /\ plain \in BOOLEAN /\ (plain => On(scr))
  BY <1>1, Used DEF InUse
<1>3. OnScreen(scr') /\ scr'.mode = scr.mode /\ (On(scr) => On(scr'))
  BY <1>1, <1>2, SetAttributeIs
<1>4. plain' \in BOOLEAN /\ (plain' => On(scr'))
  BY <1>1, <1>2, <1>3
<1> QED BY <1>1, <1>3, <1>4, CallKeeps

LEMMA ClearScreenKeeps ==
  ASSUME GcInv, GraphicsConsoleConOutClearScreen
  PROVE  GcInv'
<1>1. /\ InUse /\ scr' = ClearScreen(scr) /\ plain' = TRUE
      /\ UNCHANGED <<gop, gc, out, outputs, gcFaults>>
  BY DEF GraphicsConsoleConOutClearScreen, gcOther
<1>2. OnScreen(scr) /\ GopShape /\ GcShape /\ gc.at # "stopped"
  BY <1>1, Used DEF InUse
<1>3. OnScreen(scr') /\ scr'.mode = scr.mode /\ On(scr')
  BY <1>1, <1>2, ClearScreenIs
<1>4. plain' \in BOOLEAN
  BY <1>1
<1> QED BY <1>1, <1>3, <1>4, CallKeeps

LEMMA SetCursorKeeps ==
  ASSUME GcInv, NEW p \in Positions, GraphicsConsoleConOutSetCursorPosition(p[1], p[2])
  PROVE  GcInv'
<1>1. /\ InUse /\ scr' = SetCursor(scr, p[1], p[2])
      /\ UNCHANGED <<gop, gc, out, outputs, gcFaults, plain>>
  BY DEF GraphicsConsoleConOutSetCursorPosition, gcOther
<1>2. /\ OnScreen(scr) /\ GopShape /\ GcShape /\ gc.at # "stopped"
      /\ plain \in BOOLEAN /\ (plain => On(scr))
  BY <1>1, Used DEF InUse
<1>3. p[1] \in Nat /\ p[2] \in Nat
  BY GcAssumption DEF Sizes
<1>4. OnScreen(scr') /\ scr'.mode = scr.mode /\ (On(scr) => On(scr'))
  BY <1>1, <1>2, <1>3, SetCursorIs
<1>5. plain' \in BOOLEAN /\ (plain' => On(scr'))
  BY <1>1, <1>2, <1>4
<1> QED BY <1>1, <1>4, <1>5, CallKeeps

LEMMA EnableCursorKeeps ==
  ASSUME GcInv, NEW visible, GraphicsConsoleConOutEnableCursor(visible)
  PROVE  GcInv'
<1>1. /\ InUse /\ scr' = FlushCursor([FlushCursor(scr) EXCEPT !.visible = visible])
      /\ UNCHANGED <<gop, gc, out, outputs, gcFaults, plain>>
  BY DEF GraphicsConsoleConOutEnableCursor, gcOther
<1>2. OnScreen(scr) /\ plain \in BOOLEAN /\ (plain => On(scr))
  BY <1>1, Used DEF InUse
<1>3. OnScreen(scr') /\ scr'.mode = scr.mode /\ (On(scr) => On(scr'))
  BY <1>1, <1>2, EnableCursorIs
<1>4. plain' \in BOOLEAN /\ (plain' => On(scr'))
  BY <1>1, <1>2, <1>3
<1> QED BY <1>1, <1>3, <1>4, CallKeeps

LEMMA OutputStringKeeps ==
  ASSUME GcInv, NEW str \in Strings, GraphicsConsoleConOutOutputString(str)
  PROVE  GcInv'
<1>1. /\ InUse /\ outputs < MaxOutputs /\ outputs' = outputs + 1
      /\ scr' = FlushCursor(scr) /\ out' = Begins(scr, str)
      /\ UNCHANGED <<gop, gc, gcFaults, plain>>
  BY DEF GraphicsConsoleConOutOutputString
<1>2. gc.at \in {"banner", "installed"} /\ ~out.active
  BY <1>1 DEF InUse
<1>3. /\ OnScreen(scr) /\ plain \in BOOLEAN /\ (plain => On(scr))
      /\ outputs \in 0..MaxOutputs /\ gcFaults \in 0..MaxGcFaults
  BY <1>2, Used
<1>4. OnScreen(scr') /\ scr'.mode = scr.mode /\ (plain => Off(scr'))
  BY <1>1, <1>3, FlushOnScreen
<1>5. OutIs' /\ out'.active = TRUE /\ out'.rest = str
  BY <1>1 DEF OutIs, Begins
<1>6. str \in Seq(STRING) /\ outputs' \in 0..MaxOutputs /\ gcFaults' \in 0..MaxGcFaults
  BY <1>1, <1>3, GcAssumption
<1> QED BY <1>1, <1>2, <1>3, <1>4, <1>5, <1>6, DrawingKeeps

\* Another mode: the modes of the console stay.
LEMMA ModeKeeps ==
  ASSUME GcInv, InUse, NEW buffer \in Buffers, NEW k \in 0..(Len(gop.modes) - 1),
         gc' = [gc EXCEPT !.lineBuffer = buffer], gop' = [gop EXCEPT !.mode = k],
         UNCHANGED <<out, outputs>>, gcFaults' \in 0..MaxGcFaults,
         OnScreen(scr'), gc.modes[scr'.mode + 1].gopMode = k,
         plain' \in BOOLEAN, plain' => On(scr')
  PROVE  GcInv'
<1>1. GopShape /\ GcShape /\ ScrShape /\ InkRight
  BY DEF GcInv
<1>2. /\ gc'.modes = gc.modes /\ gc'.lineBuffer = buffer /\ gc'.at = gc.at
      /\ gc' = [modes |-> gc'.modes, lineBuffer |-> gc'.lineBuffer, at |-> gc'.at]
  <2> DEFINE a == gc.modes
             b == gc.lineBuffer
             c == gc.at
  <2>1. gc = [modes |-> a, lineBuffer |-> b, at |-> c]
    BY <1>1 DEF GcShape
  <2> HIDE DEF a, b, c
  <2>2. gc' = [modes |-> a, lineBuffer |-> buffer, at |-> c]
    BY <2>1
  <2>3. gc'.modes = a /\ gc'.lineBuffer = buffer /\ gc'.at = c
    BY <2>2
  <2> QED BY <2>2, <2>3 DEF a, c
<1>3. Len(gop.modes) \in Nat
  BY <1>1, LenProperties DEF GopShape
<1>4. /\ gop'.modes = gop.modes /\ gop'.mode = k /\ gop'.broken = gop.broken
      /\ gop'.pcd = gop.pcd /\ gop'.openBy = gop.openBy /\ GopShape'
  BY <1>1, <1>3 DEF GopShape
<1>5. gc.at = "installed" /\ out.active = FALSE
  BY Used DEF InUse
<1>6. GcShape'
  BY <1>1, <1>2, <1>4, <1>5 DEF GcShape, StartedOn
<1>7. OnScreen(scr)'
  BY <1>2, OnScreenNext
<1>8. ScrShape'
  <2>1. OutIs' /\ outputs' \in 0..MaxOutputs /\ out' = out
    BY <1>1 DEF ScrShape, OutIs
  <2> QED BY <1>2, <1>4, <1>5, <1>7, <2>1 DEF ScrShape, OutIs
<1>9. InkRight'
  <2>1. On(scr)' = On(scr') /\ out' = out
    BY DEF On, Mark, GetTextColors
  <2> QED BY <1>5, <2>1 DEF InkRight
<1> QED BY <1>4, <1>6, <1>8, <1>9 DEF GcInv

\* The graphics mode of a text mode is one of the output's.
LEMMA GopModeIs ==
  ASSUME GopShape, GcShape, gc.at # "stopped", NEW m \in 0..(Len(gc.modes) - 1)
  PROVE  gc.modes[m + 1].gopMode \in 0..(Len(gop.modes) - 1)
<1>1. Len(gc.modes) \in Nat \ {0}
  BY ModesKnown
<1>2. m + 1 \in 1..Len(gc.modes)
  BY <1>1
<1>3. gc.modes[m + 1].gopMode = gc.modes[1].gopMode
  BY <1>2, ModesKnown
<1> QED BY <1>3, ModesKnown

\* SetMode, of a console in use.
LEMMA SetModeUsed ==
  ASSUME GcInv, InUse, NEW m \in Nat, NEW alloc \in BOOLEAN
  PROVE  LET w == GraphicsConsoleConOutSetMode(scr, m, alloc)
         IN  /\ w.gc = [gc EXCEPT !.lineBuffer = w.gc.lineBuffer]
             /\ w.gc.lineBuffer \in Buffers
             /\ w.gop = [gop EXCEPT !.mode = w.gop.mode]
             /\ w.gop.mode \in 0..(Len(gop.modes) - 1)
             /\ OnScreen(w.scr) /\ gc.modes[w.scr.mode + 1].gopMode = w.gop.mode
             /\ w.status = "SUCCESS" => On(w.scr)
             /\ w.status = "UNSUPPORTED" => w.scr = scr
<1> DEFINE w == GraphicsConsoleConOutSetMode(scr, m, alloc)
<1>1. /\ GopShape /\ GcShape /\ gc.at # "stopped" /\ OnScreen(scr) /\ Shape(scr)
      /\ gc.modes[scr.mode + 1].gopMode = gop.mode
  BY Used DEF InUse
<1>2. /\ w.gc = [gc EXCEPT !.lineBuffer = w.gc.lineBuffer]
      /\ w.gc.lineBuffer \in Buffers
      /\ w.gop = [gop EXCEPT !.mode = w.gop.mode]
      /\ w.status = "SUCCESS" =>
           /\ m \in 0..(Len(gc.modes) - 1)
           /\ OnScreen(w.scr) /\ On(w.scr) /\ w.scr.mode = m
           /\ w.gop.mode = gc.modes[m + 1].gopMode
      /\ w.status = "UNSUPPORTED" => w.scr = scr /\ w.gop.mode = gop.mode
      /\ w.status \in {"OUT_OF_RESOURCES", "DEVICE_ERROR"} =>
           w.scr \in {scr, FlushCursor(scr)} /\ w.gop.mode = gop.mode
      /\ w.status \in {"SUCCESS", "UNSUPPORTED", "OUT_OF_RESOURCES", "DEVICE_ERROR"}
  BY <1>1, SetModeIs
<1> HIDE DEF w
<1>3. CASE w.status = "SUCCESS"
  BY <1>1, <1>2, <1>3, GopModeIs DEF w
<1>4. CASE w.status # "SUCCESS"
  <2>1. w.gop.mode = gop.mode /\ w.scr \in {scr, FlushCursor(scr)}
    BY <1>2, <1>4
  <2>2. OnScreen(w.scr) /\ w.scr.mode = scr.mode
    BY <1>1, <2>1, FlushOnScreen
  <2>3. gop.mode \in 0..(Len(gop.modes) - 1)
    BY <1>1 DEF GopShape
  <2> QED BY <1>1, <1>2, <1>4, <2>1, <2>2, <2>3 DEF w
<1> QED BY <1>3, <1>4

LEMMA SetModeKeeps ==
  ASSUME GcInv, NEW m \in Nat, NEW alloc \in BOOLEAN, SetMode(m, alloc)
  PROVE  GcInv'
<1> DEFINE w == GraphicsConsoleConOutSetMode(scr, m, alloc)
<1>1. /\ InUse /\ Fault(alloc) /\ scr' = w.scr /\ gc' = w.gc /\ gop' = w.gop
      /\ plain' = (IF w.status = "SUCCESS" THEN TRUE ELSE w.status = "UNSUPPORTED" /\ plain)
      /\ UNCHANGED <<out, outputs>>
  BY DEF SetMode, Take
<1>2. /\ w.gc = [gc EXCEPT !.lineBuffer = w.gc.lineBuffer]
      /\ w.gc.lineBuffer \in Buffers
      /\ w.gop = [gop EXCEPT !.mode = w.gop.mode]
      /\ w.gop.mode \in 0..(Len(gop.modes) - 1)
      /\ OnScreen(w.scr) /\ gc.modes[w.scr.mode + 1].gopMode = w.gop.mode
      /\ w.status = "SUCCESS" => On(w.scr)
      /\ w.status = "UNSUPPORTED" => w.scr = scr
  BY <1>1, SetModeUsed
<1> HIDE DEF w
<1>3. plain \in BOOLEAN /\ (plain => On(scr))
  BY <1>1, Used DEF InUse
<1>4. plain' \in BOOLEAN /\ (plain' => On(scr'))
  BY <1>1, <1>2, <1>3
<1>5. gcFaults' \in 0..MaxGcFaults
  BY <1>1, FaultCounts DEF GcInv
<1> QED BY <1>1, <1>2, <1>4, <1>5, ModeKeeps

LEMMA SetModeResult ==
  ASSUME NEW s, NEW m, NEW alloc
  PROVE  LET w == GraphicsConsoleConOutSetMode(s, m, alloc)
         IN  w = [scr |-> w.scr, gc |-> w.gc, gop |-> w.gop, status |-> w.status]
<1> DEFINE w == GraphicsConsoleConOutSetMode(s, m, alloc)
<1>1. \E t, buffer, number, status : w = Result(t, buffer, number, status)
  BY Zenon DEF GraphicsConsoleConOutSetMode, GraphicsConsoleConOutQueryMode, Refused
<1>2. PICK t, buffer, number, status : w = Result(t, buffer, number, status)
  BY <1>1
<1> HIDE DEF w
<1>3. w = [scr |-> w.scr, gc |-> w.gc, gop |-> w.gop, status |-> w.status]
  BY <1>2 DEF Result
<1> QED BY <1>3 DEF w

LEMMA ResetKeeps ==
  ASSUME GcInv, NEW alloc \in BOOLEAN, GraphicsConsoleConOutReset(alloc)
  PROVE  GcInv'
<1> DEFINE w == GraphicsConsoleConOutSetMode(scr, 0, alloc)
           reset == GraphicsConsoleConOutSetAttribute(w.scr, GetTextColors(w.scr).fore)
<1>1. /\ InUse /\ Fault(alloc)
      /\ Take(IF w.status = "SUCCESS" THEN [w EXCEPT !.scr = reset] ELSE w)
      /\ plain' = (w.status = "SUCCESS") /\ UNCHANGED <<out, outputs>>
  BY DEF GraphicsConsoleConOutReset
<1>2. /\ w.gc = [gc EXCEPT !.lineBuffer = w.gc.lineBuffer]
      /\ w.gc.lineBuffer \in Buffers
      /\ w.gop = [gop EXCEPT !.mode = w.gop.mode]
      /\ w.gop.mode \in 0..(Len(gop.modes) - 1)
      /\ OnScreen(w.scr) /\ gc.modes[w.scr.mode + 1].gopMode = w.gop.mode
      /\ w.status = "SUCCESS" => On(w.scr)
  BY <1>1, SetModeUsed
<1>3. w = [scr |-> w.scr, gc |-> w.gc, gop |-> w.gop, status |-> w.status]
  BY SetModeResult
<1>4. OnScreen(reset) /\ reset.mode = w.scr.mode /\ (On(w.scr) => On(reset))
  BY <1>2, SetAttributeIs
<1> HIDE DEF w, reset
<1>5. gc' = w.gc /\ gop' = w.gop /\ scr' = IF w.status = "SUCCESS" THEN reset ELSE w.scr
  <2>1. /\ [w EXCEPT !.scr = reset].scr = reset /\ [w EXCEPT !.scr = reset].gc = w.gc
        /\ [w EXCEPT !.scr = reset].gop = w.gop
    BY <1>3
  <2> QED BY <1>1, <2>1 DEF Take
<1>6. /\ OnScreen(scr') /\ gc.modes[scr'.mode + 1].gopMode = w.gop.mode
      /\ plain' \in BOOLEAN /\ (plain' => On(scr'))
  BY <1>1, <1>2, <1>4, <1>5
<1>7. gcFaults' \in 0..MaxGcFaults
  BY <1>1, FaultCounts DEF GcInv
<1> QED BY <1>1, <1>2, <1>5, <1>6, <1>7, ModeKeeps

-----------------------------------------------------------------------------
(* The graphics mode that Start chooses.                                    *)

LEMMA MinOf ==
  ASSUME NEW T \in SUBSET Nat, T # {}
  PROVE  Min(T) \in T /\ \A k \in T : Min(T) <= k
<1>1. \E m \in T : \A k \in T : m <= k
  BY LeastNumber
<1> QED BY <1>1 DEF Min

LEMMA CheckIs ==
  ASSUME GopShape, NEW res
  PROVE  LET c == CheckModeSupported(res)
         IN  /\ c.ok \in BOOLEAN /\ c.mode \in 0..(Len(gop.modes) - 1)
             /\ c.ok => /\ c.number \in 0..(Len(gop.modes) - 1)
                        /\ gop.modes[c.number + 1] = res
             /\ (\E m \in DOMAIN gop.modes : gop.modes[m] = res /\ m - 1 \notin gop.broken)
                  => c.ok
<1> DEFINE same == {m \in DOMAIN gop.modes : gop.modes[m] = res}
           current == gop.modes[gop.mode + 1] = res
           settable == IF current THEN same ELSE {m \in same : m - 1 \notin gop.broken}
           number == IF settable = {} THEN Len(gop.modes) ELSE Min(settable) - 1
           c == CheckModeSupported(res)
           N == Len(gop.modes)
<1>1. /\ c.number = number /\ c.ok = (settable # {})
      /\ c.mode = IF current \/ settable = {} THEN gop.mode ELSE number
  BY DEF CheckModeSupported
<1>2. N \in Nat /\ DOMAIN gop.modes = 1..N /\ gop.mode \in 0..(N - 1)
  BY LenProperties DEF GopShape
<1> HIDE DEF c, N
<1>3. settable \in SUBSET Nat /\ settable \subseteq 1..N
      /\ \A m \in settable : gop.modes[m] = res
  BY <1>2
<1>4. ASSUME settable # {}
      PROVE  number \in 0..(N - 1) /\ gop.modes[number + 1] = res
  <2> DEFINE k == Min(settable)
  <2>1. k \in settable
    BY <1>3, <1>4, MinOf
  <2>2. number = k - 1
    BY <1>4
  <2>3. k \in 1..N /\ gop.modes[k] = res
    BY <1>3, <2>1
  <2> HIDE DEF k, settable, number
  <2>4. number \in 0..(N - 1) /\ number + 1 = k
    BY <1>2, <2>2, <2>3
  <2> QED BY <2>3, <2>4
<1>5. ASSUME NEW m \in DOMAIN gop.modes, gop.modes[m] = res, m - 1 \notin gop.broken
      PROVE  settable # {}
  <2>1. m \in settable
    BY <1>5
  <2> QED BY <2>1
<1> HIDE DEF settable, number, current
<1>6. c.ok \in BOOLEAN
  BY <1>1
<1>7. c.mode \in 0..(N - 1)
  BY <1>1, <1>2, <1>4
<1> QED BY <1>1, <1>4, <1>5, <1>6, <1>7 DEF c, N

LEMMA SmallerTrans ==
  ASSUME NEW p \in Sizes, NEW q \in Sizes, NEW r \in Sizes, Smaller(p, q), ~Smaller(p, r)
  PROVE  ~Smaller(q, r)
BY DEF Smaller, Sizes

LEMMA LargestExists ==
  ASSUME NEW modes, NEW N \in Nat \ {0}, \A m \in 1..N : modes[m] \in Sizes
  PROVE  \E m \in 1..N : \A k \in 1..N : ~Smaller(modes[m], modes[k])
<1> DEFINE Best(n) == \E m \in 1..n : \A k \in 1..n : ~Smaller(modes[m], modes[k])
           T == {n \in Nat : n + 1 <= N => Best(n + 1)}
<1>1. \A p \in Sizes : ~Smaller(p, p)
  BY DEF Smaller, Sizes
<1>2. 0 \in T
  <2>1. 1..(0 + 1) = {1} /\ modes[1] \in Sizes
    <3>1. 1 \in 1..N
      OBVIOUS
    <3> QED BY <3>1
  <2>2. Best(0 + 1)
    BY <1>1, <2>1
  <2> QED BY <2>2
<1>3. ASSUME NEW n \in Nat, n \in T PROVE n + 1 \in T
  <2> SUFFICES ASSUME n + 1 + 1 <= N PROVE Best(n + 1 + 1)
    OBVIOUS
  <2>1. PICK m \in 1..(n + 1) : \A k \in 1..(n + 1) : ~Smaller(modes[m], modes[k])
    BY <1>3
  <2> DEFINE z == n + 1 + 1
  <2>2. 1..z = (1..(n + 1)) \cup {z} /\ z \in 1..N /\ \A k \in 1..(n + 1) : k \in 1..N
    OBVIOUS
  <2>3. modes[m] \in Sizes /\ modes[z] \in Sizes /\ \A k \in 1..(n + 1) : modes[k] \in Sizes
    BY <2>2
  <2> HIDE DEF z, T
  <2>4. CASE Smaller(modes[m], modes[z])
    <3>1. \A k \in 1..(n + 1) : ~Smaller(modes[z], modes[k])
      BY <2>1, <2>3, <2>4, SmallerTrans
    <3>2. ~Smaller(modes[z], modes[z])
      BY <1>1, <2>3
    <3>3. \A k \in 1..z : ~Smaller(modes[z], modes[k])
      BY <2>2, <3>1, <3>2
    <3>4. z \in 1..z
      BY <2>2
    <3>5. Best(z)
      BY <3>3, <3>4
    <3> QED BY <3>5 DEF z
  <2>5. CASE ~Smaller(modes[m], modes[z])
    <3>1. \A k \in 1..z : ~Smaller(modes[m], modes[k])
      BY <2>1, <2>2, <2>5
    <3>2. m \in 1..z
      BY <2>2
    <3>3. Best(z)
      BY <3>1, <3>2
    <3> QED BY <3>3 DEF z
  <2> QED BY <2>4, <2>5
<1>4. \A n \in Nat : n \in T => n + 1 \in T
  BY <1>3
<1>5. Nat \subseteq T
  <2> HIDE DEF T
  <2> QED BY <1>2, <1>4, NumbersBelong
<1> HIDE DEF Best
<1>6. N - 1 \in Nat /\ (N - 1) + 1 = N /\ (N - 1) + 1 <= N
  OBVIOUS
<1>7. Best(N)
  BY <1>5, <1>6
<1> QED BY <1>7 DEF Best

LEMMA LargestIs ==
  ASSUME GopShape
  PROVE  LargestMode \in 0..(Len(gop.modes) - 1)
<1> DEFINE N == Len(gop.modes)
           best == {m \in DOMAIN gop.modes :
                      \A k \in DOMAIN gop.modes : ~Smaller(gop.modes[m], gop.modes[k])}
<1>1. /\ N \in Nat /\ DOMAIN gop.modes = 1..N /\ gop.mode \in 0..(N - 1)
      /\ gop.modes \in Seq(Resolutions)
  BY LenProperties DEF GopShape
<1>2. LargestMode = Min(best) - 1
  BY DEF LargestMode, Smaller
<1> HIDE DEF N
<1>3. N \in Nat \ {0}
  BY <1>1
<1>4. \A m \in 1..N : gop.modes[m] \in Sizes
  BY <1>1, ElementOfSeq DEF Resolutions, N
<1>5. \E m \in 1..N : \A k \in 1..N : ~Smaller(gop.modes[m], gop.modes[k])
  BY <1>3, <1>4, LargestExists
<1>6. best # {} /\ best \in SUBSET Nat /\ best \subseteq 1..N
  <2>1. PICK m \in 1..N : \A k \in 1..N : ~Smaller(gop.modes[m], gop.modes[k])
    BY <1>5
  <2>2. DOMAIN gop.modes = 1..N
    BY <1>1 DEF N
  <2>3. m \in best
    BY <2>1, <2>2, Zenon
  <2>4. best \subseteq 1..N
    BY <2>2
  <2> HIDE DEF best
  <2>5. 1..N \subseteq Nat
    BY <1>3
  <2> QED BY <2>3, <2>4, <2>5
<1> HIDE DEF best
<1>7. Min(best) \in 1..N
  BY <1>6, MinOf
<1>8. Min(best) - 1 \in 0..(N - 1)
  BY <1>1, <1>7
<1> QED BY <1>2, <1>8 DEF N

LEMMA ChosenIs ==
  ASSUME GopShape
  PROVE  LET chosen == ChosenMode(gop.pcd)
         IN  /\ chosen.number \in 0..(Len(gop.modes) - 1)
             /\ chosen.mode \in 0..(Len(gop.modes) - 1)
             /\ chosen.res = gop.modes[chosen.number + 1]
             /\ (\E m \in DOMAIN gop.modes : gop.modes[m] = gop.pcd /\ m - 1 \notin gop.broken)
                  => chosen.res = gop.pcd
<1> DEFINE N == Len(gop.modes)
           first == CheckModeSupported(gop.pcd)
           second == CheckModeSupported(DefaultSize)
           chosen == ChosenMode(gop.pcd)
           largest == LargestMode
           zero == gop.pcd[1] = 0 \/ gop.pcd[2] = 0
           usable == \E m \in DOMAIN gop.modes :
                       gop.modes[m] = gop.pcd /\ m - 1 \notin gop.broken
<1>1. /\ first.ok \in BOOLEAN /\ first.mode \in 0..(N - 1)
      /\ first.ok => first.number \in 0..(N - 1) /\ gop.modes[first.number + 1] = gop.pcd
      /\ usable => first.ok
  BY CheckIs
<1>2. /\ second.ok \in BOOLEAN /\ second.mode \in 0..(N - 1)
      /\ second.ok => second.number \in 0..(N - 1)
                      /\ gop.modes[second.number + 1] = DefaultSize
  BY CheckIs
<1>3. gop.mode \in 0..(N - 1) /\ largest \in 0..(N - 1)
  BY LargestIs DEF GopShape
<1>4. chosen = IF zero
               THEN [res |-> gop.modes[largest + 1], number |-> largest, mode |-> gop.mode,
                     ok |-> Smaller(gop.pcd, gop.modes[largest + 1])]
               ELSE IF first.ok
               THEN [res |-> gop.pcd, number |-> first.number, mode |-> first.mode, ok |-> TRUE]
               ELSE IF second.ok
               THEN [res |-> DefaultSize, number |-> second.number, mode |-> second.mode,
                     ok |-> TRUE]
               ELSE [res |-> gop.modes[gop.mode + 1], number |-> gop.mode, mode |-> gop.mode,
                     ok |-> TRUE]
  BY DEF ChosenMode
<1>5. zero => ~usable
  <2> SUFFICES ASSUME NEW m \in DOMAIN gop.modes, gop.modes[m] = gop.pcd
               PROVE ~zero
    OBVIOUS
  <2>1. gop.pcd \in Resolutions
    BY ElementOfSeq, LenProperties DEF GopShape
  <2>2. /\ BaseMode[1] \in Nat \ {0} /\ BaseMode[2] \in Nat \ {0}
        /\ Glyph[1] \in Nat \ {0} /\ Glyph[2] \in Nat \ {0}
    BY GcAssumption
  <2>3. /\ gop.pcd[1] \in Nat /\ gop.pcd[2] \in Nat
        /\ BaseMode[1] * Glyph[1] <= gop.pcd[1] /\ BaseMode[2] * Glyph[2] <= gop.pcd[2]
    BY <2>1 DEF Resolutions, Sizes
  <2>4. ASSUME NEW a \in Nat \ {0}, NEW b \in Nat \ {0} PROVE a * b # 0
    BY <2>4
  <2>5. BaseMode[1] * Glyph[1] # 0 /\ BaseMode[2] * Glyph[2] # 0
        /\ BaseMode[1] * Glyph[1] \in Nat /\ BaseMode[2] * Glyph[2] \in Nat
    BY <2>2, <2>4
  <2> QED BY <2>3, <2>5
<1> HIDE DEF zero, usable, first, second, largest, chosen, N
<1>6. CASE zero
  BY <1>3, <1>4, <1>5, <1>6 DEF N, chosen, usable
<1>7. CASE ~zero /\ first.ok
  BY <1>1, <1>4, <1>7 DEF N, chosen, usable
<1>8. CASE ~zero /\ ~first.ok /\ second.ok
  BY <1>1, <1>2, <1>4, <1>8 DEF N, chosen, usable
<1>9. CASE ~zero /\ ~first.ok /\ ~second.ok
  BY <1>1, <1>3, <1>4, <1>9 DEF N, chosen, usable
<1> QED BY <1>1, <1>2, <1>6, <1>7, <1>8, <1>9

-----------------------------------------------------------------------------
(* The driver binding keeps it so, and all of it.                           *)

LEMMA RegisterKeeps ==
  ASSUME GcInv, RegisterFontPackage
  PROVE  GcInv'
<1>1. /\ gop' = [gop EXCEPT !.hii = TRUE]
      /\ UNCHANGED <<gc, scr, out, outputs, gcFaults, plain>>
  BY DEF RegisterFontPackage, gcOther
<1>2. /\ gop'.modes = gop.modes /\ gop'.mode = gop.mode /\ gop'.broken = gop.broken
      /\ gop'.pcd = gop.pcd /\ gop'.openBy = gop.openBy /\ GopShape'
  BY <1>1 DEF GcInv, GopShape
<1>3. GcShape'
  BY <1>1, <1>2 DEF GcInv, GcShape, StartedOn
<1>4. ScrShape'
  <2>1. OnScreen(scr) => OnScreen(scr)'
    BY <1>1, OnScreenNext
  <2>2. ScrShape
    BY DEF GcInv
  <2> QED BY <1>1, <1>2, <2>1, <2>2 DEF ScrShape
<1>5. InkRight'
  BY <1>1 DEF GcInv, InkRight
<1> QED BY <1>2, <1>3, <1>4, <1>5 DEF GcInv

\* No console.
LEMMA NoConsole ==
  ASSUME GopShape', gop'.openBy = "none", gc' = NoGc, scr' = Template, ~out'.active,
         OutIs', out'.active \in BOOLEAN, plain' \in BOOLEAN,
         outputs' \in 0..MaxOutputs, gcFaults' \in 0..MaxGcFaults
  PROVE  GcInv'
<1>1. /\ gc'.at = "stopped" /\ gc'.lineBuffer = "NULL"
      /\ gc' = [modes |-> gc'.modes, lineBuffer |-> gc'.lineBuffer, at |-> gc'.at]
  BY DEF NoGc
<1>2. GcShape'
  BY <1>1 DEF GcShape, Stages, Buffers
<1>3. ScrShape' /\ InkRight'
  BY <1>1 DEF ScrShape, InkRight, OutIs
<1> QED BY <1>2, <1>3 DEF GcInv

LEMMA ReleasedKeeps ==
  ASSUME GcInv, Released, ~out.active, UNCHANGED <<out, outputs>>,
         plain' \in BOOLEAN, gcFaults' \in 0..MaxGcFaults
  PROVE  GcInv'
<1>1. gop' = [gop EXCEPT !.openBy = "none"] /\ gc' = NoGc /\ scr' = Template
  BY DEF Released
<1>2. GopShape' /\ gop'.openBy = "none"
  BY <1>1 DEF GcInv, GopShape
<1>3. OutIs' /\ ~out'.active /\ out'.active \in BOOLEAN /\ outputs' \in 0..MaxOutputs
  BY DEF GcInv, ScrShape, OutIs
<1> QED BY <1>1, <1>2, <1>3, NoConsole

LEMMA StartKeeps ==
  ASSUME GcInv, NEW alloc \in BOOLEAN, GraphicsConsoleControllerDriverStart(alloc)
  PROVE  GcInv'
<1> DEFINE chosen == ChosenMode(gop.pcd)
           sets == chosen.number # chosen.mode
           fails == ~alloc \/ ~chosen.ok \/ (sets /\ chosen.number \in gop.broken)
           mode == IF sets /\ ~fails THEN chosen.number ELSE chosen.mode
           by == IF fails THEN "none" ELSE "console"
           modes == InitializeGraphicsConsoleTextMode(chosen.res, chosen.number)
<1>1. /\ gc.at = "stopped" /\ gop.openBy = "none" /\ Fault(alloc)
      /\ gop' = IF ~alloc THEN gop ELSE [gop EXCEPT !.mode = mode, !.openBy = by]
      /\ gc' = IF fails THEN gc ELSE [gc EXCEPT !.modes = modes, !.at = "modes"]
      /\ UNCHANGED <<scr, out, outputs, plain>>
  BY DEF GraphicsConsoleControllerDriverStart, GraphicsConsoleControllerDriverSupported
<1>2. /\ chosen.number \in 0..(Len(gop.modes) - 1)
      /\ chosen.mode \in 0..(Len(gop.modes) - 1)
      /\ chosen.res = gop.modes[chosen.number + 1]
      /\ (\E m \in DOMAIN gop.modes : gop.modes[m] = gop.pcd /\ m - 1 \notin gop.broken)
           => chosen.res = gop.pcd
  BY ChosenIs DEF GcInv
<1>3. /\ GopShape /\ Len(gop.modes) \in Nat /\ gop.modes \in Seq(Resolutions)
      /\ gc = NoGc /\ scr = Template /\ ~out.active /\ out.active \in BOOLEAN
      /\ plain \in BOOLEAN /\ OutIs /\ outputs \in 0..MaxOutputs
  BY <1>1, LenProperties DEF GcInv, GopShape, GcShape, ScrShape, OutIs
<1>4. gcFaults' \in 0..MaxGcFaults
  BY <1>1, FaultCounts DEF GcInv
<1>5. chosen.res \in Resolutions
  <2>1. chosen.number + 1 \in 1..Len(gop.modes)
    BY <1>2, <1>3
  <2> QED BY <1>2, <1>3, <2>1, ElementOfSeq
<1>6. ModesFor(modes, chosen.res, chosen.number)
  BY <1>5, ModesAreRight
<1> HIDE DEF chosen, modes
<1>7. mode \in 0..(Len(gop.modes) - 1) /\ by \in {"none", "console"}
  BY <1>2
<1> HIDE DEF mode
<1>8. /\ gop'.modes = gop.modes /\ gop'.broken = gop.broken /\ gop'.pcd = gop.pcd
      /\ GopShape' /\ gop'.openBy = IF fails THEN "none" ELSE "console"
  <2>1. CASE ~alloc
    BY <1>1, <1>3, <2>1 DEF GopShape
  <2>2. CASE alloc
    <3> HIDE DEF by
    <3>1. gop' = [gop EXCEPT !.mode = mode, !.openBy = by]
      BY <1>1, <2>2
    <3>2. mode \in Nat
      BY <1>3, <1>7
    <3>3. /\ gop'.modes = gop.modes /\ gop'.broken = gop.broken /\ gop'.pcd = gop.pcd
          /\ GopShape' /\ gop'.openBy = by
      BY <1>3, <1>7, <3>1, <3>2 DEF GopShape
    <3> QED BY <3>3 DEF by
  <2> QED BY <2>1, <2>2
<1> HIDE DEF fails
<1>9. CASE fails
  <2>1. gc' = NoGc /\ scr' = Template /\ OutIs' /\ gop'.openBy = "none"
    BY <1>1, <1>3, <1>8, <1>9 DEF OutIs
  <2>2. ~out'.active /\ out'.active \in BOOLEAN /\ plain' \in BOOLEAN
        /\ outputs' \in 0..MaxOutputs
    BY <1>1, <1>3
  <2> QED BY <1>4, <1>8, <2>1, <2>2, NoConsole
<1>10. CASE ~fails
  <2>1. gc' = [modes |-> modes, lineBuffer |-> "NULL", at |-> "modes"]
    <3>1. gc' = [NoGc EXCEPT !.modes = modes, !.at = "modes"]
      BY <1>1, <1>3, <1>10
    <3> QED BY <3>1 DEF NoGc
  <2>2. modes[1].gopMode = chosen.number
    <3>1. /\ modes = [m \in DOMAIN modes |-> TextMode(modes[m].size, chosen.res, chosen.number)]
          /\ DOMAIN modes = 1..Len(modes) /\ Len(modes) \in Nat \ {0}
      BY <1>6 DEF ModesFor
    <3>2. 1 \in DOMAIN modes
      BY <3>1
    <3>3. modes[1] = TextMode(modes[1].size, chosen.res, chosen.number)
      BY <3>1, <3>2
    <3>4. \A size : TextMode(size, chosen.res, chosen.number).gopMode = chosen.number
      BY DEF TextMode
    <3> QED BY <3>3, <3>4, Zenon
  <2>3. /\ gc'.modes = modes /\ gc'.lineBuffer = "NULL" /\ gc'.at = "modes"
        /\ gc' = [modes |-> gc'.modes, lineBuffer |-> gc'.lineBuffer, at |-> gc'.at]
    BY <2>1
  <2> DEFINE p == gc'.modes[1].gopMode
  <2>7. p = chosen.number
    BY <2>2, <2>3
  <2> HIDE DEF p
  <2>8. /\ p \in 0..(Len(gop'.modes) - 1)
        /\ ModesFor(gc'.modes, gop'.modes[p + 1], p)
        /\ (\E m \in DOMAIN gop'.modes : gop'.modes[m] = gop'.pcd /\ m - 1 \notin gop'.broken)
             => gop'.modes[p + 1] = gop'.pcd
    BY <1>2, <1>6, <1>8, <2>3, <2>7
  <2>4. StartedOn(gc.modes[1].gopMode)'
    BY <2>8 DEF StartedOn, p, ModesFor, TextMode, Fits
  <2>5. GcShape'
    BY <1>8, <1>10, <2>3, <2>4 DEF GcShape, Stages, Buffers
  <2>6. ScrShape' /\ InkRight'
    BY <1>1, <1>3, <1>4, <2>3 DEF ScrShape, InkRight, OutIs
  <2> QED BY <1>8, <2>5, <2>6 DEF GcInv
<1> QED BY <1>9, <1>10

LEMMA StartSetsModeKeeps ==
  ASSUME GcInv, NEW alloc \in BOOLEAN, StartSetsMode(alloc)
  PROVE  GcInv'
<1>0. PICK m \in Nat : m = 0
  OBVIOUS
<1> DEFINE w == GraphicsConsoleConOutSetMode(scr, m, alloc)
<1>1. /\ gc.at = "modes" /\ Fault(alloc) /\ outputs' = outputs
      /\ IF w.status = "SUCCESS"
         THEN /\ gop' = w.gop /\ gc' = [w.gc EXCEPT !.at = "banner"]
              /\ scr' = FlushCursor(w.scr) /\ out' = Begins(w.scr, Banner) /\ plain' = TRUE
         ELSE Released /\ UNCHANGED <<out, plain>>
  BY <1>0 DEF StartSetsMode
<1>2. /\ GopShape /\ GcShape /\ gc.at # "stopped" /\ scr = Template /\ ~out.active
      /\ plain \in BOOLEAN /\ outputs \in 0..MaxOutputs
  BY <1>1 DEF GcInv, ScrShape
<1>3. gcFaults' \in 0..MaxGcFaults
  BY <1>1, FaultCounts DEF GcInv
<1>4. Shape(scr) /\ scr.mode # m
  BY <1>0, <1>2 DEF Shape, Template
<1>5. /\ w.gc = [gc EXCEPT !.lineBuffer = w.gc.lineBuffer]
      /\ w.gc.lineBuffer \in Buffers
      /\ w.gop = [gop EXCEPT !.mode = w.gop.mode]
      /\ w.status = "SUCCESS" =>
           /\ m \in 0..(Len(gc.modes) - 1)
           /\ OnScreen(w.scr) /\ On(w.scr) /\ w.scr.mode = m
           /\ w.gop.mode = gc.modes[m + 1].gopMode
  BY <1>2, <1>4, SetModeIs
<1> HIDE DEF w
<1>6. CASE w.status # "SUCCESS"
  BY <1>1, <1>2, <1>3, <1>6, ReleasedKeeps
<1>7. CASE w.status = "SUCCESS"
  <2> DEFINE b == w.gc.lineBuffer
             k == w.gop.mode
             modes == gc.modes
             b0 == gc.lineBuffer
             c0 == gc.at
  <2>1. k \in 0..(Len(gop.modes) - 1) /\ k = gc.modes[m + 1].gopMode
    BY <1>2, <1>5, <1>7, GopModeIs
  <2>2. gc' = [modes |-> modes, lineBuffer |-> b, at |-> "banner"]
    <3>1. gc = [modes |-> modes, lineBuffer |-> b0, at |-> c0]
      BY <1>2 DEF GcShape
    <3>2. w.gc = [gc EXCEPT !.lineBuffer = b] /\ gc' = [w.gc EXCEPT !.at = "banner"]
      BY <1>1, <1>5, <1>7
    <3> DEFINE v == w.gc
    <3> HIDE DEF modes, b, b0, c0
    <3>3. v = [modes |-> modes, lineBuffer |-> b, at |-> c0]
      BY <3>1, <3>2
    <3>4. gc' = [v EXCEPT !.at = "banner"]
      BY <3>2
    <3> HIDE DEF v
    <3> QED BY <3>3, <3>4
  <2>3. gop' = [gop EXCEPT !.mode = k]
    BY <1>1, <1>5, <1>7
  <2>4. b \in Buffers
    BY <1>5
  <2>5. /\ gc'.modes = gc.modes /\ gc'.lineBuffer = b /\ gc'.at = "banner"
        /\ gc' = [modes |-> gc'.modes, lineBuffer |-> gc'.lineBuffer, at |-> gc'.at]
    BY <2>2
  <2> HIDE DEF k, b
  <2>6. /\ gop'.modes = gop.modes /\ gop'.mode = k /\ gop'.broken = gop.broken
        /\ gop'.pcd = gop.pcd /\ gop'.openBy = gop.openBy /\ GopShape'
    <3>1. k \in Nat
      BY <1>2, <2>1, LenProperties DEF GopShape
    <3> QED BY <1>2, <2>1, <2>3, <3>1 DEF GopShape
  <2>7. GcShape'
    BY <1>1, <1>2, <2>4, <2>5, <2>6 DEF GcShape, StartedOn, Stages
  <2>8. OnScreen(scr') /\ scr'.mode = m /\ Off(scr')
    BY <1>1, <1>5, <1>7, FlushOnScreen
  <2>9. OnScreen(scr)'
    BY <2>5, <2>8, OnScreenNext
  <2>10. OutIs' /\ out'.active = TRUE /\ out'.rest = Banner
    BY <1>1, <1>7 DEF OutIs, Begins
  <2>11. ScrShape'
    BY <1>1, <1>2, <1>3, <1>7, <2>1, <2>5, <2>6, <2>8, <2>9, <2>10, GcAssumption
    DEF ScrShape, OutIs
  <2>12. InkRight'
    BY <2>8, <2>10 DEF InkRight, Off
  <2> QED BY <2>6, <2>7, <2>11, <2>12 DEF GcInv
<1> QED BY <1>6, <1>7

LEMMA StartInstallsKeeps ==
  ASSUME GcInv, NEW installed \in BOOLEAN, StartInstalls(installed)
  PROVE  GcInv'
<1>1. /\ gc.at = "banner" /\ ~out.active /\ Fault(installed)
      /\ IF installed
         THEN gc' = [gc EXCEPT !.at = "installed"] /\ UNCHANGED <<gop, scr>>
         ELSE Released
      /\ UNCHANGED <<out, outputs, plain>>
  BY DEF StartInstalls
<1>2. gcFaults' \in 0..MaxGcFaults
  BY <1>1, FaultCounts DEF GcInv
<1>3. /\ GopShape /\ GcShape /\ OnScreen(scr) /\ gc.modes[scr.mode + 1].gopMode = gop.mode
      /\ OutIs /\ out.active = FALSE /\ outputs \in 0..MaxOutputs /\ plain \in BOOLEAN
      /\ plain => On(scr)
  BY <1>1, Used
<1>4. CASE ~installed
  BY <1>1, <1>2, <1>3, <1>4, ReleasedKeeps
<1>5. CASE installed
  <2> DEFINE a == gc.modes
             b == gc.lineBuffer
             c == gc.at
  <2>1. gc' = [modes |-> a, lineBuffer |-> b, at |-> "installed"]
    <3>1. gc = [modes |-> a, lineBuffer |-> b, at |-> c]
      BY <1>3 DEF GcShape
    <3>2. gc' = [gc EXCEPT !.at = "installed"]
      BY <1>1, <1>5
    <3> HIDE DEF a, b, c
    <3> QED BY <3>1, <3>2
  <2>2. /\ gc'.modes = gc.modes /\ gc'.lineBuffer = gc.lineBuffer /\ gc'.at = "installed"
        /\ gc' = [modes |-> gc'.modes, lineBuffer |-> gc'.lineBuffer, at |-> gc'.at]
    BY <2>1
  <2>3. gop' = gop /\ scr' = scr /\ out' = out /\ outputs' = outputs /\ plain' = plain
    BY <1>1, <1>5
  <2>4. GopShape' /\ GcShape'
    BY <1>1, <1>3, <2>2, <2>3 DEF GopShape, GcShape, StartedOn, Stages
  <2>5. OnScreen(scr)'
    BY <1>3, <2>2, <2>3, OnScreenNext
  <2>6. ScrShape'
    BY <1>2, <1>3, <2>2, <2>3, <2>5 DEF ScrShape, OutIs
  <2>7. InkRight'
    BY <1>3, <2>3 DEF InkRight
  <2> QED BY <2>4, <2>6, <2>7 DEF GcInv
<1> QED BY <1>4, <1>5

LEMMA StopKeeps ==
  ASSUME GcInv, NEW uninstalled \in BOOLEAN, GraphicsConsoleControllerDriverStop(uninstalled)
  PROVE  GcInv'
<1>1. /\ gc.at = "installed" /\ ~out.active /\ Fault(uninstalled)
      /\ IF uninstalled THEN Released ELSE UNCHANGED <<gop, gc, scr>>
      /\ UNCHANGED <<out, outputs, plain>>
  BY DEF GraphicsConsoleControllerDriverStop
<1>2. gcFaults' \in 0..MaxGcFaults
  BY <1>1, FaultCounts DEF GcInv
<1>3. /\ OnScreen(scr) /\ OutIs /\ out.active = FALSE /\ outputs \in 0..MaxOutputs
      /\ plain \in BOOLEAN /\ (plain => On(scr))
  BY <1>1, Used
<1>4. CASE uninstalled
  BY <1>1, <1>2, <1>3, <1>4, ReleasedKeeps
<1>5. CASE ~uninstalled
  <2>1. /\ OnScreen(scr') /\ scr'.mode = scr.mode /\ UNCHANGED <<gop, gc>>
        /\ out' = out /\ plain' = plain /\ outputs' = outputs /\ scr' = scr
    BY <1>1, <1>3, <1>5
  <2>2. OutIs'
    BY <1>3, <2>1 DEF OutIs
  <2>3. out'.active = FALSE /\ out'.active \in BOOLEAN /\ outputs' \in 0..MaxOutputs
    BY <1>3, <2>1
  <2>4. plain' \in BOOLEAN /\ (plain' => On(scr')) /\ gc.at \in {"banner", "installed"}
    BY <1>1, <1>3, <2>1
  <2> QED BY <1>2, <2>1, <2>2, <2>3, <2>4, DrawingKeeps
<1> QED BY <1>4, <1>5

LEMMA GcInvInitially ==
  ASSUME GcInit
  PROVE  GcInv
<1>1. PICK g \in Gops, pcd \in Pcds :
        gop = [modes |-> g.modes, mode |-> g.mode, broken |-> g.broken, path |-> g.path,
               pcd |-> pcd, hii |-> FALSE, openBy |-> "none"]
  BY DEF GcInit
<1>2. /\ g.modes \in Seq(Resolutions) /\ g.mode \in 0..(Len(g.modes) - 1)
      /\ g.broken \in SUBSET Nat /\ g.path \in BOOLEAN /\ pcd \in Sizes
  BY GcAssumption
<1>3. g.mode \in Nat
  BY <1>2, LenProperties
<1>4. GopShape
  BY <1>1, <1>2, <1>3 DEF GopShape
<1>5. /\ gc.at = "stopped" /\ gc.lineBuffer = "NULL" /\ gc = NoGc
      /\ gc = [modes |-> gc.modes, lineBuffer |-> gc.lineBuffer, at |-> gc.at]
  BY DEF GcInit, NoGc
<1>6. GcShape
  BY <1>1, <1>5 DEF GcShape, Stages, Buffers
<1>7. ScrShape /\ InkRight
  BY <1>5, GcAssumption DEF GcInit, ScrShape, InkRight, Quiet
<1> QED BY <1>4, <1>6, <1>7 DEF GcInv

LEMMA GcInvKept ==
  ASSUME GcInv, [GcNext]_gcVars
  PROVE  GcInv'
<1>1. CASE RegisterFontPackage
  BY <1>1, RegisterKeeps
<1>2. CASE \E ok \in BOOLEAN : GraphicsConsoleControllerDriverStart(ok)
  BY <1>2, StartKeeps
<1>3. CASE \E ok \in BOOLEAN : StartSetsMode(ok)
  BY <1>3, StartSetsModeKeeps
<1>4. CASE \E ok \in BOOLEAN : StartInstalls(ok)
  BY <1>4, StartInstallsKeeps
<1>5. CASE \E ok \in BOOLEAN : GraphicsConsoleControllerDriverStop(ok)
  BY <1>5, StopKeeps
<1>6. CASE \E m \in 0..4, ok \in BOOLEAN : SetMode(m, ok)
  BY <1>6, SetModeKeeps
<1>7. CASE \E ok \in BOOLEAN : GraphicsConsoleConOutReset(ok)
  BY <1>7, ResetKeeps
<1>8. CASE \E attr \in Attributes : SetAttribute(attr)
  BY <1>8, SetAttributeKeeps
<1>9. CASE GraphicsConsoleConOutClearScreen
  BY <1>9, ClearScreenKeeps
<1>10. CASE \E p \in Positions : GraphicsConsoleConOutSetCursorPosition(p[1], p[2])
  BY <1>10, SetCursorKeeps
<1>11. CASE \E visible \in BOOLEAN : GraphicsConsoleConOutEnableCursor(visible)
  BY <1>11, EnableCursorKeeps
<1>12. CASE \E str \in Strings : GraphicsConsoleConOutOutputString(str)
  BY <1>12, OutputStringKeeps
<1>13. CASE \E done \in BOOLEAN : OutputBackspace(done)
  BY <1>13, BackspaceKeeps
<1>14. CASE OutputLineFeed
  BY <1>14, LineFeedKeeps
<1>15. CASE OutputCarriageReturn
  BY <1>15, CarriageReturnKeeps
<1>16. CASE OutputWidth
  BY <1>16, WidthKeeps
<1>17. CASE \E done, doneSpace \in BOOLEAN : OutputRun(done, doneSpace)
  BY <1>17, RunKeeps
<1>18. CASE OutputEnds
  BY <1>18, EndsKeeps
<1>19. CASE UNCHANGED gcVars
  <2>1. UNCHANGED <<gop, gc, scr, out, outputs, gcFaults, plain>>
    BY <1>19 DEF gcVars
  <2>2. GopShape' /\ GcShape'
    BY <2>1, GcKept DEF GcInv
  <2>3. OnScreen(scr) => OnScreen(scr)'
    BY <2>1, OnScreenNext
  <2>4. ScrShape /\ InkRight
    BY DEF GcInv
  <2>5. ScrShape'
    BY <2>1, <2>3, <2>4 DEF ScrShape
  <2>6. InkRight'
    BY <2>1, <2>4 DEF InkRight
  <2> QED BY <2>2, <2>5, <2>6 DEF GcInv
<1>20. CASE GcBinding
  BY <1>1, <1>2, <1>3, <1>4, <1>5, <1>20, Zenon DEF GcBinding
<1>21. CASE GcCall
  BY <1>6, <1>7, <1>8, <1>9, <1>10, <1>11, <1>12, <1>21, Zenon DEF GcCall
<1>22. CASE OutputStep
  BY <1>13, <1>14, <1>15, <1>16, <1>17, <1>18, <1>22, Zenon DEF OutputStep
<1> QED BY <1>19, <1>20, <1>21, <1>22 DEF GcNext

\* What a mode's window takes of the screen.
LEMMA WindowInScreen ==
  ASSUME NEW res \in Resolutions, NEW size, NEW number, NEW i \in 1..2,
         size = NoWindow \/ (/\ size[1] \in 1..MaxCells(res)[1]
                             /\ size[2] \in 1..MaxCells(res)[2])
  PROVE  LET delta == TextMode(size, res, number).delta[i]
         IN  delta >= 0 /\ delta + size[i] * Glyph[i] <= res[i]
<1> DEFINE g == Glyph[i]
           r == res[i]
           s == size[i]
           d == (r - s * g) \div 2
<1>1. g \in Nat \ {0}
  BY GcAssumption
<1>2. r \in Nat
  BY DEF Resolutions, Sizes
<1>3. MaxCells(res)[i] = r \div g
  BY DEF MaxCells
<1>4. r \div g \in Nat /\ \A x \in Nat : x <= r \div g => x * g <= r
  BY <1>1, <1>2, CellsFit
<1>5. MaxCells(res)[1] \in Nat /\ MaxCells(res)[2] \in Nat
  BY BaseFits
<1>6. s \in Nat /\ s <= r \div g
  <2>1. CASE size = NoWindow
    <3>1. s = 0
      BY <2>1 DEF NoWindow
    <3> HIDE DEF s, r, g
    <3> QED BY <1>4, <3>1
  <2>2. CASE size # NoWindow
    <3>1. s \in 1..MaxCells(res)[i] /\ MaxCells(res)[i] \in Nat
      BY <1>5, <2>2
    <3> HIDE DEF s, r, g
    <3> QED BY <1>3, <3>1
  <2> QED BY <2>1, <2>2
<1>7. TextMode(size, res, number).delta[i] = d
  BY DEF TextMode
<1> HIDE DEF g, r, s
<1>8. s * g \in Nat /\ s * g <= r
  BY <1>1, <1>4, <1>6
<1>9. d >= 0 /\ d + s * g <= r
  <2> DEFINE y == s * g
  <2>1. y \in Nat /\ y <= r
    BY <1>8
  <2> HIDE DEF y
  <2>2. (r - y) \div 2 >= 0 /\ (r - y) \div 2 + y <= r
    BY <1>2, <2>1
  <2> QED BY <2>2 DEF y
<1> QED BY <1>7, <1>9 DEF g, r, s

LEMMA GcInvShows ==
  ASSUME GcInv
  PROVE  ConsoleShown
<1>1. GopShape /\ GcShape /\ ScrShape /\ InkRight
  BY DEF GcInv
<1>2. gc.at \in Stages /\ (gc.at = "stopped" => gc.modes = << >>)
  BY <1>1 DEF GcShape, NoGc
<1>3. scr.mode # -1 => gc.at \in {"banner", "installed"} /\ OnScreen(scr)
  BY <1>1, <1>2 DEF ScrShape, Stages, Template
<1>4. GcTypeOK
  <2>1. CASE gc.at \in {"stopped", "modes"}
    <3>1. scr.mode = -1
      BY <1>1, <2>1 DEF ScrShape, Template
    <3>2. Len(gc.modes) \in Nat
      <4>1. CASE gc.at = "stopped"
        BY <1>2, <4>1
      <4>2. CASE gc.at # "stopped"
        BY <1>1, <4>2, ModesKnown
      <4> QED BY <4>1, <4>2
    <3>3. scr.mode \in -1..(Len(gc.modes) - 1)
      BY <3>1, <3>2
    <3> QED BY <1>1, <3>3 DEF GcTypeOK, GopShape, GcShape, ScrShape, Stages, Buffers
  <2>2. CASE gc.at \in {"banner", "installed"}
    <3>1. scr.mode \in 0..(Len(gc.modes) - 1)
      BY <1>1, <2>2 DEF ScrShape, OnScreen, Shaped
    <3>2. scr.mode \in -1..(Len(gc.modes) - 1)
      BY <3>1
    <3> QED BY <1>1, <3>2 DEF GcTypeOK, GopShape, GcShape, ScrShape, Stages, Buffers
  <2> QED BY <1>2, <2>1, <2>2 DEF Stages
<1>5. CursorDrawnOnce
  BY <1>1 DEF CursorDrawnOnce, InkRight, InUse, On
<1>6. CursorInWindow
  BY <1>3 DEF CursorInWindow, OnScreen, InWindow
<1>7. ModesUsable
  <2> SUFFICES ASSUME gc.modes # << >> PROVE ModesUsable
    BY DEF ModesUsable
  <2> DEFINE number == gc.modes[1].gopMode
             res == gop.modes[number + 1]
  <2>1. gc.at # "stopped"
    BY <1>2
  <2>2. /\ DOMAIN gc.modes = 1..Len(gc.modes) /\ Len(gc.modes) \in Nat \ {0}
        /\ res \in Resolutions
        /\ \A m \in 1..Len(gc.modes) :
             /\ gc.modes[m] = TextMode(gc.modes[m].size, res, number)
             /\ gc.modes[m].res = res
             /\ \/ gc.modes[m].size = NoWindow
                \/ /\ gc.modes[m].size[1] \in 1..MaxCells(res)[1]
                   /\ gc.modes[m].size[2] \in 1..MaxCells(res)[2]
    BY <1>1, <2>1, ModesKnown
  <2>3. ModesFor(gc.modes, res, number)
    BY <1>1, <2>1 DEF GcShape, StartedOn
  <2> HIDE DEF number, res
  <2>4. gc.modes[1].res = res
    BY <2>2
  <2>5. /\ \A m, k \in DOMAIN gc.modes : gc.modes[m].size = gc.modes[k].size => m = k
        /\ <<res[1] \div Glyph[1], res[2] \div Glyph[2]>>
             \in {gc.modes[m].size : m \in DOMAIN gc.modes}
    BY <2>3 DEF ModesFor
  <2>6. ASSUME NEW m \in DOMAIN gc.modes, NEW i \in 1..2
        PROVE  /\ gc.modes[m].delta[i] >= 0
               /\ gc.modes[m].delta[i] + gc.modes[m].size[i] * Glyph[i] <= gc.modes[m].res[i]
    <3> DEFINE size == gc.modes[m].size
    <3>1. /\ gc.modes[m] = TextMode(size, res, number) /\ gc.modes[m].res = res
          /\ size = NoWindow \/ (/\ size[1] \in 1..MaxCells(res)[1]
                                 /\ size[2] \in 1..MaxCells(res)[2])
      BY <2>2
    <3> HIDE DEF size
    <3>2. LET delta == TextMode(size, res, number).delta[i]
          IN  delta >= 0 /\ delta + size[i] * Glyph[i] <= res[i]
      BY <2>2, <3>1, WindowInScreen
    <3>3. gc.modes[m].delta = TextMode(size, res, number).delta
      BY <3>1
    <3> QED BY <3>1, <3>2, <3>3 DEF size
  <2> QED BY <2>4, <2>5, <2>6 DEF ModesUsable
<1>8. ModeShown
  <2> SUFFICES ASSUME scr.mode # -1 PROVE ModeShown
    BY DEF ModeShown
  <2>1. gc.at \in {"banner", "installed"} /\ OnScreen(scr) /\ gc.at # "stopped"
    BY <1>3
  <2>2. gc.modes[scr.mode + 1].gopMode = gop.mode
    BY <1>1, <2>1 DEF ScrShape
  <2>3. /\ scr.mode \in 0..(Len(gc.modes) - 1) /\ gc.modes[scr.mode + 1].size # NoWindow
        /\ DOMAIN scr.cells = Cells(Window(scr))
    BY <2>1 DEF OnScreen, Shaped, Window
  <2>4. gc.modes[scr.mode + 1].res = gop.modes[gop.mode + 1]
    <3>1. Len(gc.modes) \in Nat
      BY <1>1, <2>1, ModesKnown
    <3>2. scr.mode + 1 \in 1..Len(gc.modes)
      BY <2>3, <3>1
    <3>3. /\ gc.modes[scr.mode + 1].gopMode = gc.modes[1].gopMode
          /\ gc.modes[scr.mode + 1].res = gop.modes[gc.modes[1].gopMode + 1]
      BY <1>1, <2>1, <3>2, ModesKnown
    <3> QED BY <2>2, <3>3
  <2> QED BY <2>2, <2>3, <2>4 DEF ModeShown, GraphicsConsoleConOutQueryMode
<1>9. OutputHeldByConsole
  BY <1>1 DEF GcShape, OutputHeldByConsole
<1>10. PcdResolutionUsed
  <2>1. gc.at # "stopped" => gc.modes[1].res = gop.modes[gc.modes[1].gopMode + 1]
    <3> SUFFICES ASSUME gc.at # "stopped"
                 PROVE gc.modes[1].res = gop.modes[gc.modes[1].gopMode + 1]
      OBVIOUS
    <3>1. Len(gc.modes) \in Nat \ {0}
      BY <1>1, ModesKnown
    <3>2. 1 \in 1..Len(gc.modes)
      BY <3>1
    <3> QED BY <1>1, <3>2, ModesKnown
  <2> QED BY <1>1, <2>1 DEF PcdResolutionUsed, GcShape, StartedOn
<1> QED BY <1>4, <1>5, <1>6, <1>7, <1>8, <1>9, <1>10 DEF ConsoleShown

\* Whatever the output's modes, the strings, the calls between them and what
\* fails, the console runs in a mode that QueryMode reports and the output
\* shows, its windows lie within the screen, the cursor stays in the window and
\* is drawn exactly once between calls, and the output is held by the console
\* for as long as there is one (GraphicsConsole.c).
THEOREM ConsoleIsShown == GcSpec => []ConsoleShown
<1>1. GcInit => GcInv
  BY GcInvInitially
<1>2. GcInv /\ [GcNext]_gcVars => GcInv'
  BY GcInvKept
<1>3. GcInv => ConsoleShown
  BY GcInvShows
<1> QED BY <1>1, <1>2, <1>3, PTL DEF GcSpec
=============================================================================
