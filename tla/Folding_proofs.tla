--------------------------- MODULE Folding_proofs ---------------------------
(***************************************************************************)
(* Folding is exact for every width of int64_t, all types and literals:    *)
(* the guards of arith_int refuse an operation if and only if its result   *)
(* does not fit, and a folded constant is, cut down to its type, what the  *)
(* instructions would compute.                                             *)
(***************************************************************************)
EXTENDS Folding, TLAPS

(***************************************************************************)
(* Products and quotients.                                                 *)
(***************************************************************************)
\* Products grow with their factors.
LEMMA ProductGrows ==
  ASSUME NEW a \in Int, NEW c \in Int, NEW b \in Nat, a <= c
  PROVE  a * b <= c * b
<1> DEFINE d == c - a
<1>1. d \in Nat /\ c = a + d
  OBVIOUS
<1>2. c * b = a * b + d * b
  BY <1>1
<1>3. d * b \in Nat
  BY <1>1
<1> QED BY <1>2, <1>3

\* What \div answers for naturals.
LEMMA Division ==
  ASSUME NEW a \in Nat, NEW b \in Nat \ {0}
  PROVE  /\ a \div b \in Nat
         /\ (a \div b) * b <= a
         /\ a < (a \div b + 1) * b
<1> DEFINE q == a \div b
           r == a % b
<1>1. a = b * q + r /\ q \in Int /\ r \in 0 .. b - 1
  OBVIOUS
<1>2. q \in Nat
  OBVIOUS
<1> HIDE DEF q, r
<1>3. q * b = a - r
  BY <1>1
<1>4. (q + 1) * b = q * b + b
  BY <1>1
<1>5. q * b <= a /\ a < (q + 1) * b
  BY <1>1, <1>3, <1>4
<1> QED BY <1>2, <1>5 DEF q

\* A product exceeds a bound when a factor exceeds the quotient.
LEMMA ExceedsBound ==
  ASSUME NEW a \in Nat, NEW b \in Nat \ {0}, NEW bound \in Nat
  PROVE  a > bound \div b <=> a * b > bound
<1> DEFINE q == bound \div b
<1>1. q \in Nat /\ q * b <= bound /\ bound < (q + 1) * b
  BY Division
<1> HIDE DEF q
<1>2. CASE a <= q
  <2>1. a * b <= q * b
    BY <1>1, <1>2, ProductGrows
  <2> QED BY <1>1, <1>2, <2>1
<1>3. CASE a > q
  <2>1. (q + 1) * b <= a * b
    BY <1>1, <1>3, ProductGrows
  <2> QED BY <1>1, <1>3, <2>1
<1> QED BY <1>1, <1>2, <1>3 DEF q

\* A quotient is not larger than what is divided.
LEMMA QuotientSmaller ==
  ASSUME NEW a \in Nat, NEW b \in Nat \ {0}
  PROVE  a \div b <= a /\ (b > 1 /\ a > 0 => a \div b < a)
<1> DEFINE q == a \div b
<1>1. q \in Nat /\ q * b <= a
  BY Division
<1> HIDE DEF q
<1>2. b * q = q * b /\ 1 * q <= b * q
  BY <1>1, ProductGrows
<1>3. ASSUME b > 1 PROVE 2 * q <= b * q
  BY <1>1, <1>3, ProductGrows
<1> QED BY <1>1, <1>2, <1>3 DEF q

\* The guard of the multiplication is exact.
LEMMA MulGuard ==
  ASSUME NEW a \in Int64, NEW b \in Int64
  PROVE  MulOverflows(a, b) <=> a * b \notin Int64
<1>1. a \in Int /\ b \in Int /\ Max \in Nat /\ Min \in Int /\ -Min \in Nat /\ -Min = Max + 1
  BY MaxAssumption DEF Int64, Min
<1>2. CASE a = 0 \/ b = 0
  <2>1. a * b = 0
    BY <1>1, <1>2
  <2>2. ~MulOverflows(a, b)
    BY <1>1, <1>2 DEF MulOverflows
  <2> QED BY <1>1, <2>1, <2>2 DEF Int64, Min
<1>3. CASE a > 0 /\ b > 0
  <2>1. a > Max \div b <=> a * b > Max
    BY <1>1, <1>3, ExceedsBound
  <2>2. 0 * b <= a * b
    BY <1>1, <1>3, ProductGrows
  <2>3. Quot(Max, b) = Max \div b
    BY <1>1, <1>3 DEF Quot
  <2>4. MulOverflows(a, b) <=> a > Max \div b
    BY <1>1, <1>3, <2>3 DEF MulOverflows
  <2> QED BY <1>1, <2>1, <2>2, <2>4 DEF Int64, Min
<1>4. CASE a > 0 /\ b < 0
  <2> DEFINE q == (-Min) \div a
             p == (-b) * a
  <2>1. -b > q <=> p > -Min
    BY <1>1, <1>4, ExceedsBound
  <2>2. 0 * a <= p
    BY <1>1, <1>4, ProductGrows
  <2>3. q \in Int /\ p \in Int /\ a * b = -p
    BY <1>1, <1>4
  <2>4. Quot(Min, a) = -q
    BY <1>1, <1>4 DEF Quot
  <2> HIDE DEF q, p
  <2>5. MulOverflows(a, b) <=> b < -q
    BY <1>1, <1>4, <2>4 DEF MulOverflows
  <2> QED BY <1>1, <2>1, <2>2, <2>3, <2>5 DEF Int64
<1>5. CASE a < 0 /\ b > 0
  <2> DEFINE q == (-Min) \div b
             p == (-a) * b
  <2>1. -a > q <=> p > -Min
    BY <1>1, <1>5, ExceedsBound
  <2>2. 0 * b <= p
    BY <1>1, <1>5, ProductGrows
  <2>3. q \in Int /\ p \in Int /\ a * b = -p
    BY <1>1, <1>5
  <2>4. Quot(Min, b) = -q
    BY <1>1, <1>5 DEF Quot
  <2> HIDE DEF q, p
  <2>5. MulOverflows(a, b) <=> a < -q
    BY <1>1, <1>5, <2>4 DEF MulOverflows
  <2> QED BY <1>1, <2>1, <2>2, <2>3, <2>5 DEF Int64
<1>6. CASE a < 0 /\ b < 0
  <2> DEFINE q == Max \div (-b)
             p == (-a) * (-b)
  <2>1. -a > q <=> p > Max
    BY <1>1, <1>6, ExceedsBound
  <2>2. 0 * (-b) <= p
    BY <1>1, <1>6, ProductGrows
  <2>3. q \in Int /\ p \in Int /\ a * b = p
    BY <1>1, <1>6
  <2>4. Quot(Max, b) = -q
    BY <1>1, <1>6 DEF Quot
  <2> HIDE DEF q, p
  <2>5. MulOverflows(a, b) <=> a < -q
    BY <1>1, <1>6, <2>4 DEF MulOverflows
  <2> QED BY <1>1, <2>1, <2>2, <2>3, <2>5 DEF Int64, Min
<1> QED BY <1>1, <1>2, <1>3, <1>4, <1>5, <1>6

\* So is that of the division.
LEMMA DivGuard ==
  ASSUME NEW a \in Int64, NEW b \in Int64 \ {0}
  PROVE  /\ Quot(a, b) \in Int
         /\ DivOverflows(a, b) <=> Quot(a, b) \notin Int64
<1>1. a \in Int /\ b \in Int /\ b # 0 /\ Max \in Nat \ {0} /\ Min = -Max - 1
      /\ Min <= a /\ a <= Max
  BY MaxAssumption DEF Int64, Min
<1>2. CASE a >= 0 /\ b > 0
  <2> DEFINE q == a \div b
  <2>1. q \in Nat /\ q <= a
    BY <1>1, <1>2, Division, QuotientSmaller
  <2>2. Quot(a, b) = q
    BY <1>1, <1>2 DEF Quot
  <2> HIDE DEF q
  <2> QED BY <1>1, <1>2, <2>1, <2>2 DEF Int64, DivOverflows
<1>3. CASE a >= 0 /\ b < 0
  <2> DEFINE q == a \div (-b)
  <2>1. q \in Nat /\ q <= a
    BY <1>1, <1>3, Division, QuotientSmaller
  <2>2. Quot(a, b) = -q
    BY <1>1, <1>3 DEF Quot
  <2> HIDE DEF q
  <2> QED BY <1>1, <1>3, <2>1, <2>2 DEF Int64, DivOverflows
<1>4. CASE a < 0 /\ b > 0
  <2> DEFINE q == (-a) \div b
  <2>1. q \in Nat /\ q <= -a
    BY <1>1, <1>4, Division, QuotientSmaller
  <2>2. Quot(a, b) = -q
    BY <1>1, <1>4 DEF Quot
  <2> HIDE DEF q
  <2> QED BY <1>1, <1>4, <2>1, <2>2 DEF Int64, DivOverflows
<1>5. CASE a < 0 /\ b = -1
  <2> DEFINE q == (-a) \div (-b)
  <2>1. q \in Nat /\ q <= -a /\ q * 1 <= -a /\ -a < (q + 1) * 1
    BY <1>1, <1>5, Division, QuotientSmaller
  <2>2. Quot(a, b) = q
    BY <1>1, <1>5 DEF Quot
  <2> HIDE DEF q
  <2>3. q = -a
    BY <1>1, <2>1
  <2> QED BY <1>1, <1>5, <2>2, <2>3 DEF Int64, DivOverflows
<1>6. CASE a < 0 /\ b < -1
  <2> DEFINE q == (-a) \div (-b)
  <2>1. -a \in Nat /\ -b \in Nat \ {0} /\ -b > 1 /\ -a > 0
    BY <1>1, <1>6
  <2>2. q \in Nat /\ q < -a
    BY <2>1, Division, QuotientSmaller
  <2>3. Quot(a, b) = q
    BY <1>1, <1>6 DEF Quot
  <2> HIDE DEF q
  <2> QED BY <1>1, <1>6, <2>2, <2>3 DEF Int64, DivOverflows
<1> QED BY <1>1, <1>2, <1>3, <1>4, <1>5, <1>6

\* All four guards of arith_int.
LEMMA GuardsAreExact ==
  ASSUME NEW op \in Ops, NEW a \in Int64, NEW b \in Int64, op = "/" => b # 0
  PROVE  /\ Exact(op, a, b) \in Int
         /\ Overflows(op, a, b) <=> Exact(op, a, b) \notin Int64
<1>1. a \in Int /\ b \in Int /\ Max \in Nat /\ Min = -Max - 1
      /\ Min <= a /\ a <= Max /\ Min <= b /\ b <= Max
  BY MaxAssumption DEF Int64, Min
<1>2. CASE op = "+"
  BY <1>1, <1>2 DEF Exact, Overflows, AddOverflows, Int64
<1>3. CASE op = "-"
  BY <1>1, <1>3 DEF Exact, Overflows, SubOverflows, Int64
<1>4. CASE op = "*"
  BY <1>1, <1>4, MulGuard DEF Exact, Overflows
<1>5. CASE op = "/"
  BY <1>1, <1>5, DivGuard DEF Exact, Overflows
<1> QED BY <1>2, <1>3, <1>4, <1>5 DEF Ops

(***************************************************************************)
(* Cutting numbers down.                                                   *)
(***************************************************************************)
\* Numbers that differ by a multiple of the modulus are cut down to the same.
LEMMA SameResidue ==
  ASSUME NEW m \in Nat \ {0}, NEW x \in Int, NEW y \in Int, NEW k \in Int, x = y + k * m
  PROVE  x % m = y % m
<1> DEFINE qx == x \div m
           rx == x % m
           qy == y \div m
           ry == y % m
           d  == k + qy - qx
<1>1. x = m * qx + rx /\ qx \in Int /\ rx \in 0 .. m - 1
  OBVIOUS
<1>2. y = m * qy + ry /\ qy \in Int /\ ry \in 0 .. m - 1
  OBVIOUS
<1> HIDE DEF qx, rx, qy, ry
<1>3. d \in Int /\ rx - ry = d * m
  BY <1>1, <1>2
<1> HIDE DEF d
<1>4. CASE d > 0
  <2>1. 1 * m <= d * m
    BY <1>3, <1>4, ProductGrows
  <2> QED BY <1>1, <1>2, <1>3, <2>1
<1>5. CASE d < 0
  <2>1. d * m <= (-1) * m
    BY <1>3, <1>5, ProductGrows
  <2> QED BY <1>1, <1>2, <1>3, <2>1
<1>6. CASE d = 0
  <2>1. d * m = 0
    BY <1>6
  <2> QED BY <1>1, <1>2, <1>3, <2>1 DEF rx, ry
<1> QED BY <1>3, <1>4, <1>5, <1>6

\* What Low leaves.
LEMMA LowOf ==
  ASSUME NEW t \in Types, NEW n \in Int
  PROVE  Low(t, n) \in Nat /\ \E k \in Int : n = Low(t, n) + k * Modulus[t]
<1> DEFINE m == Modulus[t]
           q == n \div m
           r == n % m
<1>1. m \in Nat \ {0}
  BY TypesAssumption
<1> HIDE DEF m
<1>2. n = m * q + r /\ q \in Int /\ r \in 0 .. m - 1
  BY <1>1
<1> HIDE DEF q, r
<1>3. r \in Nat /\ n = r + q * m
  BY <1>1, <1>2
<1> QED BY <1>2, <1>3 DEF Low, m, r

\* Sums, differences and products can be cut down before or after.
LEMMA LowOfResult ==
  ASSUME NEW t \in Types, NEW op \in Ops \ {"/"}, NEW a \in Int, NEW b \in Int
  PROVE  Machine(op, t, Low(t, a), Low(t, b)) = Low(t, Exact(op, a, b))
<1> DEFINE m == Modulus[t]
           x == Low(t, a)
           y == Low(t, b)
<1>1. m \in Nat \ {0}
  BY TypesAssumption
<1>2. x \in Int /\ y \in Int
  BY LowOf
<1>3. PICK j \in Int : a = x + j * m
  BY LowOf
<1>4. PICK k \in Int : b = y + k * m
  BY LowOf
<1> HIDE DEF m, x, y
<1>5. CASE op = "+"
  <2> DEFINE c == j + k
  <2>1. c \in Int /\ x + y \in Int /\ a + b \in Int /\ a + b = (x + y) + c * m
    BY <1>1, <1>2, <1>3, <1>4
  <2> HIDE DEF c
  <2>2. (a + b) % m = (x + y) % m
    BY <1>1, <2>1, SameResidue
  <2> QED BY <1>5, <2>2 DEF Machine, Low, Exact, m, x, y
<1>6. CASE op = "-"
  <2> DEFINE c == j - k
  <2>1. c \in Int /\ x - y \in Int /\ a - b \in Int /\ a - b = (x - y) + c * m
    BY <1>1, <1>2, <1>3, <1>4
  <2> HIDE DEF c
  <2>2. (a - b) % m = (x - y) % m
    BY <1>1, <2>1, SameResidue
  <2> QED BY <1>6, <2>2 DEF Machine, Low, Exact, m, x, y
<1>7. CASE op = "*"
  <2> DEFINE c == x * k + j * y + (j * k) * m
  <2>1. c \in Int /\ x * y \in Int /\ a * b \in Int
    BY <1>1, <1>2, <1>3, <1>4
  <2>2. a * b = x * y + c * m
    BY <1>1, <1>2, <1>3, <1>4
  <2> HIDE DEF c
  <2>3. (a * b) % m = (x * y) % m
    BY <1>1, <2>1, <2>2, SameResidue
  <2> QED BY <1>7, <2>3 DEF Machine, Low, Exact, m, x, y
<1> QED BY <1>5, <1>6, <1>7 DEF Ops

LEMMA LowOfOpposite ==
  ASSUME NEW t \in Types, NEW n \in Int
  PROVE  Low(t, -Low(t, n)) = Low(t, -n)
<1> DEFINE m == Modulus[t]
           x == Low(t, n)
<1>1. m \in Nat \ {0}
  BY TypesAssumption
<1>2. x \in Int
  BY LowOf
<1>3. PICK k \in Int : n = x + k * m
  BY LowOf
<1> HIDE DEF m, x
<1> DEFINE c == -k
           o == -n
           y == -x
<1>4. c \in Int /\ o \in Int /\ y \in Int /\ o = y + c * m
  BY <1>1, <1>2, <1>3
<1> HIDE DEF c, o, y
<1>5. o % m = y % m
  BY <1>1, <1>4, SameResidue
<1> QED BY <1>5 DEF Low, m, x, y, o

\* The quotient and the rest.
LEMMA DivMod ==
  ASSUME NEW a \in Int, NEW b \in Nat \ {0}
  PROVE  a \div b \in Int /\ a % b \in Nat /\ a = b * (a \div b) + (a % b)
<1> DEFINE q == a \div b
           r == a % b
<1>1. a = b * q + r /\ q \in Int /\ r \in 0 .. b - 1
  OBVIOUS
<1> HIDE DEF q, r
<1>2. r \in Nat
  BY <1>1
<1>3. q \in Int /\ r \in Nat /\ a = b * q + r
  BY <1>1, <1>2
<1> QED BY <1>3 DEF q, r

\* Of a type that keeps the bits the constant is the number cut down.
LEMMA ConstantIsLow ==
  ASSUME NEW t \in Types, NEW n \in Int
  PROVE  /\ Constant(t, n) \in Nat
         /\ KeepsBits(t) => Constant(t, n) = Low(t, n)
<1> DEFINE m == Modulus[t]
           w == 2 * (Max + 1)
           r == n % w
           q == n \div w
           j == w \div m
<1>1. m \in Nat \ {0} /\ w \in Nat \ {0} /\ w \in Int
  BY TypesAssumption, MaxAssumption
<1>2. CASE t \in Signed
  BY <1>2, LowOf DEF Constant
<1>3. CASE t \notin Signed
  <2>1. Constant(t, n) = Low(t, r) /\ (KeepsBits(t) => w % m = 0)
    BY <1>3 DEF Constant, KeepsBits
  <2> HIDE DEF m, w
  <2>2. r \in Int /\ q \in Int /\ n = w * q + r
    BY <1>1, DivMod
  <2> HIDE DEF r, q
  <2>3. j \in Int /\ w = m * j + (w % m)
    BY <1>1, DivMod
  <2> HIDE DEF j
  <2>4. ASSUME w % m = 0 PROVE n % m = r % m
    <3> DEFINE k == q * j
    <3>1. w = m * j /\ k \in Int
      BY <1>1, <2>2, <2>3, <2>4
    <3>2. w * q = k * m
      BY <1>1, <2>2, <2>3, <3>1
    <3> HIDE DEF k
    <3>3. n = r + k * m /\ k \in Int /\ r \in Int /\ m \in Nat \ {0}
      BY <1>1, <2>2, <3>1, <3>2
    <3> QED BY <3>3, SameResidue
  <2>5. Low(t, r) \in Nat
    BY <2>2, LowOf
  <2> QED BY <2>1, <2>4, <2>5 DEF Low, m
<1> QED BY <1>2, <1>3

(***************************************************************************)
(* The stack of operands.                                                  *)
(***************************************************************************)
\* What Replace leaves.
LEMMA Replaced ==
  ASSUME NEW s \in Seq(Values), NEW k \in 0 .. Len(s), NEW v \in Values,
         NEW r, r = Append(SubSeq(s, 1, Len(s) - k), v)
  PROVE  /\ r \in Seq(Values) /\ r # <<>> /\ r[Len(r)] = v
         /\ \A i \in DOMAIN r : r[i] = v \/ (i \in DOMAIN s /\ r[i] = s[i])
<1> DEFINE u == SubSeq(s, 1, Len(s) - k)
<1>1. u \in Seq(Values) /\ Len(u) = Len(s) - k /\ \A i \in 1 .. Len(u) : u[i] = s[i]
  OBVIOUS
<1> HIDE DEF u
<1>2. r = Append(u, v)
  BY DEF u
<1>3. r \in Seq(Values) /\ Len(r) = Len(u) + 1 /\ r[Len(r)] = v
  BY <1>1, <1>2
<1>4. ASSUME NEW i \in DOMAIN r PROVE r[i] = v \/ (i \in DOMAIN s /\ r[i] = s[i])
  <2>1. i \in 1 .. Len(u) + 1 /\ Len(u) \in Nat /\ Len(u) <= Len(s) /\ DOMAIN s = 1 .. Len(s)
    BY <1>1, <1>3
  <2>2. CASE i = Len(u) + 1
    BY <1>3, <2>2
  <2>3. CASE i <= Len(u)
    <3>1. r[i] = u[i] /\ u[i] = s[i]
      BY <1>1, <1>2, <2>1, <2>3
    <3> QED BY <2>1, <2>3, <3>1
  <2> QED BY <2>1, <2>2, <2>3
<1>5. ASSUME r = <<>> PROVE FALSE
  <2>1. DOMAIN r = {}
    BY <1>5
  <2>2. DOMAIN r = 1 .. Len(u) + 1 /\ Len(u) \in Nat
    BY <1>1, <1>3
  <2> QED BY <2>1, <2>2
<1> QED BY <1>3, <1>4, <1>5

\* What an operation must do for the invariant: the value it leaves is one of
\* Values, exact, and what the instructions compute.
LEMMA Steps ==
  ASSUME TypeOK, WrapsAlike,
         NEW k \in 0 .. Len(operands), NEW v \in Values, Replace(k, v),
         answer' = "ok", exact' \in Int, undefined' \in BOOLEAN,
         IF undefined' THEN exact' = Max + 1 ELSE v.int = exact',
         v.comparable /\ KeepsBits(v.t) => Constant(v.t, v.int) = v.machine
  PROVE  TypeOK' /\ FoldsExactly' /\ WrapsAlike'
<1> DEFINE r == operands'
<1>a. operands \in Seq(Values) /\ r = Append(SubSeq(operands, 1, Len(operands) - k), v)
  BY DEF TypeOK, Replace
<1>1. /\ r \in Seq(Values) /\ r # <<>> /\ Top' = v
      /\ \A i \in DOMAIN r : r[i] = v \/ (i \in DOMAIN operands /\ r[i] = operands[i])
  <2> HIDE DEF r
  <2>1. /\ r \in Seq(Values) /\ r # <<>> /\ r[Len(r)] = v
        /\ \A i \in DOMAIN r : r[i] = v \/ (i \in DOMAIN operands /\ r[i] = operands[i])
    BY <1>a, Replaced
  <2> QED BY <2>1 DEF Top, r
<1>2. TypeOK' /\ FoldsExactly'
  BY <1>1 DEF TypeOK, FoldsExactly, Answers
<1>3. WrapsAlike'
  BY <1>1 DEF WrapsAlike, KeepsBits, Constant, Low
<1> QED BY <1>2, <1>3

\* A refusal keeps the invariant; that of an overflow must be right.
LEMMA Refusals ==
  ASSUME TypeOK, WrapsAlike, NEW why \in Answers \ {"ok"}, Refuse(why),
         exact' \in Int, UNCHANGED undefined, why = "overflow" => exact' \notin Int64
  PROVE  TypeOK' /\ FoldsExactly' /\ WrapsAlike'
BY DEF TypeOK, FoldsExactly, WrapsAlike, Refuse, Answers, Int64, Min,
     KeepsBits, Constant, Low

(***************************************************************************)
(* The invariant.                                                          *)
(***************************************************************************)
IInv == TypeOK /\ FoldsExactly /\ WrapsAlike

LEMMA InitIInv == Init => IInv
<1> SUFFICES ASSUME Init PROVE IInv
  OBVIOUS
<1>1. operands = <<>> /\ exact = 0 /\ undefined = FALSE /\ answer = "ok"
  BY DEF Init
<1>2. operands \in Seq(Values) /\ DOMAIN operands = {}
  BY <1>1
<1>3. TypeOK
  <2>1. exact \in Int /\ answer \in Answers
    BY <1>1 DEF Answers
  <2>2. undefined \in BOOLEAN
    BY <1>1
  <2> QED BY <1>2, <2>1, <2>2 DEF TypeOK
<1>4. FoldsExactly
  BY <1>1 DEF FoldsExactly
<1>5. WrapsAlike
  BY <1>2 DEF WrapsAlike
<1> QED BY <1>3, <1>4, <1>5 DEF IInv

\* The value on top, and the literal 0 taken for a scalar.
LEMMA TopIsValue ==
  ASSUME TypeOK, NEW i \in 1 .. Len(operands)
  PROVE  /\ operands[i] \in Values /\ AsScalar(operands[i]) \in Values
         /\ AsScalar(operands[i]).comparable => AsScalar(operands[i]) = operands[i]
<1> DEFINE w == operands[i]
<1>1. w \in Values
  BY DEF TypeOK
<1> HIDE DEF w
<1>2. CASE w.t = "ZERO"
  <2> DEFINE z == [w EXCEPT !.t = "untyped"]
  <2>1. w \in [t : Types \cup {"untyped", "ZERO", "zero"}, int : Int64, machine : Nat,
               comparable : BOOLEAN]
        /\ (w.comparable => w.t \in Types)
    BY <1>1 DEF Values
  <2>2. ~w.comparable
    BY <1>2, <2>1, TypesAssumption
  <2>3. z \in [t : Types \cup {"untyped", "ZERO", "zero"}, int : Int64, machine : Nat,
               comparable : BOOLEAN]
        /\ z.comparable = w.comparable
    BY <2>1
  <2>4. AsScalar(w) = z
    BY <1>2 DEF AsScalar
  <2> HIDE DEF z
  <2>5. z \in Values /\ ~z.comparable
    BY <2>2, <2>3 DEF Values
  <2> QED BY <1>1, <2>4, <2>5 DEF w
<1>3. CASE w.t # "ZERO"
  BY <1>1, <1>3 DEF AsScalar, w
<1> QED BY <1>2, <1>3

LEMMA LiteralStep == IInv /\ AnalyzeIntegerLit => IInv'
<1> SUFFICES ASSUME IInv, AnalyzeIntegerLit PROVE IInv'
  OBVIOUS
<1>1. PICK n \in Numerals :
        /\ Replace(0, Value(IF n = 0 THEN "ZERO" ELSE "untyped", Read(n)))
        /\ exact' = Read(n)
  BY DEF AnalyzeIntegerLit
<1> DEFINE v == Value(IF n = 0 THEN "ZERO" ELSE "untyped", Read(n))
<1>2. Read(n) \in Int64 /\ Read(n) \in Int
  BY NumeralsAssumption, MaxAssumption DEF Read, Int64, Min
<1>3. v \in Values /\ v.int = Read(n) /\ ~v.comparable
  BY <1>2 DEF Values, Value
<1>4. answer' = "ok" /\ undefined' = FALSE /\ 0 \in 0 .. Len(operands)
  BY DEF AnalyzeIntegerLit, IInv, TypeOK
<1> HIDE DEF v
<1>5. Replace(0, v)
  BY <1>1 DEF v
<1> QED BY <1>1, <1>2, <1>3, <1>4, <1>5, Steps DEF IInv

LEMMA BinaryStep == ASSUME NEW op \in Ops PROVE IInv /\ AnalyzeBinary(op) => IInv'
<1> SUFFICES ASSUME IInv, AnalyzeBinary(op) PROVE IInv'
  OBVIOUS
<1> DEFINE lhs == AsScalar(operands[Len(operands) - 1])
           rhs == AsScalar(Top)
           x   == Exact(op, lhs.int, rhs.int)
<1>1. Len(operands) \in Nat /\ Len(operands) > 1 /\ 2 \in 0 .. Len(operands)
      /\ exact \in Int
  <2>1. Len(operands) > 1
    BY DEF AnalyzeBinary
  <2> QED BY <2>1 DEF IInv, TypeOK
<1>2. lhs \in Values /\ rhs \in Values
  BY <1>1, TopIsValue DEF IInv, Top
<1>3. /\ lhs.comparable /\ KeepsBits(lhs.t) => Constant(lhs.t, lhs.int) = lhs.machine
      /\ rhs.comparable /\ KeepsBits(rhs.t) => Constant(rhs.t, rhs.int) = rhs.machine
  BY <1>1, TopIsValue DEF IInv, Top, WrapsAlike
<1>4. \/ Refuse("incompatible") /\ UNCHANGED <<exact, undefined>>
      \/ Refuse("division by zero") /\ UNCHANGED <<exact, undefined>>
      \/ /\ IsInteger(lhs) /\ IsInteger(rhs) /\ (op = "/" => rhs.int # 0)
         /\ exact' = x
         /\ Overflows(op, lhs.int, rhs.int)
         /\ Refuse("overflow") /\ UNCHANGED undefined
      \/ /\ IsInteger(lhs) /\ IsInteger(rhs) /\ (op = "/" => rhs.int # 0)
         /\ exact' = x
         /\ ~Overflows(op, lhs.int, rhs.int)
         /\ \E r \in Outcomes(x) : Replace(2, Combined(op, lhs, rhs, r))
         /\ undefined' = (x \notin Int64)
         /\ answer' = "ok"
  <2>1. CASE ~IsInteger(lhs) \/ ~IsInteger(rhs) \/ (lhs.t \in Types /\ rhs.t \in Types /\ lhs.t # rhs.t)
    BY <2>1 DEF AnalyzeBinary
  <2>2. CASE /\ IsInteger(lhs) /\ IsInteger(rhs)
             /\ ~(lhs.t \in Types /\ rhs.t \in Types /\ lhs.t # rhs.t)
    <3>1. CASE op = "/" /\ rhs.int = 0
      BY <2>2, <3>1 DEF AnalyzeBinary
    <3>2. CASE ~(op = "/" /\ rhs.int = 0)
      BY <2>2, <3>2 DEF AnalyzeBinary
    <3> QED BY <3>1, <3>2
  <2> QED BY <2>1, <2>2
<1> HIDE DEF lhs, rhs
<1>5. lhs.int \in Int64 /\ rhs.int \in Int64
  BY <1>2 DEF Values
<1>6. CASE Refuse("incompatible") /\ UNCHANGED <<exact, undefined>>
  BY <1>1, <1>6, Refusals DEF IInv, Answers
<1>7. CASE Refuse("division by zero") /\ UNCHANGED <<exact, undefined>>
  BY <1>1, <1>7, Refusals DEF IInv, Answers
<1>8. CASE /\ op = "/" => rhs.int # 0
           /\ exact' = x /\ Overflows(op, lhs.int, rhs.int)
           /\ Refuse("overflow") /\ UNCHANGED undefined
  <2>1. x \in Int /\ x \notin Int64
    BY <1>5, <1>8, GuardsAreExact
  <2> QED BY <1>8, <2>1, Refusals DEF IInv, Answers
<1>9. CASE /\ IsInteger(lhs) /\ IsInteger(rhs) /\ (op = "/" => rhs.int # 0)
           /\ exact' = x /\ ~Overflows(op, lhs.int, rhs.int)
           /\ \E r \in Outcomes(x) : Replace(2, Combined(op, lhs, rhs, r))
           /\ undefined' = (x \notin Int64)
           /\ answer' = "ok"
  <2> DEFINE v == Combined(op, lhs, rhs, x)
  <2>1. x \in Int /\ x \in Int64
    BY <1>5, <1>9, GuardsAreExact
  <2>2. Replace(2, v) /\ undefined' = FALSE
    BY <1>9, <2>1 DEF Outcomes
  <2>3. v \in Values /\ v.int = x /\ (v.comparable /\ KeepsBits(v.t) => Constant(v.t, v.int) = v.machine)
    <3>1. CASE lhs.t # rhs.t \/ lhs.t = "untyped" \/ op = "/"
      BY <1>2, <2>1, <3>1 DEF Combined, Value, Values
    <3>2. CASE lhs.t = rhs.t /\ lhs.t # "untyped" /\ op # "/"
      <4> DEFINE t == lhs.t
                 m == Machine(op, t, lhs.machine, rhs.machine)
      <4>1. t \in Types
        BY <1>9, <3>2 DEF IsInteger
      <4>2. lhs.machine \in Int /\ rhs.machine \in Int /\ lhs.int \in Int /\ rhs.int \in Int
        BY <1>2, MaxAssumption DEF Values, Int64, Min
      <4>3. Exact(op, lhs.machine, rhs.machine) \in Int
        BY <3>2, <4>2 DEF Exact, Ops
      <4>4. m \in Nat
        BY <4>1, <4>3, LowOf DEF Machine
      <4>5. v = Typed(t, x, m, lhs.comparable /\ rhs.comparable)
        BY <3>2 DEF Combined
      <4>6. ASSUME lhs.comparable, rhs.comparable, KeepsBits(t) PROVE Constant(t, x) = m
        <5>1. lhs.machine = Low(t, lhs.int) /\ rhs.machine = Low(t, rhs.int)
          BY <1>3, <3>2, <4>1, <4>2, <4>6, ConstantIsLow
        <5>2. m = Low(t, x)
          BY <3>2, <4>1, <4>2, <5>1, LowOfResult
        <5> QED BY <2>1, <4>1, <4>6, <5>2, ConstantIsLow
      <4>7. (lhs.comparable /\ rhs.comparable) \in BOOLEAN
        OBVIOUS
      <4> HIDE DEF x, m, t, v
      <4>8. v \in Values
        BY <2>1, <4>1, <4>4, <4>5, <4>7 DEF Values, Typed
      <4> QED BY <4>5, <4>6, <4>8 DEF Typed
    <3> QED BY <3>1, <3>2
  <2> HIDE DEF v
  <2> QED BY <1>1, <1>9, <2>1, <2>2, <2>3, Steps DEF IInv
<1> QED BY <1>4, <1>6, <1>7, <1>8, <1>9

LEMMA UnaryStep == IInv /\ AnalyzeUnary => IInv'
<1> SUFFICES ASSUME IInv, AnalyzeUnary PROVE IInv'
  OBVIOUS
<1>1. Len(operands) \in Nat /\ Len(operands) > 0 /\ 1 \in 0 .. Len(operands)
      /\ exact \in Int
  BY DEF AnalyzeUnary, IInv, TypeOK
<1>2. Top \in Values /\ (Top.comparable /\ KeepsBits(Top.t) => Constant(Top.t, Top.int) = Top.machine)
  BY <1>1, TopIsValue DEF IInv, Top, WrapsAlike
<1>3. CASE Top.t = "zero"
  BY <1>1, <1>3, Refusals DEF AnalyzeUnary, IInv, Answers
<1>4. CASE Top.t # "zero"
  <2> DEFINE o == -Top.int
  <2>1. PICK r \in Outcomes(o) :
          Replace(1, IF Top.t = "ZERO" THEN Value("zero", r)
                     ELSE IF Top.t = "untyped" THEN Value(Top.t, r)
                     ELSE Typed(Top.t, r, Low(Top.t, -Top.machine),
                                Top.comparable /\ ~undefined'))
    BY <1>4 DEF AnalyzeUnary
  <2> DEFINE v == IF Top.t = "ZERO" THEN Value("zero", r)
                  ELSE IF Top.t = "untyped" THEN Value(Top.t, r)
                  ELSE Typed(Top.t, r, Low(Top.t, -Top.machine),
                             Top.comparable /\ ~undefined')
  <2>2. exact' = o /\ undefined' = (o \notin Int64) /\ answer' = "ok"
    BY <1>4 DEF AnalyzeUnary
  <2>3. /\ Top.int \in Int /\ o \in Int /\ Top.machine \in Nat /\ -Top.machine \in Int
        /\ o \notin Int64 => o = Max + 1
    BY <1>2, MaxAssumption DEF Values, Int64, Min
  <2>4. r \in Int64 /\ (o \in Int64 => r = o)
    BY DEF Outcomes
  <2>5. v \in Values /\ v.int = r /\ (v.comparable /\ KeepsBits(v.t) => Constant(v.t, v.int) = v.machine)
    <3>1. CASE Top.t = "ZERO" \/ Top.t = "untyped"
      BY <2>4, <3>1 DEF Value, Values
    <3>2. CASE Top.t \in Types
      <4> DEFINE t == Top.t
                 m == Low(t, -Top.machine)
                 c == Top.comparable /\ ~undefined'
      <4>1. m \in Nat
        BY <2>3, <3>2, LowOf
      <4>2. v = Typed(t, r, m, c)
        BY <3>2, TypesAssumption
      <4>3. ASSUME c, KeepsBits(t) PROVE Constant(t, r) = m
        <5>1. r = o /\ Low(t, Top.int) = Top.machine
          BY <1>2, <2>2, <2>3, <2>4, <3>2, <4>3, ConstantIsLow
        <5>2. Low(t, -Low(t, Top.int)) = Low(t, -Top.int)
          BY <2>3, <3>2, LowOfOpposite
        <5> QED BY <2>3, <3>2, <4>3, <5>1, <5>2, ConstantIsLow
      <4>4. c \in BOOLEAN
        OBVIOUS
      <4> HIDE DEF v, t, m, c
      <4>5. v \in Values
        BY <2>4, <3>2, <4>1, <4>2, <4>4 DEF Values, Typed, t
      <4> QED BY <4>2, <4>3, <4>5 DEF Typed
    <3> QED BY <1>2, <1>4, <3>1, <3>2 DEF Values
  <2>6. Replace(1, v)
    BY <2>1
  <2> HIDE DEF v, o
  <2> QED BY <1>1, <2>2, <2>3, <2>4, <2>5, <2>6, Steps DEF IInv
<1> QED BY <1>3, <1>4

LEMMA CastStep == ASSUME NEW t \in Types PROVE IInv /\ AnalyzeCast(t) => IInv'
<1> SUFFICES ASSUME IInv, AnalyzeCast(t) PROVE IInv'
  OBVIOUS
<1> DEFINE v == IF Top.t = t THEN Top
                ELSE Typed(t, Top.int, Constant(t, Top.int), Top.t \notin Types)
<1>1. Len(operands) \in Nat /\ Len(operands) > 0 /\ 1 \in 0 .. Len(operands)
      /\ exact \in Int
  BY DEF AnalyzeCast, IInv, TypeOK
<1>2. Top \in Values /\ (Top.comparable /\ KeepsBits(Top.t) => Constant(Top.t, Top.int) = Top.machine)
  BY <1>1, TopIsValue DEF IInv, Top, WrapsAlike
<1>3. CASE Top.t = "zero"
  BY <1>1, <1>3, Refusals DEF AnalyzeCast, IInv, Answers
<1>4. CASE Top.t # "zero"
  <2>1. /\ Replace(1, v) /\ exact' = Top.int /\ undefined' = FALSE /\ answer' = "ok"
    BY <1>4 DEF AnalyzeCast
  <2>2. Top.int \in Int64 /\ Top.int \in Int /\ Constant(t, Top.int) \in Nat
    BY <1>2, MaxAssumption, ConstantIsLow DEF Values, Int64, Min
  <2>3. v \in Values /\ v.int = Top.int /\ (v.comparable /\ KeepsBits(v.t) => Constant(v.t, v.int) = v.machine)
    <3>1. CASE Top.t = t
      BY <1>2, <3>1
    <3>2. CASE Top.t # t
      BY <2>2, <3>2 DEF Values, Typed
    <3> QED BY <3>1, <3>2
  <2> HIDE DEF v
  <2> QED BY <1>1, <2>1, <2>2, <2>3, Steps DEF IInv
<1> QED BY <1>3, <1>4

LEMMA NextIInv == IInv /\ [Next]_vars => IInv'
<1> SUFFICES ASSUME IInv, [Next]_vars PROVE IInv'
  OBVIOUS
<1>1. CASE AnalyzeIntegerLit
  BY <1>1, LiteralStep
<1>2. ASSUME NEW op \in Ops, AnalyzeBinary(op) PROVE IInv'
  BY <1>2, BinaryStep
<1>3. CASE AnalyzeUnary
  BY <1>3, UnaryStep
<1>4. ASSUME NEW t \in Types, AnalyzeCast(t) PROVE IInv'
  BY <1>4, CastStep
<1>5. CASE Refused \/ UNCHANGED vars
  BY <1>5 DEF Refused, vars, IInv, TypeOK, FoldsExactly, WrapsAlike, Top,
     Int64, Min,
     KeepsBits, Constant, Low
<1> QED BY <1>1, <1>2, <1>3, <1>4, <1>5 DEF Next

LEMMA Invariant == Spec => []IInv
BY InitIInv, NextIInv, PTL DEF Spec

(***************************************************************************)
(* The theorems.                                                           *)
(***************************************************************************)
\* Type correctness: no literal, operation or cast leaves a value that is not
\* an int64_t, and no error is answered but those analyze_node knows.
THEOREM TypeCorrect == Spec => []TypeOK
BY Invariant, PTL DEF IInv

\* For every width of int64_t: what value_add, -_sub, -_mul and -_div fold is the
\* mathematical result, and what they refuse for overflow does not fit; only the
\* opposite of the smallest number is folded to something else.
THEOREM FoldsRight == Spec => []FoldsExactly
BY Invariant, PTL DEF IInv

\* For every width that 64 bits hold, and for every signed type: a constant that
\* was folded in 64 bits and cut down by llvm_value is what codegen_binary's
\* instructions would compute.
THEOREM FoldingWrapsAlike == Spec => []WrapsAlike
BY Invariant, PTL DEF IInv
=============================================================================
