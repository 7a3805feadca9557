------------------------------ MODULE Division ------------------------------
(* Facts about quotient and remainder for symbolic divisors, which the SMT *)
(* solver does not find by itself.                                         *)
EXTENDS Integers, TLAPS

\* Euclidean division: quotient and remainder exist and are unique.
LEMMA DivMod ==
  ASSUME NEW a \in Nat, NEW b \in Nat \ {0}
  PROVE  /\ a = b * (a \div b) + (a % b)
         /\ a \div b \in Nat /\ a % b \in 0 .. b - 1
  OBVIOUS

LEMMA DivModUnique ==
  ASSUME NEW b \in Nat \ {0}, NEW q \in Nat, NEW r \in 0 .. b - 1
  PROVE  (b * q + r) \div b = q /\ (b * q + r) % b = r
<1> DEFINE a == b * q + r
           qq == a \div b
           rr == a % b
<1>1. a \in Nat /\ a = b * qq + rr /\ qq \in Nat /\ rr \in 0 .. b - 1
  <2>1. b * q \in Nat
    OBVIOUS
  <2>2. a \in Nat
    BY <2>1
  <2> HIDE DEF a
  <2> QED
    BY <2>2, DivMod
<1> HIDE DEF qq, rr
<1>2. b * q + r = b * qq + rr
  BY <1>1
<1>3. ~(q >= qq + 1)
  <2>1. SUFFICES ASSUME q >= qq + 1 PROVE FALSE
    OBVIOUS
  <2>2. b * q >= b * (qq + 1)
    BY <1>1, <2>1
  <2>3. b * (qq + 1) = b * qq + b
    BY <1>1
  <2> QED
    BY <1>1, <1>2, <2>2, <2>3
<1>4. ~(qq >= q + 1)
  <2>1. SUFFICES ASSUME qq >= q + 1 PROVE FALSE
    OBVIOUS
  <2>2. b * qq >= b * (q + 1)
    BY <1>1, <2>1
  <2>3. b * (q + 1) = b * q + b
    OBVIOUS
  <2> QED
    BY <1>1, <1>2, <2>2, <2>3
<1>5. q = qq
  BY <1>1, <1>3, <1>4
<1>6. r = rr
  BY <1>1, <1>2, <1>5
<1> QED
  BY <1>5, <1>6 DEF qq, rr
=============================================================================
