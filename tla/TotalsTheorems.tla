--------------------------- MODULE TotalsTheorems ---------------------------
(***************************************************************************)
(* What every ledger proof needs to know about Total: it is an integer, it *)
(* grows by the last weight, it depends only on the weights it sums, one   *)
(* changed weight changes it by the difference, one more row adds its      *)
(* weight, and without negative weights it bounds each of them and grows.  *)
(*                                                                         *)
(* The recursion is unfolded without an induction rule: a set of           *)
(* counterexamples would have a least element (Least), and the step below  *)
(* it refutes that element.                                                *)
(***************************************************************************)
EXTENDS Totals, WellFoundedInduction, TLAPS

(* Every non-empty set of naturals has a least element. *)
LEMMA Least ==
  ASSUME NEW S \in SUBSET Nat, S # {}
  PROVE  \E n \in S : \A k \in S : n <= k
<1> DEFINE R == {ss \in Nat \X Nat : ss[1] < ss[2]}
<1>1. IsWellFoundedOn(R, Nat)
  BY NatLessThanWellFounded, Zenon DEF OpToRel
<1>2. PICK n \in S : \A k \in S : ~(<<k, n>> \in R)
  <2> HIDE DEF R
  <2> QED BY <1>1, WFMin
<1>3. \A k \in S : n \in Nat /\ k \in Nat /\ ~(k < n)
  <2> TAKE k \in S
  <2>1. n \in Nat /\ k \in Nat /\ <<k, n>> \in Nat \X Nat
    OBVIOUS
  <2>2. <<k, n>>[1] = k /\ <<k, n>>[2] = n
    OBVIOUS
  <2>3. ~(<<k, n>>[1] < <<k, n>>[2])
    BY <1>2, <2>1
  <2> QED BY <2>1, <2>2, <2>3
<1>4. \A k \in S : n <= k
  BY <1>3
<1> QED BY <1>4

(* The weights a sum over 1..n reads are integers. *)
Weights(w, n) == \A i \in 1..n : w[i] \in Int

(* sum is the table of the partial sums of w up to n. *)
PartialSums(sum, w, n) ==
  sum = [i \in 0..n |-> IF i = 0 THEN 0 ELSE sum[i-1] + w[i]]

(* A table of partial sums exists. *)
LEMMA PartialSumsExist ==
  ASSUME NEW m \in Nat, NEW w, Weights(w, m)
  PROVE  \A n \in 0..m : \E sum \in [0..n -> Int] : PartialSums(sum, w, n)
<1> DEFINE Bad == {n \in 0..m : ~\E sum \in [0..n -> Int] : PartialSums(sum, w, n)}
<1> SUFFICES ASSUME Bad # {} PROVE FALSE
  BY Zenon
<1>1. PICK n \in Bad : \A k \in Bad : n <= k
  <2> Bad \in SUBSET Nat
    OBVIOUS
  <2> HIDE DEF Bad
  <2> QED BY Least
<1>2. n \in Nat /\ n <= m
  OBVIOUS
<1>3. n # 0
  <2> DEFINE s == [i \in 0..0 |-> 0]
  <2>1. s \in [0..0 -> Int] /\ PartialSums(s, w, 0)
    BY DEF PartialSums
  <2> QED BY <2>1
<1>4. PICK s \in [0..(n-1) -> Int] : PartialSums(s, w, n-1)
  BY <1>1, <1>2, <1>3
<1> DEFINE sum == [i \in 0..n |-> IF i = n THEN s[n-1] + w[n] ELSE s[i]]
<1>5. sum \in [0..n -> Int]
  BY <1>2, <1>3 DEF Weights
<1>6. PartialSums(sum, w, n)
  <2> \A i \in 0..n : sum[i] = IF i = 0 THEN 0 ELSE sum[i-1] + w[i]
    BY <1>2, <1>3, <1>4 DEF PartialSums
  <2> QED BY DEF PartialSums
<1> QED BY <1>5, <1>6

(* Total reads the last entry of any such table. *)
LEMMA TotalReadsTable ==
  ASSUME NEW n \in Nat, NEW w, Weights(w, n),
         NEW sum \in [0..n -> Int], PartialSums(sum, w, n)
  PROVE  Total(w, n) = sum[n]
<1> DEFINE chosen == CHOOSE f : f = [i \in 0..n |-> IF i = 0 THEN 0 ELSE f[i-1] + w[i]]
<1>1. chosen = [i \in 0..n |-> IF i = 0 THEN 0 ELSE chosen[i-1] + w[i]]
  BY DEF PartialSums
<1>2. Total(w, n) = chosen[n]
  BY DEF Total
<1>3. \A i \in 0..n : chosen[i] = sum[i]
  <2> DEFINE Bad == {i \in 0..n : chosen[i] # sum[i]}
  <2> SUFFICES ASSUME Bad # {} PROVE FALSE
    OBVIOUS
  <2>1. PICK i \in Bad : \A j \in Bad : i <= j
    <3> Bad \in SUBSET Nat
      OBVIOUS
    <3> HIDE DEF Bad
    <3> QED BY Least
  <2>2. i # 0
    BY <1>1 DEF PartialSums
  <2>3. i - 1 \in 0..n /\ chosen[i-1] = sum[i-1]
    BY <2>1, <2>2
  <2>4. chosen[i] = chosen[i-1] + w[i]
    BY <1>1, <2>2, <2>3
  <2>5. sum[i] = sum[i-1] + w[i]
    BY <2>2, <2>3 DEF PartialSums
  <2> QED BY <2>3, <2>4, <2>5
<1> QED BY <1>2, <1>3

(* The empty sum, the type of a sum, and the recursion of Total.            *)
LEMMA TotalZero ==
  ASSUME NEW w
  PROVE  Total(w, 0) = 0
<1> DEFINE s == [i \in 0..0 |-> 0]
<1>1. s \in [0..0 -> Int] /\ PartialSums(s, w, 0) /\ Weights(w, 0) /\ s[0] = 0
  BY DEF PartialSums, Weights
<1> QED BY <1>1, TotalReadsTable

LEMMA TotalType ==
  ASSUME NEW n \in Nat, NEW w, Weights(w, n)
  PROVE  Total(w, n) \in Int
<1>1. PICK s \in [0..n -> Int] : PartialSums(s, w, n)
  BY PartialSumsExist
<1> QED BY <1>1, TotalReadsTable

LEMMA TotalStep ==
  ASSUME NEW n \in Nat, NEW w, Weights(w, n+1)
  PROVE  Total(w, n+1) = Total(w, n) + w[n+1]
<1>1. PICK s \in [0..(n+1) -> Int] : PartialSums(s, w, n+1)
  BY PartialSumsExist
<1>2. Total(w, n+1) = s[n+1]
  BY <1>1, TotalReadsTable
<1>3. s[n+1] = s[n] + w[n+1]
  BY <1>1 DEF PartialSums
<1> DEFINE r == [i \in 0..n |-> s[i]]
<1>4. r \in [0..n -> Int] /\ Weights(w, n)
  BY DEF Weights
<1>5. PartialSums(r, w, n)
  <2> \A i \in 0..n : r[i] = IF i = 0 THEN 0 ELSE r[i-1] + w[i]
    BY <1>1 DEF PartialSums
  <2> QED BY DEF PartialSums
<1>6. Total(w, n) = s[n]
  BY <1>4, <1>5, TotalReadsTable
<1> QED BY <1>2, <1>3, <1>6

(* A sum depends only on the weights it sums. *)
LEMMA TotalAgree ==
  ASSUME NEW n \in Nat, NEW w, NEW v, Weights(w, n),
         \A i \in 1..n : v[i] = w[i]
  PROVE  Total(v, n) = Total(w, n)
<1> DEFINE Bad == {k \in 0..n : Total(v, k) # Total(w, k)}
<1> SUFFICES ASSUME Bad # {} PROVE FALSE
  OBVIOUS
<1>1. PICK k \in Bad : \A j \in Bad : k <= j
  <2> Bad \in SUBSET Nat
    OBVIOUS
  <2> HIDE DEF Bad
  <2> QED BY Least
<1>2. k # 0
  BY TotalZero
<1>3. k-1 \in Nat /\ k-1 \in 0..n /\ (k-1)+1 = k /\ Total(v, k-1) = Total(w, k-1)
  BY <1>1, <1>2
<1>4. Weights(w, (k-1)+1) /\ Weights(v, (k-1)+1)
  BY <1>3 DEF Weights
<1>5. Total(w, k) = Total(w, k-1) + w[k] /\ Total(v, k) = Total(v, k-1) + v[k]
  BY <1>3, <1>4, TotalStep
<1> QED BY <1>2, <1>3, <1>5

(* One changed weight changes the sum by the difference. *)
LEMMA TotalChange ==
  ASSUME NEW n \in Nat, NEW w, NEW v, Weights(w, n), Weights(v, n),
         NEW c \in 1..n, \A i \in 1..n : i # c => v[i] = w[i]
  PROVE  Total(v, n) = Total(w, n) - w[c] + v[c]
<1> DEFINE Bad == {k \in c..n : Total(v, k) # Total(w, k) - w[c] + v[c]}
<1> SUFFICES ASSUME Bad # {} PROVE FALSE
  OBVIOUS
<1>1. PICK k \in Bad : \A j \in Bad : k <= j
  <2> Bad \in SUBSET Nat
    OBVIOUS
  <2> HIDE DEF Bad
  <2> QED BY Least
<1>2. k \in 1..n /\ k-1 \in Nat /\ (k-1)+1 = k
  OBVIOUS
<1>3. Weights(w, (k-1)+1) /\ Weights(v, (k-1)+1) /\ Weights(w, k-1) /\ Weights(v, k-1)
  BY <1>2 DEF Weights
<1>4. Total(w, k) = Total(w, k-1) + w[k] /\ Total(v, k) = Total(v, k-1) + v[k]
  BY <1>2, <1>3, TotalStep
<1>5. Total(w, k-1) \in Int /\ Total(v, k-1) \in Int
  BY <1>2, <1>3, TotalType
<1>6. w[c] \in Int /\ v[c] \in Int /\ w[k] \in Int /\ v[k] \in Int
  BY <1>2 DEF Weights
<1>7. CASE k = c
  <2>1. Total(v, k-1) = Total(w, k-1)
    BY <1>2, <1>3, <1>7, TotalAgree
  <2> QED BY <1>4, <1>5, <1>6, <1>7, <2>1
<1>8. CASE k # c
  <2>1. Total(v, k-1) = Total(w, k-1) - w[c] + v[c]
    BY <1>1, <1>2, <1>8
  <2>2. v[k] = w[k]
    BY <1>2, <1>8
  <2> QED BY <1>4, <1>5, <1>6, <2>1, <2>2
<1> QED BY <1>7, <1>8

(* Without negative weights no weight exceeds the sum. *)
LEMMA TotalBounds ==
  ASSUME NEW n \in Nat, NEW w, \A i \in 1..n : w[i] \in Nat
  PROVE  /\ Total(w, n) \in Nat
         /\ \A i \in 1..n : w[i] <= Total(w, n)
<1>0. Weights(w, n)
  BY DEF Weights
<1> DEFINE Good(k) == Total(w, k) \in Nat /\ \A i \in 1..k : w[i] <= Total(w, k)
           Bad == {k \in 0..n : ~Good(k)}
<1> SUFFICES ASSUME Bad # {} PROVE FALSE
  OBVIOUS
<1>1. PICK k \in Bad : \A j \in Bad : k <= j
  <2> Bad \in SUBSET Nat
    OBVIOUS
  <2> HIDE DEF Bad
  <2> QED BY Least
<1>2. k # 0
  BY TotalZero
<1>3. k-1 \in Nat /\ k-1 \in 0..n /\ (k-1)+1 = k /\ k \in 1..n
  BY <1>2
<1>4. Good(k-1)
  BY <1>1, <1>3
<1>5. Weights(w, (k-1)+1)
  BY <1>0, <1>3 DEF Weights
<1>6. Total(w, k) = Total(w, k-1) + w[k]
  BY <1>3, <1>5, TotalStep
<1>7. \A i \in 1..k : i = k \/ i \in 1..(k-1)
  BY <1>3
<1> HIDE DEF Bad
<1>8. Good(k)
  BY <1>3, <1>4, <1>6, <1>7
<1> QED BY <1>8 DEF Bad

(* One more row adds its weight, whatever the table is called afterwards. *)
LEMMA TotalAppend ==
  ASSUME NEW n \in Nat, NEW w, NEW v, Weights(w, n),
         \A i \in 1..n : v[i] = w[i], v[n+1] \in Int
  PROVE  Total(v, n+1) = Total(w, n) + v[n+1]
<1>1. Weights(v, n+1)
  BY DEF Weights
<1>2. Total(v, n+1) = Total(v, n) + v[n+1]
  BY <1>1, TotalStep
<1> QED BY <1>2, TotalAgree

(* A sum of zeros is zero. *)
LEMMA TotalOfZeros ==
  ASSUME NEW n \in Nat, NEW w, \A i \in 1..n : w[i] = 0
  PROVE  Total(w, n) = 0
<1> DEFINE Bad == {k \in 0..n : Total(w, k) # 0}
<1> SUFFICES ASSUME Bad # {} PROVE FALSE
  OBVIOUS
<1>1. PICK k \in Bad : \A j \in Bad : k <= j
  <2> Bad \in SUBSET Nat
    OBVIOUS
  <2> HIDE DEF Bad
  <2> QED BY Least
<1>2. k # 0
  BY TotalZero
<1>3. k-1 \in Nat /\ (k-1)+1 = k /\ k \in 1..n /\ Total(w, k-1) = 0
  BY <1>1, <1>2
<1>4. Weights(w, (k-1)+1)
  BY <1>3 DEF Weights
<1>5. Total(w, k) = Total(w, k-1) + w[k]
  BY <1>3, <1>4, TotalStep
<1> QED BY <1>3, <1>5

(* Without negative weights a shorter sum is no larger. *)
LEMMA TotalPrefix ==
  ASSUME NEW m \in Nat, NEW n \in Nat, m <= n, NEW w, \A i \in 1..n : w[i] \in Nat
  PROVE  Total(w, m) <= Total(w, n)
<1> DEFINE Bad == {k \in m..n : ~(Total(w, m) <= Total(w, k))}
<1> SUFFICES ASSUME Bad # {} PROVE FALSE
  OBVIOUS
<1>1. PICK k \in Bad : \A j \in Bad : k <= j
  <2> Bad \in SUBSET Nat
    OBVIOUS
  <2> HIDE DEF Bad
  <2> QED BY Least
<1>2. Weights(w, m) /\ Total(w, m) \in Int
  <2>1. Weights(w, m)
    BY DEF Weights
  <2> QED BY <2>1, TotalType
<1>3. k # m
  BY <1>2
<1>4. k-1 \in Nat /\ (k-1)+1 = k /\ k \in 1..n /\ k-1 \in m..n
  BY <1>3
<1>5. Total(w, m) <= Total(w, k-1)
  BY <1>1, <1>4
<1>6. Weights(w, (k-1)+1) /\ Weights(w, k-1) /\ w[k] \in Nat
  BY <1>4 DEF Weights
<1>7. Total(w, k) = Total(w, k-1) + w[k] /\ Total(w, k-1) \in Int
  BY <1>4, <1>6, TotalStep, TotalType
<1> QED BY <1>2, <1>5, <1>6, <1>7
-----------------------------------------------------------------------------
(* power is the table of the powers of ten up to n. *)
Powers(power, n) == power = [i \in 0..n |-> IF i = 0 THEN 1 ELSE 10 * power[i-1]]

LEMMA PowersExist ==
  ASSUME NEW m \in Nat
  PROVE  \A n \in 0..m : \E power \in [0..n -> Nat \ {0}] : Powers(power, n)
<1> DEFINE Bad == {n \in 0..m : ~\E power \in [0..n -> Nat \ {0}] : Powers(power, n)}
<1> SUFFICES ASSUME Bad # {} PROVE FALSE
  BY Zenon
<1>1. PICK n \in Bad : \A k \in Bad : n <= k
  <2> Bad \in SUBSET Nat
    OBVIOUS
  <2> HIDE DEF Bad
  <2> QED BY Least
<1>2. n \in Nat /\ n <= m
  OBVIOUS
<1>3. n # 0
  <2> DEFINE s == [i \in 0..0 |-> 1]
  <2>1. s \in [0..0 -> Nat \ {0}] /\ Powers(s, 0)
    BY DEF Powers
  <2> QED BY <2>1
<1>4. PICK s \in [0..(n-1) -> Nat \ {0}] : Powers(s, n-1)
  BY <1>1, <1>2, <1>3
<1> DEFINE power == [i \in 0..n |-> IF i = n THEN 10 * s[n-1] ELSE s[i]]
<1>5. power \in [0..n -> Nat \ {0}]
  BY <1>2, <1>3
<1>6. Powers(power, n)
  <2> \A i \in 0..n : power[i] = IF i = 0 THEN 1 ELSE 10 * power[i-1]
    BY <1>2, <1>3, <1>4 DEF Powers
  <2> QED BY DEF Powers
<1> QED BY <1>5, <1>6

LEMMA PowerReadsTable ==
  ASSUME NEW n \in Nat, NEW power \in [0..n -> Nat \ {0}], Powers(power, n)
  PROVE  Pow10(n) = power[n]
<1> DEFINE chosen == CHOOSE f : f = [i \in 0..n |-> IF i = 0 THEN 1 ELSE 10 * f[i-1]]
<1>1. chosen = [i \in 0..n |-> IF i = 0 THEN 1 ELSE 10 * chosen[i-1]]
  BY DEF Powers
<1>2. Pow10(n) = chosen[n]
  BY DEF Pow10
<1>3. \A i \in 0..n : chosen[i] = power[i]
  <2> DEFINE Bad == {i \in 0..n : chosen[i] # power[i]}
  <2> SUFFICES ASSUME Bad # {} PROVE FALSE
    OBVIOUS
  <2>1. PICK i \in Bad : \A j \in Bad : i <= j
    <3> Bad \in SUBSET Nat
      OBVIOUS
    <3> HIDE DEF Bad
    <3> QED BY Least
  <2>2. i # 0
    BY <1>1 DEF Powers
  <2>3. i - 1 \in 0..n /\ chosen[i-1] = power[i-1]
    BY <2>1, <2>2
  <2>4. chosen[i] = 10 * chosen[i-1]
    BY <1>1, <2>2, <2>3
  <2>5. power[i] = 10 * power[i-1]
    BY <2>2, <2>3 DEF Powers
  <2> QED BY <2>3, <2>4, <2>5
<1> QED BY <1>2, <1>3

(* The powers of ten: the first one, the next one, and that they are never zero. *)
LEMMA PowerZero == Pow10(0) = 1
<1> DEFINE s == [i \in 0..0 |-> 1]
<1>1. s \in [0..0 -> Nat \ {0}] /\ Powers(s, 0) /\ s[0] = 1
  BY DEF Powers
<1> QED BY <1>1, PowerReadsTable

LEMMA PowerType == ASSUME NEW n \in Nat PROVE Pow10(n) \in Nat \ {0}
<1>1. PICK s \in [0..n -> Nat \ {0}] : Powers(s, n)
  BY PowersExist
<1> QED BY <1>1, PowerReadsTable

LEMMA PowerStep == ASSUME NEW n \in Nat PROVE Pow10(n+1) = 10 * Pow10(n)
<1>1. PICK s \in [0..(n+1) -> Nat \ {0}] : Powers(s, n+1)
  BY PowersExist
<1>2. Pow10(n+1) = s[n+1]
  BY <1>1, PowerReadsTable
<1>3. s[n+1] = 10 * s[n]
  BY <1>1 DEF Powers
<1> DEFINE t == [i \in 0..n |-> s[i]]
<1>4. t \in [0..n -> Nat \ {0}] /\ Powers(t, n) /\ t[n] = s[n]
  <2>1. \A i \in 0..n : t[i] = IF i = 0 THEN 1 ELSE 10 * t[i-1]
    BY <1>1 DEF Powers
  <2>2. t \in [0..n -> Nat \ {0}] /\ t[n] = s[n]
    OBVIOUS
  <2> QED BY <2>1, <2>2 DEF Powers
<1>5. Pow10(n) = s[n]
  <2> HIDE DEF t
  <2> QED BY <1>4, PowerReadsTable
<1> QED BY <1>2, <1>3, <1>5

(* The powers of ten multiply as their exponents add. *)
LEMMA PowerSum ==
  ASSUME NEW a \in Nat, NEW b \in Nat
  PROVE  Pow10(a + b) = Pow10(a) * Pow10(b)
<1> DEFINE Bad == {n \in Nat : Pow10(a + n) # Pow10(a) * Pow10(n)}
<1> SUFFICES ASSUME Bad # {} PROVE FALSE
  OBVIOUS
<1>1. PICK n \in Bad : \A k \in Bad : n <= k
  BY Least
<1>2. n # 0
  <2>1. Pow10(a) \in Nat /\ a + 0 = a
    BY PowerType
  <2>2. Pow10(a + 0) = Pow10(a) * Pow10(0)
    BY <2>1, PowerZero
  <2> QED BY <2>2
<1>3. n - 1 \in Nat /\ n - 1 \notin Bad
  BY <1>1, <1>2
<1>4. Pow10(a + (n-1)) = Pow10(a) * Pow10(n-1)
  BY <1>3
<1>5. Pow10(n) = 10 * Pow10(n-1)
  <2>1. (n-1) + 1 = n
    OBVIOUS
  <2> QED BY <1>3, <2>1, PowerStep
<1>6. Pow10(a + n) = 10 * Pow10(a + (n-1))
  <2>1. a + (n-1) \in Nat /\ (a + (n-1)) + 1 = a + n
    BY <1>3
  <2> QED BY <2>1, PowerStep
<1>7. Pow10(a) \in Nat /\ Pow10(n-1) \in Nat
  BY <1>3, PowerType
<1> DEFINE x == Pow10(a)
           y == Pow10(n-1)
<1>8. 10 * (x * y) = x * (10 * y)
  BY <1>7
<1>9. Pow10(a + n) = Pow10(a) * Pow10(n)
  BY <1>4, <1>5, <1>6, <1>8
<1> QED BY <1>9
=============================================================================
