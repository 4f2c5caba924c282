------------------------------ MODULE WireProofs ------------------------------
(***************************************************************************)
(* The amount conversion of a release, for every width of the integers,    *)
(* every amount and all decimals: pow10_u128 gives up exactly when the     *)
(* power does not fit, and convert_asset_amount_to_evm then returns the    *)
(* exact value, or aborts because there is none.  The transaction of a     *)
(* release, for every request: what rlp.hpp writes is read back item by    *)
(* item, and what append_string_tail leaves is read back argument by       *)
(* argument.  And the proof words, for slots of every width:               *)
(* add_storage_slot_offset reaches the slots that the EVM wrote, and the   *)
(* comparisons accept the deposit stored there.                            *)
(***************************************************************************)
EXTENDS Wire, TotalsTheorems, SequenceTheorems
LOCAL INSTANCE SequencesExt

(* What pow10_u128 returns. *)
ClosedPow10(e) == IF CanPow10(e) THEN Pow10(e) ELSE Aborted

(* One round of the loop of pow10_u128. *)
TimesTen(f) == IF f # Aborted /\ MayMultiply(f) THEN Wrap(f * 10) ELSE Aborted

LEMMA WrapFits == ASSUME NEW n \in 0..MaxUint128 PROVE Wrap(n) = n
BY DecimalsAssumption DEF Wrap

LEMMA TimesTenCloses ==
  ASSUME NEW e \in Nat
  PROVE  ClosedPow10(e + 1) = TimesTen(ClosedPow10(e))
<1> DEFINE f == Pow10(e)
<1>1. f \in Nat \ {0} /\ Pow10(e+1) = 10 * f
  BY PowerType, PowerStep
<1>2. MaxUint128 \in Nat
  BY DecimalsAssumption
<1>3. CanPow10(e) <=> f <= MaxUint128
  BY DEF CanPow10
<1>4. CanPow10(e + 1) <=> 10 * f <= MaxUint128
  BY <1>1 DEF CanPow10
<1> HIDE DEF f
<1>5. f <= MaxUint128 \div 10 <=> 10 * f <= MaxUint128
  BY <1>1, <1>2
<1>6. CASE 10 * f <= MaxUint128
  <2>1. f <= MaxUint128 /\ f # 0 /\ f * 10 = 10 * f /\ f * 10 \in 0..MaxUint128
    BY <1>1, <1>2, <1>6
  <2>2. TimesTen(f) = 10 * f
    BY <1>5, <1>6, <2>1, WrapFits DEF TimesTen, MayMultiply, Aborted
  <2> QED BY <1>1, <1>3, <1>4, <1>6, <2>1, <2>2 DEF ClosedPow10, f
<1>7. CASE ~(10 * f <= MaxUint128)
  <2>1. TimesTen(f) = Aborted
    BY <1>5, <1>7 DEF TimesTen, MayMultiply
  <2>2. TimesTen(Aborted) = Aborted
    BY DEF TimesTen
  <2> QED BY <1>3, <1>4, <1>7, <2>1, <2>2 DEF ClosedPow10, f
<1> QED BY <1>6, <1>7

LEMMA Pow10Closes ==
  ASSUME NEW e \in Nat
  PROVE  pow10_u128(e) = ClosedPow10(e)
<1> DEFINE chosen == CHOOSE f :
             f = [i \in 0..e |->
                    IF i = 0 THEN 1
                    ELSE IF f[i-1] # Aborted /\ MayMultiply(f[i-1]) THEN Wrap(f[i-1] * 10)
                         ELSE Aborted]
           closed == [i \in 0..e |-> ClosedPow10(i)]
<1>1. ClosedPow10(0) = 1
  BY PowerZero, DecimalsAssumption DEF ClosedPow10, CanPow10
<1>2. \A i \in 0..e : i # 0 => ClosedPow10(i) = TimesTen(ClosedPow10(i-1))
  <2> TAKE i \in 0..e
  <2> HAVE i # 0
  <2>1. i - 1 \in Nat /\ (i-1) + 1 = i
    OBVIOUS
  <2> QED BY <2>1, TimesTenCloses
<1>3. closed = [i \in 0..e |->
                  IF i = 0 THEN 1
                  ELSE IF closed[i-1] # Aborted /\ MayMultiply(closed[i-1])
                       THEN Wrap(closed[i-1] * 10) ELSE Aborted]
  <2> SUFFICES ASSUME NEW i \in 0..e
               PROVE  ClosedPow10(i) =
                        IF i = 0 THEN 1
                        ELSE IF closed[i-1] # Aborted /\ MayMultiply(closed[i-1])
                             THEN Wrap(closed[i-1] * 10) ELSE Aborted
    OBVIOUS
  <2>1. CASE i = 0
    BY <1>1, <2>1
  <2>2. CASE i # 0
    <3>1. closed[i-1] = ClosedPow10(i-1)
      BY <2>2
    <3> HIDE DEF closed
    <3> QED BY <1>2, <2>2, <3>1 DEF TimesTen
  <2> QED BY <2>1, <2>2
<1>4. chosen = [i \in 0..e |->
                  IF i = 0 THEN 1
                  ELSE IF chosen[i-1] # Aborted /\ MayMultiply(chosen[i-1])
                       THEN Wrap(chosen[i-1] * 10) ELSE Aborted]
  <2> HIDE DEF closed
  <2> QED BY <1>3
<1>5. pow10_u128(e) = chosen[e]
  BY DEF pow10_u128
<1> HIDE DEF chosen, closed
<1>6. \A i \in 0..e : chosen[i] = ClosedPow10(i)
  <2> DEFINE Bad == {i \in 0..e : chosen[i] # ClosedPow10(i)}
  <2> SUFFICES ASSUME Bad # {} PROVE FALSE
    OBVIOUS
  <2>1. PICK i \in Bad : \A j \in Bad : i <= j
    <3> Bad \in SUBSET Nat
      OBVIOUS
    <3> HIDE DEF Bad
    <3> QED BY Least
  <2>2. i # 0
    BY <1>1, <1>4
  <2>3. i - 1 \in 0..e /\ i \in 0..e /\ chosen[i-1] = ClosedPow10(i-1)
    BY <2>1, <2>2
  <2>4. chosen[i] = TimesTen(chosen[i-1])
    BY <1>4, <2>2, <2>3 DEF TimesTen
  <2> QED BY <1>2, <2>2, <2>3, <2>4
<1> QED BY <1>5, <1>6
-----------------------------------------------------------------------------
(* Facts about exact products and quotients. *)
LEMMA ProductFits ==
  ASSUME NEW n \in Nat \ {0}, NEW f \in Nat \ {0}, NEW m \in Nat
  PROVE  /\ n <= m \div f <=> n * f <= m
         /\ n * f >= f /\ n * f >= n
OBVIOUS

LEMMA ExactQuotient ==
  ASSUME NEW n \in Nat \ {0}, NEW f \in Nat \ {0}
  PROVE  /\ n % f = 0 => /\ (n \div f) * f = n /\ n \div f \in Nat \ {0} /\ f <= n
         /\ \A r \in Nat : n = r * f => n % f = 0
OBVIOUS

LEMMA Cancel ==
  ASSUME NEW a \in Nat, NEW b \in Nat, NEW f \in Nat \ {0}, a * f = b * f
  PROVE  a = b
OBVIOUS

(* The decimals of the two sides, and the factor between their units.       *)
Gap(z, e) == IF e > z THEN e - z ELSE z - e

LEMMA GapFacts ==
  ASSUME NEW z \in Nat, NEW e \in Nat
  PROVE  /\ Gap(z, e) \in Nat /\ Pow10(Gap(z, e)) \in Nat \ {0}
         /\ Pow10(z) \in Nat \ {0} /\ Pow10(e) \in Nat \ {0}
         /\ e >= z => Pow10(e) = Pow10(z) * Pow10(Gap(z, e))
         /\ z >= e => Pow10(z) = Pow10(e) * Pow10(Gap(z, e))
<1>1. Gap(z, e) \in Nat
  BY DEF Gap
<1>2. e >= z => e = z + Gap(z, e)
  BY DEF Gap
<1>3. z >= e => z = e + Gap(z, e)
  BY DEF Gap
<1> QED BY <1>1, <1>2, <1>3, PowerType, PowerSum

(* convert with the closed form of its factor. *)
LEMMA ConvertReads ==
  ASSUME NEW amount \in Int, NEW z \in Nat, NEW e \in Nat,
         NEW f, f = Pow10(Gap(z, e))
  PROVE  /\ amount <= 0 \/ f > MaxUint128 => convert(amount, z, e) = Aborted
         /\ amount > 0 /\ f <= MaxUint128 =>
              convert(amount, z, e) =
                IF e > z THEN IF amount <= MaxUint128 \div f THEN Wrap(amount * f) ELSE Aborted
                ELSE IF amount % f = 0 THEN amount \div f ELSE Aborted
<1>1. f \in Nat \ {0} /\ Gap(z, e) \in Nat
  BY GapFacts
<1>2. pow10_u128(Gap(z, e)) = IF f <= MaxUint128 THEN f ELSE Aborted
  BY <1>1, Pow10Closes DEF ClosedPow10, CanPow10
<1>3. convert(amount, z, e) =
        LET factor == pow10_u128(Gap(z, e))
        IN  IF amount <= 0 \/ factor = Aborted THEN Aborted
            ELSE IF e > z THEN IF amount <= MaxUint128 \div factor THEN Wrap(amount * factor)
                                                                  ELSE Aborted
            ELSE IF Divides(factor, amount) THEN amount \div factor ELSE Aborted
  BY DEF convert, Gap
<1>4. CASE f > MaxUint128
  <2>1. pow10_u128(Gap(z, e)) = Aborted
    BY <1>1, <1>2, <1>4, DecimalsAssumption
  <2> QED BY <1>1, <1>3, <1>4, <2>1, DecimalsAssumption
<1>5. CASE f <= MaxUint128
  <2>1. pow10_u128(Gap(z, e)) = f /\ f # Aborted
    BY <1>1, <1>2, <1>5 DEF Aborted
  <2> QED BY <1>1, <1>3, <1>5, <2>1, DecimalsAssumption DEF Divides
<1> QED BY <1>1, <1>4, <1>5, DecimalsAssumption

(* The reference: some r in range is worth the amount. *)
WorthOf(amount, z, e, r) == r * Pow10(z) = amount * Pow10(e)

LEMMA ConvertExact ==
  ASSUME NEW amount \in Int, amount <= MaxUint128, NEW z \in Nat, NEW e \in Nat,
         convert(amount, z, e) # Aborted
  PROVE  /\ CanConvert(amount, z, e) /\ convert(amount, z, e) = Convert(amount, z, e)
         /\ convert(amount, z, e) \in 1..MaxUint128
         /\ WorthOf(amount, z, e, convert(amount, z, e))
<1> DEFINE f == Pow10(Gap(z, e))
<1>1. f \in Nat \ {0} /\ Pow10(z) \in Nat \ {0} /\ Pow10(e) \in Nat \ {0} /\ MaxUint128 \in Nat
  BY GapFacts, DecimalsAssumption
<1>2. amount > 0 /\ f <= MaxUint128
  BY <1>1, ConvertReads
<1>3. CASE e > z
  <2>1. amount <= MaxUint128 \div f /\ convert(amount, z, e) = Wrap(amount * f)
    BY <1>2, <1>3, ConvertReads
  <2>2. f = Pow10(e - z) /\ Pow10(e) = Pow10(z) * f
    BY <1>3, GapFacts DEF Gap
  <2> HIDE DEF f
  <2>3. amount * f <= MaxUint128 /\ amount * f >= amount /\ amount * f \in Nat
    BY <1>1, <1>2, <2>1, ProductFits
  <2>4. convert(amount, z, e) = amount * f
    BY <1>1, <2>1, <2>3, WrapFits
  <2>5. CanConvert(amount, z, e) /\ Convert(amount, z, e) = amount * f
    BY <1>2, <1>3, <2>1, <2>2 DEF CanConvert, CanPow10, Convert
  <2> DEFINE pz == Pow10(z)
  <2>6. (amount * f) * pz = amount * (pz * f)
    BY <1>1, <1>2
  <2> QED BY <1>1, <1>2, <2>2, <2>3, <2>4, <2>5, <2>6 DEF WorthOf
<1>4. CASE ~(e > z)
  <2>1. amount % f = 0 /\ convert(amount, z, e) = amount \div f
    BY <1>2, <1>4, ConvertReads
  <2>2. f = Pow10(z - e) /\ Pow10(z) = Pow10(e) * f
    BY <1>4, GapFacts DEF Gap
  <2> HIDE DEF f
  <2>3. (amount \div f) * f = amount /\ amount \div f \in Nat \ {0}
    BY <1>1, <1>2, <2>1, ExactQuotient
  <2>4. amount \div f <= amount
    BY <1>1, <1>2, <2>3, ProductFits
  <2>5. CanConvert(amount, z, e) /\ Convert(amount, z, e) = amount \div f
    <3>1. CASE z > e
      BY <1>2, <1>4, <2>1, <2>2, <3>1 DEF CanConvert, CanPow10, Convert
    <3>2. CASE z = e
      <4>1. z - e = 0 /\ e - z = 0
        BY <3>2
      <4>2. f = 1
        BY <2>2, <4>1, PowerZero
      <4>3. amount \div f = amount /\ amount * Pow10(0) = amount
        BY <1>2, <4>2, PowerZero
      <4> QED BY <1>2, <3>2, <4>1, <4>3 DEF CanConvert, Convert
    <3> QED BY <1>4, <3>1, <3>2
  <2> DEFINE r == amount \div f
             pe == Pow10(e)
  <2>6. r * (pe * f) = (r * f) * pe
    BY <1>1, <2>3
  <2> QED BY <1>1, <1>2, <2>1, <2>2, <2>3, <2>4, <2>5, <2>6 DEF WorthOf
<1> QED BY <1>3, <1>4

LEMMA AbortMeansNone ==
  ASSUME NEW amount \in Int, amount <= MaxUint128, NEW z \in Nat, NEW e \in Nat,
         convert(amount, z, e) = Aborted
  PROVE  /\ ~CanConvert(amount, z, e)
         /\ \A r \in 1..MaxUint128 : ~WorthOf(amount, z, e, r)
<1> DEFINE f == Pow10(Gap(z, e))
<1>1. f \in Nat \ {0} /\ Pow10(z) \in Nat \ {0} /\ Pow10(e) \in Nat \ {0} /\ MaxUint128 \in Nat
  BY GapFacts, DecimalsAssumption
<1>2. CASE amount <= 0
  <2>1. ~CanConvert(amount, z, e)
    BY <1>2 DEF CanConvert
  <2>2. ASSUME NEW r \in 1..MaxUint128, WorthOf(amount, z, e, r) PROVE FALSE
    <3> DEFINE pz == Pow10(z)
               pe == Pow10(e)
    <3>1. pz \in Nat \ {0} /\ pe \in Nat \ {0} /\ r * pz = amount * pe
      BY <1>1, <2>2 DEF WorthOf
    <3> HIDE DEF pz, pe
    <3>2. r * pz > 0 /\ amount * pe <= 0
      BY <1>1, <1>2, <3>1
    <3> QED BY <3>1, <3>2
  <2> QED BY <2>1, <2>2
<1>3. CASE amount > 0 /\ e > z
  <2>1. f = Pow10(e - z) /\ Pow10(e) = Pow10(z) * f
    BY <1>3, GapFacts DEF Gap
  <2>2. ~(amount * f <= MaxUint128)
    <3> SUFFICES ASSUME amount * f <= MaxUint128 PROVE FALSE
      OBVIOUS
    <3>1. /\ amount <= MaxUint128 \div f /\ f <= MaxUint128
          /\ amount * f >= amount /\ amount * f \in 1..MaxUint128
      <4> HIDE DEF f
      <4> QED BY <1>1, <1>3, ProductFits
    <3>2. convert(amount, z, e) = amount * f
      <4>1. convert(amount, z, e) = Wrap(amount * f)
        BY <1>3, <3>1, ConvertReads
      <4> HIDE DEF f
      <4> QED BY <3>1, <4>1, WrapFits
    <3> QED BY <3>1, <3>2 DEF Aborted
  <2> HIDE DEF f
  <2>3. ~CanConvert(amount, z, e)
    BY <1>1, <1>3, <2>1, <2>2, ProductFits DEF CanConvert
  <2>4. ASSUME NEW r \in 1..MaxUint128, WorthOf(amount, z, e, r) PROVE FALSE
    <3> DEFINE pz == Pow10(z)
    <3>1. r * pz = amount * (pz * f)
      BY <2>1, <2>4 DEF WorthOf
    <3>2. pz \in Nat \ {0} /\ r \in Nat /\ amount * f \in Nat
      BY <1>1, <1>3
    <3> HIDE DEF pz
    <3>3. r * pz = (amount * f) * pz
      BY <1>1, <1>3, <3>1, <3>2
    <3>4. r = amount * f
      BY <3>2, <3>3, Cancel
    <3> QED BY <1>1, <2>2, <3>4
  <2> QED BY <2>3, <2>4
<1>4. CASE amount > 0 /\ ~(e > z)
  <2>1. f = Pow10(z - e) /\ Pow10(z) = Pow10(e) * f
    BY <1>4, GapFacts DEF Gap
  <2>2. amount % f # 0
    <3> SUFFICES ASSUME amount % f = 0 PROVE FALSE
      OBVIOUS
    <3>1. amount \div f \in Nat \ {0} /\ f <= amount
      <4> HIDE DEF f
      <4> QED BY <1>1, <1>4, ExactQuotient
    <3>2. convert(amount, z, e) = amount \div f
      BY <1>1, <1>4, <3>1, ConvertReads
    <3> QED BY <3>1, <3>2 DEF Aborted
  <2> HIDE DEF f
  <2>3. ~CanConvert(amount, z, e)
    <3>1. z # e
      <4> SUFFICES ASSUME z = e PROVE FALSE
        OBVIOUS
      <4>1. f = 1
        BY <2>1, PowerZero
      <4> QED BY <1>4, <2>2, <4>1
    <3> QED BY <1>4, <2>1, <2>2, <3>1 DEF CanConvert
  <2>4. ASSUME NEW r \in 1..MaxUint128, WorthOf(amount, z, e, r) PROVE FALSE
    <3> DEFINE pe == Pow10(e)
    <3>1. r * (pe * f) = amount * pe
      BY <2>1, <2>4 DEF WorthOf
    <3>2. pe \in Nat \ {0} /\ r \in Nat /\ r * f \in Nat /\ amount \in Nat
      BY <1>1, <1>4
    <3> HIDE DEF pe
    <3>3. (r * f) * pe = amount * pe
      BY <1>1, <3>1, <3>2
    <3>4. r * f = amount
      BY <3>2, <3>3, Cancel
    <3> QED BY <1>1, <1>4, <2>2, <3>2, <3>4, ExactQuotient
  <2> QED BY <2>3, <2>4
<1> QED BY <1>2, <1>3, <1>4
-----------------------------------------------------------------------------
(* A release that was decided was one of the requests, and was decided by   *)
(* CanBuild.                                                                *)
Decided ==
  /\ pc \in {"release", "sent", "unsent"} => job \in Releases
  /\ pc = "sent" => CanBuild(job)
  /\ pc = "unsent" => ~CanBuild(job)

LEMMA DecidedAlways == WireSpec => []Decided
<1>1. WireInit => Decided
  BY DEF WireInit, Decided
<1>2. Decided /\ [WireNext]_wireVars => Decided'
  <2> SUFFICES ASSUME Decided, [WireNext]_wireVars PROVE Decided'
    OBVIOUS
  <2>1. CASE SendRelease
    <3>1. pc' = "sent" /\ job' = job /\ job \in Releases /\ CanBuild(job)
      BY <2>1 DEF SendRelease, Decided
    <3> QED BY <3>1 DEF Decided
  <2>2. CASE AbortRelease
    <3>1. pc' = "unsent" /\ job' = job /\ job \in Releases /\ ~CanBuild(job)
      BY <2>2 DEF AbortRelease, Decided
    <3> QED BY <3>1 DEF Decided
  <2>3. CASE CheckProof
    BY <2>3 DEF CheckProof, Decided
  <2>4. CASE UNCHANGED wireVars
    BY <2>4 DEF wireVars, Decided
  <2> QED BY <2>1, <2>2, <2>3, <2>4 DEF WireNext
<1> QED BY <1>1, <1>2, PTL DEF WireSpec

(* The closed forms that ZeroBridge and its proofs use are what the code's  *)
(* guarded loop and its wrapping arithmetic compute.                        *)
THEOREM ClosedFormsAgree == WireSpec => []ClosedFormAgrees
<1>1. Decided => ClosedFormAgrees
  <2> SUFFICES ASSUME Decided, pc \in {"sent", "unsent"}
               PROVE  /\ pc = "sent" <=>
                           /\ IsAddress(job.memo)
                           /\ CanConvert(job.amount, job.zeroDecimals, job.evmDecimals)
                      /\ pc = "sent" =>
                           convert(job.amount, job.zeroDecimals, job.evmDecimals)
                             = Convert(job.amount, job.zeroDecimals, job.evmDecimals)
    BY DEF ClosedFormAgrees
  <2>1. /\ job.amount \in Int /\ job.amount <= MaxUint128
        /\ job.zeroDecimals \in Nat /\ job.evmDecimals \in Nat
    BY WireAssumption DEF Decided
  <2>2. pc = "sent" <=> CanBuild(job)
    BY DEF Decided
  <2> QED BY <2>1, <2>2, ConvertExact, AbortMeansNone DEF CanBuild
<1> QED BY <1>1, DecidedAlways, PTL

(* What is sent is worth the burned amount, unit for unit, and a request    *)
(* with a good memo is turned down only if no uint128 is worth it.          *)
THEOREM ConversionIsExact == WireSpec => []ExactOrAborted
<1>1. Decided => ExactOrAborted
  <2> SUFFICES ASSUME Decided PROVE ExactOrAborted
    OBVIOUS
  <2> DEFINE r == convert(job.amount, job.zeroDecimals, job.evmDecimals)
  <2>1. ASSUME pc \in {"sent", "unsent"}
        PROVE  /\ job.amount \in Int /\ job.amount <= MaxUint128
               /\ job.zeroDecimals \in Nat /\ job.evmDecimals \in Nat
    BY <2>1, WireAssumption DEF Decided
  <2>2. ASSUME pc = "sent" PROVE r \in 1..MaxUint128 /\ Worth(r)
    BY <2>1, <2>2, ConvertExact DEF Decided, CanBuild, Worth, WorthOf
  <2>3. ASSUME pc = "unsent", IsAddress(job.memo), NEW n \in 1..MaxUint128 PROVE ~Worth(n)
    BY <2>1, <2>3, AbortMeansNone DEF Decided, CanBuild, Worth, WorthOf
  <2> QED BY <2>2, <2>3 DEF ExactOrAborted
<1> QED BY <1>1, DecidedAlways, PTL

-----------------------------------------------------------------------------
(* A table that is filled in from 0 to n. *)
Fills(f, n, first, step) == f[0] = first /\ \A i \in 1..n : f[i] = step[i][f[i-1]]
Tables(n, S) == [0..n -> S]

LEMMA TableExists ==
  ASSUME NEW S, NEW n \in Nat, NEW first \in S, NEW step,
         \A i \in 1..n : \A x \in S : step[i][x] \in S
  PROVE  \E f \in Tables(n, S) : Fills(f, n, first, step)
<1> DEFINE UpTo(f, m) == f[0] = first /\ \A i \in 1..m : f[i] = step[i][f[i-1]]
           Bad == {m \in 0..n : ~\E f \in [0..n -> S] : UpTo(f, m)}
<1>1. SUFFICES ASSUME Bad # {} PROVE FALSE
  <2> HIDE DEF Bad
  <2>1. n \notin Bad
    BY <1>1
  <2> HIDE DEF UpTo
  <2>2. \E f \in [0..n -> S] : UpTo(f, n)
    <3>1. n \in 0..n
      OBVIOUS
    <3> QED BY <2>1, <3>1 DEF Bad
  <2> QED BY <2>2 DEF UpTo, Fills, Tables
<1>2. PICK m \in Bad : \A k \in Bad : m <= k
  <2> Bad \in SUBSET Nat
    OBVIOUS
  <2> HIDE DEF Bad
  <2> QED BY <1>1, Least
<1>3. CASE m = 0
  <2> DEFINE flat == [i \in 0..n |-> first]
  <2>1. flat \in [0..n -> S] /\ UpTo(flat, 0)
    OBVIOUS
  <2> HIDE DEF UpTo, flat
  <2> QED BY <1>2, <1>3, <2>1
<1>4. CASE m # 0
  <2>0. m \in 0..n
    BY <1>2
  <2> HIDE DEF Bad
  <2>1. m \in 1..n /\ m - 1 \in 0..n /\ ~(m <= m - 1)
    BY <1>4, <2>0
  <2>1a. m - 1 \notin Bad
    BY <1>2, <2>1
  <2>2. PICK f \in [0..n -> S] : UpTo(f, m - 1)
    <3> HIDE DEF UpTo
    <3> QED BY <2>1, <2>1a DEF Bad
  <2> DEFINE v == step[m][f[m-1]]
             g == [f EXCEPT ![m] = v]
  <2>3. v \in S
    BY <2>1
  <2> HIDE DEF v
  <2>4. /\ g \in [0..n -> S] /\ g[m] = v /\ g[m-1] = f[m-1]
        /\ \A i \in 0..(m-1) : g[i] = f[i]
    BY <2>1, <2>3
  <2>5. UpTo(g, m)
    <3> HIDE DEF g
    <3>1. \A i \in 1..m : i = m \/ (i \in 1..(m-1) /\ i \in 0..(m-1) /\ i - 1 \in 0..(m-1))
      BY <2>1
    <3>2. g[0] = first
      BY <2>1, <2>2, <2>4
    <3>3. ASSUME NEW i \in 1..m PROVE g[i] = step[i][g[i-1]]
      <4>1. CASE i = m
        BY <2>4, <4>1 DEF v
      <4>2. CASE i # m
        <5>1. i \in 1..(m-1) /\ g[i] = f[i] /\ g[i-1] = f[i-1]
          BY <2>4, <3>1, <3>3, <4>2
        <5> QED BY <2>2, <5>1
      <4> QED BY <4>1, <4>2
    <3> QED BY <3>2, <3>3
  <2> HIDE DEF UpTo, g
  <2> QED BY <1>2, <2>4, <2>5 DEF Bad
<1> QED BY <1>3, <1>4

(* Two such tables agree. *)
LEMMA TablesAgree ==
  ASSUME NEW n \in Nat, NEW f, NEW g, NEW step, f[0] = g[0],
         \A i \in 1..n : f[i] = step[i][f[i-1]] /\ g[i] = step[i][g[i-1]]
  PROVE  \A i \in 0..n : f[i] = g[i]
<1> DEFINE Bad == {i \in 0..n : f[i] # g[i]}
<1>1. SUFFICES ASSUME Bad # {} PROVE FALSE
  OBVIOUS
<1>2. PICK m \in Bad : \A k \in Bad : m <= k
  <2> Bad \in SUBSET Nat
    OBVIOUS
  <2> HIDE DEF Bad
  <2> QED BY <1>1, Least
<1>3. m \in 0..n /\ f[m] # g[m] /\ m # 0
  BY <1>2
<1>4. m \in 1..n /\ m - 1 \in 0..n /\ m - 1 \notin Bad
  BY <1>2, <1>3
<1> QED BY <1>3, <1>4
-----------------------------------------------------------------------------
(* The bytes of a number. *)
Quotients(f, v, n) == f[0] = v /\ \A i \in 1..n : f[i] = f[i-1] \div 256

LEMMA QuotientTable ==
  ASSUME NEW v \in Nat, NEW n \in Nat
  PROVE  \E f \in [0..n -> Nat] : /\ Quotients(f, v, n)
                                  /\ \A k \in 0..n : Shifted(v, k) = f[k]
<1> DEFINE step == [i \in 1..n |-> [x \in Nat |-> x \div 256]]
<1>1. \A i \in 1..n : \A x \in Nat : step[i][x] = x \div 256 /\ step[i][x] \in Nat
  OBVIOUS
<1> HIDE DEF step
<1>2. PICK f \in [0..n -> Nat] : f[0] = v /\ \A i \in 1..n : f[i] = step[i][f[i-1]]
  <2>1. \E f \in Tables(n, Nat) : Fills(f, n, v, step)
    BY <1>1, TableExists
  <2> QED BY <2>1 DEF Tables, Fills
<1>3. \A i \in 1..n : f[i-1] \in Nat
  BY <1>2
<1>4. Quotients(f, v, n)
  <2>1. ASSUME NEW i \in 1..n PROVE f[i] = f[i-1] \div 256
    <3>1. f[i] = step[i][f[i-1]] /\ f[i-1] \in Nat
      BY <1>2, <1>3
    <3> QED BY <1>1, <3>1
  <2> QED BY <1>2, <2>1 DEF Quotients
<1>5. ASSUME NEW k \in 0..n PROVE Shifted(v, k) = f[k]
  <2> DEFINE chosen == CHOOSE q : q = [i \in 0..k |-> IF i = 0 THEN v ELSE q[i-1] \div 256]
             head == [i \in 0..k |-> f[i]]
  <2>1. k \in Nat /\ 1..k \subseteq 1..n /\ \A i \in 1..k : i - 1 \in 0..k
    BY <1>5
  <2>2. head = [i \in 0..k |-> IF i = 0 THEN v ELSE head[i-1] \div 256]
    <3>1. ASSUME NEW i \in 0..k PROVE f[i] = IF i = 0 THEN v ELSE head[i-1] \div 256
      BY <1>4, <2>1 DEF Quotients
    <3> QED BY <3>1
  <2>3. chosen = [i \in 0..k |-> IF i = 0 THEN v ELSE chosen[i-1] \div 256]
    <3> HIDE DEF head
    <3> QED BY <2>2
  <2>4. Shifted(v, k) = chosen[k]
    BY DEF Shifted
  <2> HIDE DEF chosen
  <2>5. \A i \in 0..k : chosen[i] = f[i]
    <3> DEFINE Bad == {i \in 0..k : chosen[i] # f[i]}
    <3>1. SUFFICES ASSUME Bad # {} PROVE FALSE
      OBVIOUS
    <3>2. PICK m \in Bad : \A j \in Bad : m <= j
      <4> Bad \in SUBSET Nat
        OBVIOUS
      <4> HIDE DEF Bad
      <4> QED BY <3>1, Least
    <3>3. m \in 0..k /\ chosen[m] # f[m] /\ m # 0
      BY <1>2, <2>3, <3>2
    <3>4. m \in 1..k /\ m - 1 \in 0..k /\ m - 1 \notin Bad
      BY <3>2, <3>3
    <3>5. chosen[m] = chosen[m-1] \div 256 /\ f[m] = f[m-1] \div 256
      BY <1>4, <2>1, <2>3, <3>3, <3>4 DEF Quotients
    <3> QED BY <3>3, <3>4, <3>5
  <2> QED BY <2>1, <2>4, <2>5
<1> QED BY <1>4, <1>5

LEMMA ShiftedSteps ==
  ASSUME NEW v \in Nat, NEW n \in Nat
  PROVE  /\ Shifted(v, 0) = v /\ Shifted(v, n) \in Nat
         /\ Shifted(v, n + 1) = Shifted(v, n) \div 256
         /\ Shifted(v, n) % 256 \in 0..255
<1>1. n + 1 \in Nat /\ n \in 0..(n+1) /\ n + 1 \in 0..(n+1) /\ 0 \in 0..(n+1)
  OBVIOUS
<1>2. PICK f \in [0..(n+1) -> Nat] : /\ Quotients(f, v, n + 1)
                                     /\ \A k \in 0..(n+1) : Shifted(v, k) = f[k]
  BY <1>1, QuotientTable
<1>3. f[0] = v /\ f[n+1] = f[n] \div 256
  BY <1>2 DEF Quotients
<1>4. f[n] \in Nat
  BY <1>1, <1>2
<1>5. \A x \in Nat : x % 256 \in 0..255
  OBVIOUS
<1>6. Shifted(v, n) = f[n]
  BY <1>1, <1>2
<1>7. Shifted(v, n) % 256 \in 0..255
  BY <1>4, <1>5, <1>6
<1> QED BY <1>1, <1>2, <1>3, <1>4, <1>7

(* A smaller number fits where a larger one does, and in more bytes.        *)
LEMMA ShiftedMonotone ==
  ASSUME NEW v \in Nat, NEW w \in 0..v, NEW n \in Nat
  PROVE  Shifted(w, n) <= Shifted(v, n)
<1> DEFINE Bad == {k \in 0..n : ~(Shifted(w, k) <= Shifted(v, k))}
<1>0. w \in Nat
  OBVIOUS
<1>1. SUFFICES ASSUME Bad # {} PROVE FALSE
  OBVIOUS
<1>2. PICK m \in Bad : \A j \in Bad : m <= j
  <2> Bad \in SUBSET Nat
    OBVIOUS
  <2> HIDE DEF Bad
  <2> QED BY <1>1, Least
<1>3. m \in 0..n /\ ~(Shifted(w, m) <= Shifted(v, m))
  BY <1>2
<1>4. m # 0
  BY <1>0, <1>3, ShiftedSteps
<1>5. m - 1 \in 0..n /\ m - 1 \in Nat /\ (m - 1) + 1 = m /\ m - 1 \notin Bad
  BY <1>2, <1>3, <1>4
<1>6. /\ Shifted(w, m) = Shifted(w, m - 1) \div 256 /\ Shifted(v, m) = Shifted(v, m - 1) \div 256
      /\ Shifted(w, m - 1) \in Nat /\ Shifted(v, m - 1) \in Nat
  BY <1>0, <1>5, ShiftedSteps
<1>7. \A x \in Nat, y \in Nat : x <= y => x \div 256 <= y \div 256
  OBVIOUS
<1> QED BY <1>3, <1>5, <1>6, <1>7

LEMMA FitsWider ==
  ASSUME NEW v \in Nat, NEW n \in Nat, NEW m \in Nat, n <= m, Fits(v, n)
  PROVE  Fits(v, m)
<1> DEFINE Bad == {k \in Nat : n <= k /\ ~Fits(v, k)}
<1>1. SUFFICES ASSUME Bad # {} PROVE FALSE
  OBVIOUS
<1>2. PICK k \in Bad : \A j \in Bad : k <= j
  <2> Bad \in SUBSET Nat
    OBVIOUS
  <2> HIDE DEF Bad
  <2> QED BY <1>1, Least
<1>3. k \in Nat /\ n <= k /\ k # n /\ ~Fits(v, k)
  BY <1>2
<1>4. k - 1 \in Nat /\ n <= k - 1 /\ (k - 1) + 1 = k /\ k - 1 \notin Bad
  BY <1>2, <1>3
<1>5. Shifted(v, k - 1) = 0 /\ Shifted(v, k) = Shifted(v, k - 1) \div 256
  BY <1>4, ShiftedSteps DEF Fits
<1>6. Shifted(v, k) = 0
  BY <1>5
<1> QED BY <1>3, <1>6 DEF Fits

LEMMA FitsSmaller ==
  ASSUME NEW v \in Nat, NEW w \in 0..v, NEW n \in Nat, Fits(v, n)
  PROVE  Fits(w, n)
<1>1. w \in Nat
  OBVIOUS
<1>2. Shifted(w, n) <= Shifted(v, n) /\ Shifted(w, n) \in Nat
  BY <1>1, ShiftedMonotone, ShiftedSteps
<1> QED BY <1>2 DEF Fits

LEMMA ThreeBytes == ASSUME NEW v \in Nat, v < 256 * (256 * 256) PROVE Fits(v, 3)
<1>1. v \in Nat /\ 0 \in Nat /\ 1 \in Nat /\ 2 \in Nat /\ 0 + 1 = 1 /\ 1 + 1 = 2 /\ 2 + 1 = 3
  OBVIOUS
<1>2. Shifted(v, 0) = v /\ Shifted(v, 1) = Shifted(v, 0) \div 256
  BY <1>1, ShiftedSteps
<1>3. Shifted(v, 2) = Shifted(v, 1) \div 256
  BY <1>1, ShiftedSteps
<1>4. Shifted(v, 3) = Shifted(v, 2) \div 256
  BY <1>1, ShiftedSteps
<1>5. ((v \div 256) \div 256) \div 256 = 0
  BY SMTT(30)
<1> QED BY <1>2, <1>3, <1>4, <1>5 DEF Fits

-----------------------------------------------------------------------------
(* Byte strings, and the numbers they stand for. *)
Byte == 0..255
Bytes == Seq(Byte)

LEMMA BytesFacts ==
  ASSUME NEW b \in Bytes
  PROVE  Len(b) \in Nat /\ \A i \in 1..Len(b) : b[i] \in 0..255
<1>1. Len(b) \in Nat /\ \A i \in 1..Len(b) : b[i] \in Byte
  BY LenProperties DEF Bytes
<1> QED BY <1>1 DEF Byte

LEMMA SameBytes ==
  ASSUME NEW a \in Bytes, NEW b \in Bytes, Len(a) = Len(b), \A i \in 1..Len(a) : a[i] = b[i]
  PROVE  a = b
BY SeqEqual DEF Bytes

LEMMA Joined ==
  ASSUME NEW a \in Bytes, NEW b \in Bytes
  PROVE  /\ a \o b \in Bytes /\ Len(a \o b) = Len(a) + Len(b)
         /\ \A i \in 1..Len(a) : (a \o b)[i] = a[i]
         /\ \A i \in 1..Len(b) : (a \o b)[Len(a) + i] = b[i]
<1> DEFINE c == a \o b
           m == Len(a)
           n == Len(b)
<1>1. m \in Nat /\ n \in Nat
  BY BytesFacts
<1>2. /\ c \in Bytes /\ Len(c) = m + n
      /\ \A i \in 1..(m + n) : c[i] = IF i <= m THEN a[i] ELSE b[i - m]
  <2>1. a \in Seq(Byte) /\ b \in Seq(Byte)
    BY DEF Bytes
  <2> QED BY <2>1, ConcatProperties DEF Bytes
<1> HIDE DEF c, m, n
<1>3. \A i \in 1..m : i \in 1..(m + n) /\ i <= m
  BY <1>1
<1>4. \A i \in 1..n : m + i \in 1..(m + n) /\ ~(m + i <= m) /\ (m + i) - m = i
  BY <1>1
<1>5. \A i \in 1..n : c[m + i] = b[i]
  BY <1>2, <1>4
<1> QED BY <1>2, <1>3, <1>5 DEF c, m, n

(* The numbers of the prefixes of a byte string. *)
PrefixValues(f, b) ==
  f[0] = 0 /\ \A i \in 1..Len(b) : f[i] = 256 * f[i-1] + b[i]

LEMMA ValueTable ==
  ASSUME NEW b \in Bytes
  PROVE  \E f \in [0..Len(b) -> Nat] : PrefixValues(f, b) /\ ValueOf(b) = f[Len(b)]
<1> DEFINE n == Len(b)
           step == [i \in 1..n |-> [x \in Nat |-> 256 * x + b[i]]]
           chosen == CHOOSE f :
             f = [i \in 0..n |-> IF i = 0 THEN 0 ELSE 256 * f[i-1] + b[i]]
<1>1. n \in Nat /\ \A i \in 1..n : b[i] \in 0..255
  BY BytesFacts
<1>2. ValueOf(b) = chosen[n]
  BY DEF ValueOf
<1> HIDE DEF n, chosen
<1>3. \A i \in 1..n : \A x \in Nat : step[i][x] = 256 * x + b[i] /\ step[i][x] \in Nat
  <2> SUFFICES ASSUME NEW i \in 1..n, NEW x \in Nat PROVE 256 * x + b[i] \in Nat
    OBVIOUS
  <2>1. b[i] \in 0..255
    BY <1>1
  <2>2. \A y \in 0..255 : 256 * x + y \in Nat
    OBVIOUS
  <2> QED BY <2>1, <2>2, Zenon
<1> HIDE DEF step
<1>4. PICK f \in [0..n -> Nat] : f[0] = 0 /\ \A i \in 1..n : f[i] = 256 * f[i-1] + b[i]
  <2>1. PICK f \in Tables(n, Nat) : Fills(f, n, 0, step)
    <3>1. 0 \in Nat
      OBVIOUS
    <3> QED BY <1>1, <1>3, <3>1, TableExists
  <2>2. f \in [0..n -> Nat] /\ f[0] = 0 /\ \A i \in 1..n : f[i] = step[i][f[i-1]]
    BY <2>1 DEF Tables, Fills
  <2>3. \A i \in 1..n : f[i-1] \in Nat
    BY <1>1, <2>2
  <2>4. \A i \in 1..n : f[i] = 256 * f[i-1] + b[i]
    BY <1>3, <2>2, <2>3
  <2> QED BY <2>2, <2>4
<1>5. f = [i \in 0..n |-> IF i = 0 THEN 0 ELSE 256 * f[i-1] + b[i]]
  <2>1. \A i \in 0..n : f[i] = IF i = 0 THEN 0 ELSE 256 * f[i-1] + b[i]
    BY <1>1, <1>4
  <2> QED BY <1>4, <2>1
<1>6. chosen = [i \in 0..n |-> IF i = 0 THEN 0 ELSE 256 * chosen[i-1] + b[i]]
  BY <1>5 DEF chosen
<1>7. \A i \in 0..n : chosen[i] = IF i = 0 THEN 0 ELSE 256 * chosen[i-1] + b[i]
  BY <1>6
<1>8. chosen \in [0..n -> Nat] /\ PrefixValues(chosen, b)
  <2>1. \A i \in 0..n : chosen[i] = f[i]
    <3> DEFINE Bad == {i \in 0..n : chosen[i] # f[i]}
    <3>1. SUFFICES ASSUME Bad # {} PROVE FALSE
      OBVIOUS
    <3>2. PICK m \in Bad : \A j \in Bad : m <= j
      <4> Bad \in SUBSET Nat
        OBVIOUS
      <4> HIDE DEF Bad
      <4> QED BY <3>1, Least
    <3>3. m \in 0..n /\ chosen[m] # f[m] /\ m # 0
      BY <1>1, <1>4, <1>7, <3>2
    <3>4. m \in 1..n /\ m - 1 \in 0..n /\ m - 1 \notin Bad
      BY <1>1, <3>2, <3>3
    <3> QED BY <1>4, <1>7, <3>3, <3>4
  <2>2. chosen = f
    BY <1>4, <1>6, <2>1
  <2> QED BY <1>4, <2>2 DEF PrefixValues, n
<1> QED BY <1>2, <1>8 DEF n

(* Leading zeros do not count. *)
LEMMA LeadingZeros ==
  ASSUME NEW a \in Bytes, NEW b \in Bytes, NEW k \in Nat, Len(b) = k + Len(a),
         \A i \in 1..k : b[i] = 0, \A i \in 1..Len(a) : a[i] = b[k + i]
  PROVE  ValueOf(a) = ValueOf(b)
<1> DEFINE n == Len(a)
<1>1. n \in Nat /\ Len(b) = k + n
  BY BytesFacts
<1>2. PICK f \in [0..n -> Nat] : PrefixValues(f, a) /\ ValueOf(a) = f[n]
  BY ValueTable
<1>3. PICK g \in [0..(k+n) -> Nat] : PrefixValues(g, b) /\ ValueOf(b) = g[k+n]
  BY <1>1, ValueTable
<1>4. f[0] = 0 /\ \A i \in 1..n : f[i] = 256 * f[i-1] + a[i]
  BY <1>2 DEF PrefixValues
<1>5. g[0] = 0 /\ \A i \in 1..(k+n) : g[i] = 256 * g[i-1] + b[i]
  BY <1>1, <1>3 DEF PrefixValues
<1>6. \A i \in 1..n : a[i] = b[k+i]
  OBVIOUS
<1> HIDE DEF n
<1>7. \A i \in 0..k : g[i] = 0
  <2> DEFINE Bad == {i \in 0..k : g[i] # 0}
  <2>1. SUFFICES ASSUME Bad # {} PROVE FALSE
    OBVIOUS
  <2>2. PICK m \in Bad : \A j \in Bad : m <= j
    <3> Bad \in SUBSET Nat
      OBVIOUS
    <3> HIDE DEF Bad
    <3> QED BY <2>1, Least
  <2>3. m \in 0..k /\ g[m] # 0 /\ m # 0
    BY <1>5, <2>2
  <2>4. m \in 1..k /\ m \in 1..(k+n) /\ m - 1 \in 0..k /\ m - 1 \notin Bad
    BY <1>1, <2>2, <2>3
  <2>5. g[m-1] = 0 /\ b[m] = 0 /\ g[m] = 256 * g[m-1] + b[m]
    BY <1>5, <2>4
  <2> QED BY <2>3, <2>5
<1>8. \A i \in 0..n : g[k+i] = f[i]
  <2> DEFINE Bad == {i \in 0..n : g[k+i] # f[i]}
  <2>1. SUFFICES ASSUME Bad # {} PROVE FALSE
    OBVIOUS
  <2>2. PICK m \in Bad : \A j \in Bad : m <= j
    <3> Bad \in SUBSET Nat
      OBVIOUS
    <3> HIDE DEF Bad
    <3> QED BY <2>1, Least
  <2>3. m \in 0..n /\ g[k+m] # f[m]
    BY <2>2
  <2>3a. m # 0
    <3> SUFFICES ASSUME m = 0 PROVE FALSE
      OBVIOUS
    <3>1. k + m = k /\ k \in 0..k
      OBVIOUS
    <3> QED BY <1>4, <1>7, <2>3, <3>1
  <2>4. /\ m \in 1..n /\ k + m \in 1..(k+n) /\ (k + m) - 1 = k + (m - 1)
        /\ m - 1 \in 0..n /\ m - 1 \notin Bad
    BY <1>1, <2>2, <2>3, <2>3a
  <2>5. g[k + (m-1)] = f[m-1]
    BY <2>4
  <2> HIDE DEF Bad
  <2>6. g[k+m] = 256 * g[k + (m-1)] + b[k+m]
    BY <1>5, <2>4
  <2>7. f[m] = 256 * f[m-1] + a[m] /\ a[m] = b[k+m]
    BY <1>4, <1>6, <2>4
  <2> QED BY <2>3, <2>5, <2>6, <2>7
<1>9. n \in 0..n
  BY <1>1
<1> QED BY <1>2, <1>3, <1>8, <1>9

(* The bytes of a number stand for that number. *)
LEMMA BigEndianBytes ==
  ASSUME NEW v \in Nat, NEW n \in Nat
  PROVE  /\ BigEndian(v, n) \in Bytes /\ Len(BigEndian(v, n)) = n
         /\ BigEndian(v, n) \in ByteStrings(n)
         /\ \A k \in 1..n : BigEndian(v, n)[k] = Shifted(v, n - k) % 256
<1>1. BigEndian(v, n) = [k \in 1..n |-> Shifted(v, n - k) % 256]
  BY DEF BigEndian
<1>2. ASSUME NEW k \in 1..n PROVE Shifted(v, n - k) % 256 \in 0..255
  <2>1. n - k \in Nat
    BY <1>2
  <2> QED BY <2>1, ShiftedSteps
<1>3. BigEndian(v, n) \in [1..n -> 0..255]
  BY <1>1, <1>2
<1>4. BigEndian(v, n) \in Seq(0..255)
  BY <1>3, IsASeq
<1>5. Len(BigEndian(v, n)) = n
  BY <1>1, <1>4, LenProperties
<1> QED BY <1>1, <1>3, <1>4, <1>5 DEF Bytes, Byte, ByteStrings

LEMMA BigEndianValue ==
  ASSUME NEW v \in Nat, NEW n \in Nat, Fits(v, n)
  PROVE  ValueOf(BigEndian(v, n)) = v
<1> DEFINE b == BigEndian(v, n)
<1>1. b \in Bytes /\ Len(b) = n /\ \A k \in 1..n : b[k] = Shifted(v, n - k) % 256
  BY BigEndianBytes
<1> HIDE DEF b
<1>2. PICK f \in [0..n -> Nat] : PrefixValues(f, b) /\ ValueOf(b) = f[n]
  BY <1>1, ValueTable
<1>3. f[0] = 0 /\ \A i \in 1..n : f[i] = 256 * f[i-1] + b[i]
  BY <1>1, <1>2 DEF PrefixValues
<1>4. \A i \in 0..n : f[i] = Shifted(v, n - i)
  <2> DEFINE Bad == {i \in 0..n : f[i] # Shifted(v, n - i)}
  <2>1. SUFFICES ASSUME Bad # {} PROVE FALSE
    OBVIOUS
  <2>2. PICK m \in Bad : \A j \in Bad : m <= j
    <3> Bad \in SUBSET Nat
      OBVIOUS
    <3> HIDE DEF Bad
    <3> QED BY <2>1, Least
  <2>3. m \in 0..n /\ f[m] # Shifted(v, n - m)
    BY <2>2
  <2>3a. m # 0
    <3> SUFFICES ASSUME m = 0 PROVE FALSE
      OBVIOUS
    <3>1. n - m = n
      OBVIOUS
    <3> QED BY <1>3, <2>3, <3>1 DEF Fits
  <2>4. /\ m \in 1..n /\ n - m \in Nat /\ n - (m - 1) = (n - m) + 1
        /\ m - 1 \in 0..n /\ m - 1 \notin Bad
    BY <2>2, <2>3, <2>3a
  <2>5. f[m-1] = Shifted(v, (n - m) + 1)
    BY <2>4
  <2> HIDE DEF Bad
  <2> DEFINE q == Shifted(v, n - m)
  <2>6. q \in Nat /\ Shifted(v, (n - m) + 1) = q \div 256
    <3> DEFINE e == n - m
    <3>1. e \in Nat
      BY <2>4
    <3> HIDE DEF e
    <3>2. Shifted(v, e) \in Nat /\ Shifted(v, e + 1) = Shifted(v, e) \div 256
      BY <3>1, ShiftedSteps, ZenonT(40)
    <3> QED BY <3>2 DEF e
  <2>7. f[m] = 256 * f[m-1] + b[m] /\ b[m] = q % 256
    BY <1>1, <1>3, <2>4
  <2>8. f[m] = 256 * (q \div 256) + (q % 256)
    BY <2>5, <2>6, <2>7
  <2> HIDE DEF q
  <2>9. 256 * (q \div 256) + (q % 256) = q
    BY <2>6
  <2> QED BY <2>3, <2>8, <2>9 DEF q
<1>5. n \in 0..n /\ n - n = 0
  OBVIOUS
<1> QED BY <1>2, <1>4, <1>5, ShiftedSteps DEF b

LEMMA ZerosBytes ==
  ASSUME NEW n \in Nat
  PROVE  Zeros(n) \in Bytes /\ Len(Zeros(n)) = n /\ \A k \in 1..n : Zeros(n)[k] = 0
<1>1. Zeros(n) = [k \in 1..n |-> 0] /\ Zeros(n) \in [1..n -> 0..255]
  BY DEF Zeros
<1>2. Zeros(n) \in Seq(0..255)
  BY <1>1, IsASeq
<1>3. Len(Zeros(n)) = n
  BY <1>1, <1>2, LenProperties
<1> QED BY <1>1, <1>2, <1>3 DEF Bytes, Byte

LEMMA StringsAreBytes ==
  ASSUME NEW n \in Nat, NEW b \in ByteStrings(n)
  PROVE  b \in Bytes /\ Len(b) = n
<1>1. b \in [1..n -> 0..255] /\ DOMAIN b = 1..n
  BY DEF ByteStrings
<1>2. b \in Seq(0..255)
  BY <1>1, IsASeq
<1>3. Len(b) = n
  BY <1>1, <1>2, LenProperties
<1> QED BY <1>2, <1>3 DEF Bytes, Byte

-----------------------------------------------------------------------------
(* The output of minimal_be after the first i bytes: these bytes without    *)
(* the k leading zeros.                                                     *)
StrippedTo(x, raw, i, k) ==
  /\ x \in Bytes /\ k \in 0..i /\ Len(x) = i - k
  /\ \A j \in 1..k : raw[j] = 0
  /\ \A j \in 1..(i - k) : x[j] = raw[k + j]
  /\ k < i => raw[k + 1] # 0

LEMMA StripOne ==
  ASSUME NEW raw \in Bytes, NEW i \in 1..Len(raw), NEW k, NEW x, StrippedTo(x, raw, i - 1, k)
  PROVE  \E l \in 0..i :
           StrippedTo(IF raw[i] # 0 \/ x # << >> THEN Append(x, raw[i]) ELSE x, raw, i, l)
<1>1. Len(raw) \in Nat /\ raw[i] \in 0..255 /\ i \in Nat
  BY BytesFacts
<1>2. /\ x \in Bytes /\ k \in 0..(i-1) /\ Len(x) = (i-1) - k
      /\ \A j \in 1..k : raw[j] = 0
      /\ \A j \in 1..((i-1) - k) : x[j] = raw[k + j]
      /\ k < i - 1 => raw[k + 1] # 0
  BY DEF StrippedTo
<1>3. x = << >> <=> k = i - 1
  <2>1. x = << >> <=> Len(x) = 0
    BY <1>2, EmptySeq DEF Bytes
  <2> QED BY <1>1, <1>2, <2>1
<1>4. CASE raw[i] # 0 \/ x # << >>
  <2> DEFINE y == Append(x, raw[i])
  <2>1. y \in Bytes /\ Len(y) = Len(x) + 1 /\ (\A j \in 1..Len(x) : y[j] = x[j])
        /\ y[Len(x) + 1] = raw[i]
    <3>1. x \in Seq(0..255)
      BY <1>2 DEF Bytes, Byte
    <3> QED BY <1>1, <3>1, AppendProperties DEF Bytes, Byte
  <2> HIDE DEF y
  <2>2. Len(y) = i - k /\ k \in 0..i /\ Len(x) = (i - 1) - k /\ Len(x) + 1 = i - k
    BY <1>1, <1>2, <2>1
  <2>3. ASSUME NEW j \in 1..(i - k) PROVE y[j] = raw[k + j]
    <3>1. CASE j = i - k
      <4>1. k + j = i
        BY <1>1, <1>2, <3>1
      <4> QED BY <2>1, <2>2, <3>1, <4>1
    <3>2. CASE j # i - k
      <4>1. j \in 1..((i-1) - k) /\ j \in 1..Len(x)
        BY <1>1, <1>2, <2>3, <3>2
      <4> QED BY <1>2, <2>1, <4>1
    <3> QED BY <3>1, <3>2
  <2>4. raw[k + 1] # 0
    <3>1. CASE k = i - 1
      <4>1. k + 1 = i /\ raw[i] # 0
        BY <1>1, <1>3, <1>4, <3>1
      <4> QED BY <4>1
    <3>2. CASE k # i - 1
      <4>1. k < i - 1
        BY <1>1, <1>2, <3>2
      <4> QED BY <1>2, <4>1
    <3> QED BY <3>1, <3>2
  <2>5. StrippedTo(y, raw, i, k)
    BY <1>2, <2>1, <2>2, <2>3, <2>4 DEF StrippedTo
  <2>6. (IF raw[i] # 0 \/ x # << >> THEN Append(x, raw[i]) ELSE x) = y
    BY <1>4 DEF y
  <2> QED BY <2>2, <2>5, <2>6
<1>5. CASE ~(raw[i] # 0 \/ x # << >>)
  <2>1. k = i - 1 /\ raw[i] = 0 /\ Len(x) = 0 /\ i - i = 0 /\ i \in 0..i
    BY <1>1, <1>2, <1>3, <1>5
  <2>2. \A j \in 1..i : j = i \/ j \in 1..k
    BY <1>1, <2>1
  <2>3. \A j \in 1..i : raw[j] = 0
    BY <1>2, <2>1, <2>2
  <2>4. StrippedTo(x, raw, i, i)
    BY <1>1, <1>2, <2>1, <2>3 DEF StrippedTo
  <2> QED BY <1>5, <2>1, <2>4
<1> QED BY <1>4, <1>5

(* minimal_be drops the leading zeros and nothing else. *)
LEMMA MinimalBytes ==
  ASSUME NEW raw \in Bytes
  PROVE  \E k \in 0..Len(raw) : StrippedTo(minimal_be(raw), raw, Len(raw), k)
<1> DEFINE n == Len(raw)
           Next1(x, i) == IF raw[i] # 0 \/ x # << >> THEN Append(x, raw[i]) ELSE x
           step == [i \in 1..n |-> [x \in Bytes |-> Next1(x, i)]]
           chosen == CHOOSE f : f = [i \in 0..n |-> IF i = 0 THEN << >> ELSE Next1(f[i-1], i)]
<1>1. n \in Nat /\ \A i \in 1..n : raw[i] \in 0..255
  BY BytesFacts
<1>2. minimal_be(raw) = chosen[n]
  BY DEF minimal_be
<1>3. ASSUME NEW i \in 1..n, NEW x \in Bytes PROVE Next1(x, i) \in Bytes
  <2>1. x \in Seq(0..255) /\ raw[i] \in 0..255
    BY <1>1 DEF Bytes, Byte
  <2>2. Append(x, raw[i]) \in Bytes
    BY <2>1, AppendProperties DEF Bytes, Byte
  <2> QED BY <2>2
<1> HIDE DEF n, chosen, Next1
<1>4. \A i \in 1..n : \A x \in Bytes : step[i][x] = Next1(x, i) /\ step[i][x] \in Bytes
  BY <1>3
<1> HIDE DEF step
<1>5. PICK f \in [0..n -> Bytes] : f[0] = << >> /\ \A i \in 1..n : f[i] = Next1(f[i-1], i)
  <2>1. << >> \in Bytes
    BY DEF Bytes
  <2>2. PICK f \in Tables(n, Bytes) : Fills(f, n, << >>, step)
    BY <1>1, <1>4, <2>1, TableExists
  <2>3. f \in [0..n -> Bytes] /\ f[0] = << >> /\ \A i \in 1..n : f[i] = step[i][f[i-1]]
    BY <2>2 DEF Tables, Fills
  <2>4. \A i \in 1..n : f[i-1] \in Bytes
    BY <1>1, <2>3
  <2>5. \A i \in 1..n : f[i] = Next1(f[i-1], i)
    BY <1>4, <2>3, <2>4
  <2> QED BY <2>3, <2>5
<1>6. f = [i \in 0..n |-> IF i = 0 THEN << >> ELSE Next1(f[i-1], i)]
  <2>1. \A i \in 0..n : f[i] = IF i = 0 THEN << >> ELSE Next1(f[i-1], i)
    BY <1>1, <1>5
  <2> QED BY <1>5, <2>1
<1>7. chosen = [i \in 0..n |-> IF i = 0 THEN << >> ELSE Next1(chosen[i-1], i)]
  BY <1>6 DEF chosen
<1>8. chosen[0] = << >> /\ \A i \in 1..n : chosen[i] = Next1(chosen[i-1], i)
  BY <1>1, <1>7
<1>9. \A i \in 0..n : \E k \in 0..i : StrippedTo(chosen[i], raw, i, k)
  <2> DEFINE Bad == {i \in 0..n : ~\E k \in 0..i : StrippedTo(chosen[i], raw, i, k)}
  <2>1. SUFFICES ASSUME Bad # {} PROVE FALSE
    OBVIOUS
  <2>2. PICK m \in Bad : \A j \in Bad : m <= j
    <3> Bad \in SUBSET Nat
      OBVIOUS
    <3> HIDE DEF Bad
    <3> QED BY <2>1, Least
  <2>3. m \in 0..n /\ ~\E k \in 0..m : StrippedTo(chosen[m], raw, m, k)
    BY <2>2
  <2>4. m # 0
    <3>1. StrippedTo(<< >>, raw, 0, 0)
      BY DEF StrippedTo, Bytes
    <3>2. 0 \in 0..0
      OBVIOUS
    <3> QED BY <1>8, <2>3, <3>1, <3>2
  <2>5. m \in 1..n /\ m - 1 \in 0..n /\ ~(m <= m - 1)
    BY <1>1, <2>3, <2>4
  <2>6. \E k \in 0..(m-1) : StrippedTo(chosen[m-1], raw, m - 1, k)
    <3>1. m - 1 \notin Bad
      BY <2>2, <2>5
    <3> QED BY <2>5, <3>1
  <2> HIDE DEF Bad
  <2>7. PICK k \in 0..(m-1) : StrippedTo(chosen[m-1], raw, m - 1, k)
    BY <2>6
  <2>8. chosen[m] = Next1(chosen[m-1], m)
    BY <1>8, <2>5
  <2>9. m \in 1..Len(raw)
    BY <2>5 DEF n
  <2>10. \E l \in 0..m : StrippedTo(Next1(chosen[m-1], m), raw, m, l)
    BY <2>7, <2>9, StripOne DEF Next1
  <2> QED BY <2>3, <2>8, <2>10
<1>10. n \in 0..n
  BY <1>1
<1> QED BY <1>2, <1>9, <1>10 DEF n

(* What a reader of the shortened scalar needs. *)
LEMMA MinimalIsScalar ==
  ASSUME NEW raw \in Bytes
  PROVE  /\ minimal_be(raw) \in Bytes /\ Len(minimal_be(raw)) <= Len(raw)
         /\ IsScalar(minimal_be(raw), raw) /\ ValueOf(minimal_be(raw)) = ValueOf(raw)
<1> DEFINE m == minimal_be(raw)
           n == Len(raw)
<1>1. PICK k \in 0..n : StrippedTo(m, raw, n, k)
  BY MinimalBytes
<1>2. n \in Nat
  BY BytesFacts
<1> HIDE DEF m
<1>3. /\ m \in Bytes /\ k \in Nat /\ Len(m) = n - k /\ n = k + Len(m) /\ n - Len(m) = k
      /\ (\A i \in 1..k : raw[i] = 0) /\ Len(m) \in Nat
  BY <1>1, <1>2 DEF StrippedTo
<1>4. \A i \in 1..Len(m) : m[i] = raw[k + i]
  BY <1>1, <1>3 DEF StrippedTo
<1>5. ValueOf(m) = ValueOf(raw)
  BY <1>3, <1>4, LeadingZeros
<1>6. m # << >> => m[1] # 0
  <2> SUFFICES ASSUME m # << >> PROVE m[1] # 0
    OBVIOUS
  <2>1. Len(m) # 0
    BY <1>3, EmptySeq DEF Bytes
  <2>2. k < n /\ 1 \in 1..Len(m) /\ raw[k+1] # 0
    BY <1>1, <1>2, <1>3, <2>1 DEF StrippedTo
  <2> QED BY <1>4, <2>2
<1>7. Zeros(n - Len(m)) \o m = raw
  <2> DEFINE z == Zeros(k)
             c == z \o m
  <2>1. z \in Bytes /\ Len(z) = k /\ \A i \in 1..k : z[i] = 0
    BY <1>3, ZerosBytes
  <2> HIDE DEF z
  <2>2. /\ c \in Bytes /\ Len(c) = k + Len(m)
        /\ \A i \in 1..k : c[i] = z[i]
        /\ \A i \in 1..Len(m) : c[k + i] = m[i]
    BY <1>3, <2>1, Joined
  <2> HIDE DEF c
  <2>3. ASSUME NEW i \in 1..n PROVE c[i] = raw[i]
    <3>1. CASE i <= k
      <4>1. i \in 1..k
        BY <1>3, <2>3, <3>1
      <4> QED BY <1>3, <2>1, <2>2, <3>1, <4>1
    <3>2. CASE ~(i <= k)
      <4>1. i - k \in 1..Len(m) /\ k + (i - k) = i
        BY <1>2, <1>3, <2>3, <3>2
      <4>2. m[i - k] = raw[k + (i - k)]
        BY <1>4, <4>1
      <4> QED BY <2>2, <3>2, <4>1, <4>2
    <3> QED BY <3>1, <3>2
  <2>4. c = raw
    BY <1>3, <2>2, <2>3, SameBytes
  <2> QED BY <1>3, <2>4 DEF c, z
<1>8. IsScalar(m, raw)
  <2>1. Len(m) <= Len(raw)
    BY <1>2, <1>3 DEF n
  <2> QED BY <1>6, <1>7, <2>1 DEF IsScalar, n
<1> QED BY <1>2, <1>3, <1>5, <1>8 DEF m

LEMMA MinimalOfZero == ASSUME NEW n \in Nat PROVE minimal_be(Zeros(n)) = << >>
<1> DEFINE z == Zeros(n)
           m == minimal_be(z)
<1>1. z \in Bytes /\ Len(z) = n /\ \A i \in 1..n : z[i] = 0
  BY ZerosBytes
<1> HIDE DEF z
<1>2. PICK k \in 0..n : StrippedTo(m, z, n, k)
  BY <1>1, MinimalBytes
<1> HIDE DEF m
<1>3. ~(k < n)
  <2> SUFFICES ASSUME k < n PROVE FALSE
    OBVIOUS
  <2>1. k + 1 \in 1..n
    OBVIOUS
  <2> QED BY <1>1, <1>2, <2>1 DEF StrippedTo
<1>4. m \in Bytes /\ Len(m) = 0
  BY <1>2, <1>3 DEF StrippedTo
<1> QED BY <1>4, EmptySeq DEF Bytes, m, z

-----------------------------------------------------------------------------
(* RLP items.  HoldsAt: the bytes v stand in b after its first o bytes.     *)
(* v stands in b after the first o bytes. *)
HoldsAt(b, o, v) == o + Len(v) <= Len(b) /\ \A i \in 1..Len(v) : b[o + i] = v[i]

LEMMA HoldsWhole == ASSUME NEW b \in Bytes PROVE HoldsAt(b, 0, b)
<1>1. Len(b) \in Nat
  BY BytesFacts
<1>2. \A i \in 1..Len(b) : 0 + i = i
  OBVIOUS
<1> QED BY <1>1, <1>2 DEF HoldsAt

LEMMA HoldsParts ==
  ASSUME NEW b \in Bytes, NEW o \in Nat, NEW u \in Bytes, NEW v \in Bytes, HoldsAt(b, o, u \o v)
  PROVE  HoldsAt(b, o, u) /\ HoldsAt(b, o + Len(u), v)
<1> DEFINE c == u \o v
           m == Len(u)
           n == Len(v)
<1>1. m \in Nat /\ n \in Nat /\ Len(b) \in Nat
  BY BytesFacts
<1>2. /\ Len(c) = m + n /\ (\A i \in 1..m : c[i] = u[i])
      /\ \A i \in 1..n : c[m + i] = v[i]
  BY Joined
<1>3. o + Len(c) <= Len(b) /\ \A i \in 1..Len(c) : b[o + i] = c[i]
  BY DEF HoldsAt
<1> HIDE DEF c, m, n
<1>4. \A i \in 1..m : i \in 1..Len(c)
  BY <1>1, <1>2
<1>5. \A i \in 1..n : m + i \in 1..Len(c) /\ o + (m + i) = (o + m) + i
  BY <1>1, <1>2
<1>6. o + m <= Len(b) /\ (o + m) + n <= Len(b)
  BY <1>1, <1>2, <1>3
<1>7. \A i \in 1..m : b[o + i] = u[i]
  BY <1>2, <1>3, <1>4
<1>8. \A i \in 1..n : b[(o + m) + i] = v[i]
  BY <1>2, <1>3, <1>5
<1> QED BY <1>6, <1>7, <1>8 DEF HoldsAt, m, n

LEMMA HoldsSlice ==
  ASSUME NEW b \in Bytes, NEW o \in Nat, NEW v \in Bytes, HoldsAt(b, o, v)
  PROVE  SubSeq(b, o + 1, o + Len(v)) = v /\ Slice(b, o + 1, Len(v)) = v
<1> DEFINE n == Len(v)
           s == SubSeq(b, o + 1, o + n)
<1>1. n \in Nat /\ Len(b) \in Nat /\ o + n <= Len(b) /\ \A i \in 1..n : b[o + i] = v[i]
  BY BytesFacts DEF HoldsAt
<1> HIDE DEF n
<1>2. o + 1 \in Int /\ o + n \in Int /\ \A i \in (o + 1)..(o + n) : b[i] \in Byte
  <2>1. \A i \in (o + 1)..(o + n) : i \in 1..Len(b)
    BY <1>1
  <2> QED BY <1>1, <2>1, BytesFacts DEF Byte
<1>3. /\ s \in Seq(Byte) /\ Len(s) = IF o + 1 <= o + n THEN (o + n) - (o + 1) + 1 ELSE 0
      /\ \A i \in 1..((o + n) - (o + 1) + 1) : s[i] = b[(o + 1) + i - 1]
  BY <1>2, SubSeqProperties
<1> HIDE DEF s
<1>4. s \in Bytes /\ Len(s) = n
  BY <1>1, <1>3 DEF Bytes
<1>5. \A i \in 1..n : i \in 1..((o + n) - (o + 1) + 1) /\ (o + 1) + i - 1 = o + i
  BY <1>1
<1>6. \A i \in 1..n : s[i] = v[i]
  BY <1>1, <1>3, <1>5
<1>7. s = v
  BY <1>4, <1>6, SameBytes DEF n
<1>8. (o + 1) + n - 1 = o + n
  BY <1>1
<1>9. Slice(b, o + 1, n) = s
  BY <1>8 DEF Slice, s
<1> QED BY <1>7, <1>9 DEF s, n
-----------------------------------------------------------------------------
(* The length prefixes: a short one is a byte, a long one says how many     *)
(* bytes the length has.                                                    *)
LEMMA LengthBytes ==
  ASSUME NEW length \in Nat, Fits(length, 8), length > 55
  PROVE  /\ minimal_be(BigEndian(length, 8)) \in Bytes
         /\ Len(minimal_be(BigEndian(length, 8))) \in 1..8
         /\ ValueOf(minimal_be(BigEndian(length, 8))) = length
<1> DEFINE e == BigEndian(length, 8)
           m == minimal_be(e)
<1>1. e \in Bytes /\ Len(e) = 8 /\ ValueOf(e) = length
  BY BigEndianBytes, BigEndianValue
<1> HIDE DEF e
<1>2. m \in Bytes /\ Len(m) <= 8 /\ ValueOf(m) = length
  BY <1>1, MinimalIsScalar
<1>3. Len(m) \in Nat
  BY <1>2, BytesFacts
<1> HIDE DEF m
<1>4. Len(m) # 0
  <2> SUFFICES ASSUME Len(m) = 0 PROVE FALSE
    OBVIOUS
  <2>1. PICK f \in [0..0 -> Nat] : PrefixValues(f, m) /\ ValueOf(m) = f[0]
    BY <1>2, ValueTable
  <2>2. ValueOf(m) = 0
    BY <2>1 DEF PrefixValues
  <2> QED BY <1>2, <2>2
<1> DEFINE k == Len(m)
<1>5. k \in Nat /\ k <= 8 /\ k # 0
  BY <1>2, <1>3, <1>4
<1> HIDE DEF k
<1>6. k \in 1..8
  BY <1>5
<1> QED BY <1>2, <1>6 DEF k, m, e

LEMMA OneByte ==
  ASSUME NEW x \in 0..255
  PROVE  <<x>> \in Bytes /\ Len(<<x>>) = 1 /\ <<x>>[1] = x
BY DEF Bytes, Byte

LEMMA LongHead ==
  ASSUME NEW short \in {128, 192}, NEW k \in 1..8
  PROVE  (short + 55) + k \in 0..255
OBVIOUS

LEMMA PrefixBytes ==
  ASSUME NEW length \in Nat, Fits(length, 8), NEW short \in {128, 192}
  PROVE  /\ length_prefix(length, short, short + 55) \in Bytes
         /\ Len(length_prefix(length, short, short + 55)) \in 1..9
<1> DEFINE p == length_prefix(length, short, short + 55)
           m == minimal_be(BigEndian(length, 8))
<1>1. CASE length <= 55
  <2>1. p = <<short + length>> /\ short + length \in 0..255
    BY <1>1 DEF length_prefix
  <2>2. p \in Bytes /\ Len(p) = 1
    BY <2>1, OneByte
  <2> QED BY <2>2
<1>2. CASE ~(length <= 55)
  <2> DEFINE k == Len(m)
             h == (short + 55) + k
  <2>1. m \in Bytes /\ k \in 1..8
    BY <1>2, LengthBytes
  <2>2. p = <<h>> \o m
    BY <1>2 DEF length_prefix
  <2> HIDE DEF m, p, k
  <2>3. h \in 0..255
    BY <2>1, LongHead
  <2> HIDE DEF h
  <2>4. <<h>> \in Bytes /\ Len(<<h>>) = 1
    BY <2>3, OneByte
  <2>5. p \in Bytes /\ Len(p) = 1 + k
    BY <2>1, <2>2, <2>4, Joined, ZenonT(40) DEF k
  <2>6. 1 + k \in 1..9
    BY <2>1
  <2> QED BY <2>5, <2>6 DEF p
<1> QED BY <1>1, <1>2

(* Where a reader finds the payload of a prefix. *)
LEMMA PrefixReads ==
  ASSUME NEW b \in Bytes, NEW o \in Nat, NEW v \in Bytes, Fits(Len(v), 8),
         NEW short \in {128, 192},
         HoldsAt(b, o, length_prefix(Len(v), short, short + 55) \o v)
  PROVE  LET q == Len(length_prefix(Len(v), short, short + 55))
         IN  /\ RlpAt(b, o + 1) = [first |-> o + q + 1, last |-> o + q + Len(v)]
             /\ b[o + 1] >= short /\ HoldsAt(b, o + q, v)
<1> DEFINE n == Len(v)
           p == length_prefix(n, short, short + 55)
           m == minimal_be(BigEndian(n, 8))
           head == b[o + 1]
<1>1. n \in Nat /\ Fits(n, 8)
  BY BytesFacts
<1> HIDE DEF n
<1>2. p \in Bytes /\ Len(p) \in 1..9
  BY <1>1, PrefixBytes
<1>3. HoldsAt(b, o, p) /\ HoldsAt(b, o + Len(p), v)
  BY <1>2, HoldsParts DEF n
<1>4. CASE n <= 55
  <2>1. p = <<short + n>> /\ Len(p) = 1 /\ p[1] = short + n
    BY <1>4 DEF length_prefix
  <2>2. head = short + n
    <3>1. 1 \in 1..Len(p)
      BY <2>1
    <3> HIDE DEF p
    <3>2. b[o + 1] = p[1]
      BY <1>3, <3>1 DEF HoldsAt
    <3> QED BY <2>1, <3>2
  <2>3. RlpAt(b, o + 1) = [first |-> (o + 1) + 1, last |-> (o + 1) + head - short]
    <3>1. CASE short = 128
      <4>1. ~(head < 128) /\ head < 184
        BY <1>1, <1>4, <2>2, <3>1
      <4> QED BY <3>1, <4>1 DEF RlpAt
    <3>2. CASE short = 192
      <4>1. ~(head < 128) /\ ~(head < 184) /\ ~(head < 192) /\ head < 248
        BY <1>1, <1>4, <2>2, <3>2
      <4> QED BY <3>2, <4>1 DEF RlpAt
    <3> QED BY <3>1, <3>2
  <2>4. (o + 1) + head - short = o + 1 + n /\ head >= short
    BY <1>1, <2>2
  <2> HIDE DEF p, head
  <2> QED BY <1>3, <2>1, <2>3, <2>4 DEF p, n, head
<1>5. CASE ~(n <= 55)
  <2> DEFINE k == Len(m)
             h == (short + 55) + k
  <2>1. m \in Bytes /\ k \in 1..8 /\ ValueOf(m) = n
    BY <1>1, <1>5, LengthBytes
  <2>2. p = <<h>> \o m
    BY <1>5 DEF length_prefix
  <2> HIDE DEF p, m, k, h
  <2>3. h \in 0..255 /\ h = (short + 55) + k
    BY <2>1, LongHead DEF h
  <2>4. <<h>> \in Bytes /\ Len(<<h>>) = 1 /\ <<h>>[1] = h
    BY <2>3, OneByte, ZenonT(40)
  <2>5. Len(p) = 1 + k
    BY <2>1, <2>2, <2>4, Joined DEF k
  <2>6. HoldsAt(b, o, <<h>>) /\ HoldsAt(b, o + 1, m)
    <3> DEFINE u == <<h>>
    <3>1. HoldsAt(b, o, u \o m)
      BY <1>3, <2>2
    <3>2. u \in Bytes /\ Len(u) = 1
      BY <2>4
    <3> HIDE DEF u
    <3>3. HoldsAt(b, o, u) /\ HoldsAt(b, o + Len(u), m)
      <4>1. u \in Bytes /\ m \in Bytes
        BY <2>1, <3>2
      <4> QED BY <3>1, <4>1, HoldsParts
    <3> QED BY <3>2, <3>3 DEF u
  <2>7. head = h
    <3>1. 1 \in 1..Len(<<h>>)
      BY <2>4
    <3> QED BY <2>4, <2>6, <3>1 DEF HoldsAt
  <2>8. Slice(b, (o + 1) + 1, k) = m
    BY <2>1, <2>6, HoldsSlice DEF k
  <2> HIDE DEF head
  <2>9. head - (short + 55) = k
    BY <2>1, <2>3, <2>7
  <2>10. RlpAt(b, o + 1) = [first |-> (o + 1) + 1 + k, last |-> (o + 1) + k + n]
    <3>1. CASE short = 128
      <4>1. ~(head < 128) /\ ~(head < 184) /\ head < 192 /\ head - 183 = k
        BY <2>1, <2>3, <2>7, <3>1
      <4> QED BY <2>1, <2>8, <4>1 DEF RlpAt, head
    <3>2. CASE short = 192
      <4>1. ~(head < 128) /\ ~(head < 184) /\ ~(head < 192) /\ ~(head < 248) /\ head - 247 = k
        BY <2>1, <2>3, <2>7, <3>2
      <4> QED BY <2>1, <2>8, <4>1 DEF RlpAt, head
    <3> QED BY <3>1, <3>2
  <2>11. /\ (o + 1) + 1 + k = o + (1 + k) + 1 /\ (o + 1) + k + n = o + (1 + k) + n
         /\ head >= short
    BY <1>1, <2>1, <2>3, <2>7
  <2> QED BY <1>3, <2>5, <2>10, <2>11 DEF p, n, head
<1> QED BY <1>4, <1>5

(* An encoded byte string reads back as itself. *)
LEMMA EncodedBytes ==
  ASSUME NEW v \in Bytes, Fits(Len(v), 8)
  PROVE  /\ encode_bytes(v) \in Bytes
         /\ Len(encode_bytes(v)) >= 1
         /\ Len(encode_bytes(v)) \in Len(v)..(Len(v) + 9)
<1> DEFINE n == Len(v)
           p == length_prefix(n, 128, 128 + 55)
<1>1. n \in Nat /\ Fits(n, 8)
  BY BytesFacts
<1> HIDE DEF n
<1>2. p \in Bytes /\ Len(p) \in 1..9
  BY <1>1, PrefixBytes
<1>3. 128 + 55 = 183
  OBVIOUS
<1>4. CASE n = 1 /\ v[1] < 128
  <2>1. encode_bytes(v) = v
    BY <1>4 DEF encode_bytes, n
  <2> QED BY <1>4, <2>1 DEF n
<1>5. CASE ~(n = 1 /\ v[1] < 128)
  <2>1. encode_bytes(v) = p \o v
    BY <1>3, <1>5 DEF encode_bytes, n
  <2> HIDE DEF p
  <2>2. p \o v \in Bytes /\ Len(p \o v) = Len(p) + n
    BY <1>2, Joined DEF n
  <2>3. Len(p) + n >= 1 /\ Len(p) + n \in n..(n + 9)
    <3> DEFINE q == Len(p)
    <3>1. q \in 1..9
      BY <1>2
    <3> HIDE DEF q
    <3>2. q + n >= 1 /\ q + n \in n..(n + 9)
      BY <1>1, <3>1
    <3> QED BY <3>2 DEF q
  <2> QED BY <2>1, <2>2, <2>3 DEF n
<1> QED BY <1>4, <1>5

LEMMA ItemReads ==
  ASSUME NEW b \in Bytes, NEW o \in Nat, NEW v \in Bytes, Fits(Len(v), 8),
         HoldsAt(b, o, encode_bytes(v))
  PROVE  /\ RlpAt(b, o + 1).last = o + Len(encode_bytes(v))
         /\ SubSeq(b, RlpAt(b, o + 1).first, RlpAt(b, o + 1).last) = v
<1> DEFINE n == Len(v)
           p == length_prefix(n, 128, 128 + 55)
<1>1. n \in Nat /\ Fits(n, 8)
  BY BytesFacts
<1> HIDE DEF n
<1>2. p \in Bytes /\ Len(p) \in 1..9
  BY <1>1, PrefixBytes
<1>3. 128 + 55 = 183
  OBVIOUS
<1>4. CASE n = 1 /\ v[1] < 128
  <2>1. encode_bytes(v) = v
    BY <1>4 DEF encode_bytes, n
  <2>2. b[o + 1] = v[1]
    <3>1. \A i \in 1..n : b[o + i] = v[i]
      BY <2>1 DEF HoldsAt, n
    <3>2. 1 \in 1..n
      BY <1>4
    <3> QED BY <3>1, <3>2
  <2>3. RlpAt(b, o + 1) = [first |-> o + 1, last |-> o + 1]
    BY <1>4, <2>2 DEF RlpAt
  <2>4. SubSeq(b, o + 1, o + n) = v
    BY <2>1, HoldsSlice DEF n
  <2>5. RlpAt(b, o + 1).first = o + 1 /\ RlpAt(b, o + 1).last = o + 1
    BY <2>3
  <2>6. Len(encode_bytes(v)) = n /\ o + n = o + 1
    BY <1>4, <2>1 DEF n
  <2> QED BY <2>4, <2>5, <2>6
<1>5. CASE ~(n = 1 /\ v[1] < 128)
  <2>1. encode_bytes(v) = p \o v
    BY <1>3, <1>5 DEF encode_bytes, n
  <2>2. /\ RlpAt(b, o + 1) = [first |-> o + Len(p) + 1, last |-> o + Len(p) + n]
        /\ HoldsAt(b, o + Len(p), v)
    <3>1. HoldsAt(b, o, length_prefix(Len(v), 128, 128 + 55) \o v)
      BY <2>1 DEF n
    <3>2. 128 \in {128, 192}
      OBVIOUS
    <3>3. Fits(Len(v), 8)
      OBVIOUS
    <3>4. LET q == Len(length_prefix(Len(v), 128, 128 + 55))
          IN  /\ RlpAt(b, o + 1) = [first |-> o + q + 1, last |-> o + q + Len(v)]
              /\ b[o + 1] >= 128 /\ HoldsAt(b, o + q, v)
      BY ONLY <3>1, <3>2, <3>3, PrefixReads, b \in Bytes, o \in Nat, v \in Bytes, ZenonT(40)
    <3> QED BY <3>4 DEF n
  <2> HIDE DEF p
  <2>3. Len(p \o v) = Len(p) + n
    BY <1>2, Joined DEF n
  <2>4. o + Len(p) \in Nat /\ o + (Len(p) + n) = o + Len(p) + n
    BY <1>1, <1>2
  <2>5. SubSeq(b, o + Len(p) + 1, o + Len(p) + n) = v
    BY <2>2, <2>4, HoldsSlice DEF n
  <2> QED BY <2>1, <2>2, <2>3, <2>4, <2>5
<1> QED BY <1>4, <1>5

-----------------------------------------------------------------------------
(* The payload of a list, item by item. *)
LEMMA FlattenTable ==
  ASSUME NEW items \in Seq(Bytes), Len(items) # 0
  PROVE  \E g \in [0..Len(items) -> Bytes] :
           /\ g[0] = << >> /\ \A i \in 1..Len(items) : g[i] = g[i-1] \o items[i]
           /\ FlattenSeq(items) = g[Len(items)]
<1> DEFINE n == Len(items)
           step == [i \in 1..n |-> [x \in Bytes |-> x \o items[i]]]
           chosen == CHOOSE f :
             f = [i \in 1..n |-> IF i = 1 THEN items[i] ELSE f[i-1] \o items[i]]
<1>1. n \in Nat /\ n # 0 /\ \A i \in 1..n : items[i] \in Bytes
  BY LenProperties
<1>2. FlattenSeq(items) = chosen[n]
  BY DEF FlattenSeq
<1> HIDE DEF n, chosen
<1>3. \A i \in 1..n : \A x \in Bytes : step[i][x] = x \o items[i] /\ step[i][x] \in Bytes
  BY <1>1, Joined
<1> HIDE DEF step
<1>4. << >> \in Bytes
  BY DEF Bytes
<1>5. PICK g \in [0..n -> Bytes] : g[0] = << >> /\ \A i \in 1..n : g[i] = g[i-1] \o items[i]
  <2>1. PICK f \in Tables(n, Bytes) : Fills(f, n, << >>, step)
    BY <1>1, <1>3, <1>4, TableExists
  <2>2. f \in [0..n -> Bytes] /\ f[0] = << >> /\ \A i \in 1..n : f[i] = step[i][f[i-1]]
    BY <2>1 DEF Tables, Fills
  <2>3. \A i \in 1..n : f[i-1] \in Bytes
    BY <1>1, <2>2
  <2>4. \A i \in 1..n : f[i] = f[i-1] \o items[i]
    BY <1>3, <2>2, <2>3
  <2> QED BY <2>2, <2>4
<1> DEFINE h == [i \in 1..n |-> g[i]]
<1>6. h = [i \in 1..n |-> IF i = 1 THEN items[i] ELSE h[i-1] \o items[i]]
  <2>1. ASSUME NEW i \in 1..n PROVE g[i] = IF i = 1 THEN items[i] ELSE h[i-1] \o items[i]
    <3>1. CASE i = 1
      <4>1. g[1] = g[0] \o items[1] /\ items[1] \in Seq(Byte)
        <5>1. 1 \in 1..n /\ 1 - 1 = 0
          BY <1>1
        <5> QED BY <1>1, <1>5, <5>1 DEF Bytes
      <4>2. g[1] = items[1]
        BY <1>5, <4>1, ConcatEmptySeq
      <4> QED BY <3>1, <4>2
    <3>2. CASE i # 1
      <4>1. i - 1 \in 1..n
        BY <1>1, <2>1, <3>2
      <4> QED BY <1>5, <2>1, <3>2, <4>1
    <3> QED BY <3>1, <3>2
  <2> QED BY <2>1
<1>7. chosen = [i \in 1..n |-> IF i = 1 THEN items[i] ELSE chosen[i-1] \o items[i]]
  <2> HIDE DEF h
  <2> QED BY <1>6 DEF chosen
<1>8. \A i \in 1..n : chosen[i] = h[i]
  <2> HIDE DEF h
  <2> DEFINE Bad == {i \in 1..n : chosen[i] # h[i]}
  <2>1. SUFFICES ASSUME Bad # {} PROVE FALSE
    OBVIOUS
  <2>2. PICK m \in Bad : \A j \in Bad : m <= j
    <3> Bad \in SUBSET Nat
      OBVIOUS
    <3> HIDE DEF Bad
    <3> QED BY <2>1, Least
  <2>3. m \in 1..n /\ chosen[m] # h[m] /\ m # 1
    BY <1>6, <1>7, <2>2
  <2>4. m - 1 \in 1..n /\ m - 1 \notin Bad
    BY <1>1, <2>2, <2>3
  <2>5. chosen[m-1] = h[m-1]
    BY <2>4
  <2> HIDE DEF Bad
  <2>6. chosen[m] = chosen[m-1] \o items[m] /\ h[m] = h[m-1] \o items[m]
    BY <1>6, <1>7, <2>3
  <2> QED BY <2>3, <2>5, <2>6
<1>9. n \in 1..n
  BY <1>1
<1>10. FlattenSeq(items) = g[n]
  BY <1>2, <1>8, <1>9
<1> QED BY <1>5, <1>10 DEF n

(* Where the items of a payload stand. *)
Positions(pos, b, o, items) ==
  /\ pos[0] = o /\ pos[Len(items)] = o + Len(FlattenSeq(items))
  /\ \A i \in 1..Len(items) : /\ pos[i] = pos[i-1] + Len(items[i])
                              /\ HoldsAt(b, pos[i-1], items[i])

LEMMA ListHolds ==
  ASSUME NEW b \in Bytes, NEW o \in Nat, NEW items \in Seq(Bytes), Len(items) # 0,
         HoldsAt(b, o, FlattenSeq(items))
  PROVE  \E pos \in [0..Len(items) -> Nat] : Positions(pos, b, o, items)
<1> DEFINE n == Len(items)
<1>1. n \in Nat /\ n # 0 /\ \A i \in 1..n : items[i] \in Bytes
  BY LenProperties
<1>2. PICK g \in [0..n -> Bytes] : /\ g[0] = << >>
                                   /\ \A i \in 1..n : g[i] = g[i-1] \o items[i]
                                   /\ FlattenSeq(items) = g[n]
  BY FlattenTable
<1> HIDE DEF n
<1>3. \A i \in 0..n : HoldsAt(b, o, g[i])
  <2> DEFINE Bad == {k \in 0..n : ~HoldsAt(b, o, g[n - k])}
  <2>1. Bad = {}
    <3> SUFFICES ASSUME Bad # {} PROVE FALSE
      OBVIOUS
    <3>2. PICK m \in Bad : \A j \in Bad : m <= j
      <4> Bad \in SUBSET Nat
        OBVIOUS
      <4> HIDE DEF Bad
      <4> QED BY Least
    <3>3. m \in 0..n /\ ~HoldsAt(b, o, g[n - m])
      BY <3>2
    <3>4. m # 0
      <4> SUFFICES ASSUME m = 0 PROVE FALSE
        OBVIOUS
      <4>1. n - m = n
        BY <1>1
      <4> QED BY <1>2, <3>3, <4>1
    <3>5. /\ m - 1 \in 0..n /\ ~(m <= m - 1) /\ n - (m - 1) \in 1..n
          /\ (n - (m - 1)) - 1 = n - m /\ n - m \in 0..n
      BY <1>1, <3>3, <3>4
    <3>6. m - 1 \notin Bad
      BY <3>2, <3>5
    <3>7. HoldsAt(b, o, g[n - (m - 1)])
      BY <3>5, <3>6
    <3> HIDE DEF Bad
    <3>8. g[n - (m - 1)] = g[n - m] \o items[n - (m - 1)]
      BY <1>2, <3>5
    <3>9. g[n - m] \in Bytes /\ items[n - (m - 1)] \in Bytes
      BY <1>1, <1>2, <3>5
    <3>10. HoldsAt(b, o, g[n - m] \o items[n - (m - 1)])
      BY <3>7, <3>8
    <3>11. HoldsAt(b, o, g[n - m])
      BY <3>9, <3>10, HoldsParts
    <3> QED BY <3>3, <3>11
  <2>2. ASSUME NEW i \in 0..n PROVE HoldsAt(b, o, g[i])
    <3>1. n - i \in 0..n /\ n - (n - i) = i
      BY <1>1
    <3>2. n - i \notin Bad
      <4> HIDE DEF Bad
      <4> QED BY <2>1
    <3> QED BY <3>1, <3>2
  <2> QED BY <2>2
<1> DEFINE pos == [i \in 0..n |-> o + Len(g[i])]
<1>4. \A i \in 0..n : g[i] \in Bytes /\ Len(g[i]) \in Nat
  BY <1>2, BytesFacts
<1>5. pos \in [0..n -> Nat] /\ \A i \in 0..n : pos[i] = o + Len(g[i])
  BY <1>4
<1> HIDE DEF pos
<1>6. pos[0] = o
  <2>1. Len(g[0]) = 0 /\ 0 \in 0..n
    BY <1>1, <1>2
  <2> QED BY <1>5, <2>1
<1>7. pos[n] = o + Len(FlattenSeq(items))
  <2>1. n \in 0..n
    BY <1>1
  <2> QED BY <1>2, <1>5, <2>1
<1>8. ASSUME NEW i \in 1..n
      PROVE  pos[i] = pos[i-1] + Len(items[i]) /\ HoldsAt(b, pos[i-1], items[i])
  <2>1. i \in 0..n /\ i - 1 \in 0..n /\ items[i] \in Bytes
    BY <1>1, <1>8
  <2> DEFINE x == g[i-1]
             y == items[i]
  <2>2. x \in Bytes /\ y \in Bytes /\ g[i] = x \o y /\ pos[i-1] = o + Len(x)
        /\ pos[i] = o + Len(g[i]) /\ HoldsAt(b, o, g[i]) /\ Len(x) \in Nat
    BY <1>2, <1>3, <1>4, <1>5, <1>8, <2>1
  <2> HIDE DEF x, y
  <2>3. HoldsAt(b, o + Len(x), y)
    BY <2>2, HoldsParts
  <2>4. Len(x \o y) = Len(x) + Len(y) /\ Len(y) \in Nat
    BY <2>2, Joined, BytesFacts
  <2>5. pos[i] = pos[i-1] + Len(y)
    BY <2>2, <2>4
  <2> QED BY <2>2, <2>3, <2>5 DEF y
<1>9. Positions(pos, b, o, items)
  BY <1>6, <1>7, <1>8 DEF Positions, n
<1> QED BY <1>5, <1>9 DEF n

LEMMA OneMore ==
  ASSUME NEW S, NEW vs \in Seq(S), NEW j \in 1..Len(vs)
  PROVE  SubSeq(vs, 1, j) = Append(SubSeq(vs, 1, j - 1), vs[j])
<1>1. Len(vs) \in Nat /\ 1 \in 1..Len(vs) /\ j \in 1..Len(vs) /\ vs[j] \in S
  BY LenProperties
<1>2. SubSeq(vs, 1, j) = SubSeq(vs, 1, j - 1) \o << vs[j] >>
  BY <1>1, SubSeqRecursiveSecond
<1>3. SubSeq(vs, 1, j - 1) \in Seq(S)
  <2>1. \A i \in 1..(j-1) : vs[i] \in S
    BY <1>1, LenProperties
  <2> QED BY <1>1, <2>1, SubSeqProperties
<1> QED BY <1>1, <1>2, <1>3, AppendIsConcat

Encoded(vs) == [i \in 1..Len(vs) |-> encode_bytes(vs[i])]

(* Values short enough for their lengths to be written in eight bytes, as   *)
(* every std::vector is.                                                    *)
Writable(vs) ==
  /\ \A i \in 1..Len(vs) : Fits(Len(vs[i]), 8)
  /\ Fits(Len(FlattenSeq(Encoded(vs))), 8)

LEMMA EncodedItems ==
  ASSUME NEW vs \in Seq(Bytes), \A i \in 1..Len(vs) : Fits(Len(vs[i]), 8)
  PROVE  /\ Encoded(vs) \in Seq(Bytes) /\ Len(Encoded(vs)) = Len(vs)
         /\ \A i \in 1..Len(vs) : /\ Encoded(vs)[i] = encode_bytes(vs[i])
                                  /\ Len(Encoded(vs)[i]) \in Nat /\ Len(Encoded(vs)[i]) >= 1
<1> DEFINE n == Len(vs)
           items == Encoded(vs)
<1>1. n \in Nat /\ items = [i \in 1..n |-> encode_bytes(vs[i])]
  BY LenProperties DEF Encoded
<1>2. \A i \in 1..n : vs[i] \in Bytes /\ Fits(Len(vs[i]), 8)
  BY LenProperties
<1> HIDE DEF n, items
<1>3. \A i \in 1..n : /\ encode_bytes(vs[i]) \in Bytes /\ Len(encode_bytes(vs[i])) >= 1
  BY <1>2, EncodedBytes
<1>4. items \in [1..n -> Bytes]
  BY <1>1, <1>3
<1>5. items \in Seq(Bytes)
  BY <1>1, <1>4, IsASeq
<1>6. Len(items) = n
  BY <1>1, <1>5, LenProperties
<1>7. \A i \in 1..n : Len(encode_bytes(vs[i])) \in Nat
  BY <1>3, BytesFacts
<1> QED BY <1>1, <1>3, <1>5, <1>6, <1>7 DEF n, items

(* A list whose items are encoded byte strings reads back as these strings. *)
LEMMA ListReads ==
  ASSUME NEW vs \in Seq(Bytes), Len(vs) \in 1..MaxItems, Writable(vs)
  PROVE  RlpItems(encode_list(Encoded(vs))) = vs
<1> DEFINE items == Encoded(vs)
           payload == FlattenSeq(items)
           p == length_prefix(Len(payload), 192, 192 + 55)
           b == encode_list(items)
           q == Len(p)
           n == Len(vs)
<1>1. /\ n \in 1..10 /\ items \in Seq(Bytes) /\ Len(items) = n
      /\ \A i \in 1..n : /\ items[i] = encode_bytes(vs[i]) /\ vs[i] \in Bytes
                         /\ Fits(Len(vs[i]), 8)
                         /\ Len(items[i]) \in Nat /\ Len(items[i]) >= 1
  BY EncodedItems, LenProperties DEF MaxItems, Writable
<1>2. payload \in Bytes /\ Len(payload) \in Nat /\ Fits(Len(payload), 8)
  <2> HIDE DEF items
  <2>0. items \in Seq(Bytes) /\ Len(items) # 0 /\ n \in 0..n
    BY <1>1
  <2>1. PICK g \in [0..Len(items) -> Bytes] : payload = g[Len(items)]
    BY <2>0, FlattenTable
  <2>2. payload \in Bytes
    BY <1>1, <2>0, <2>1
  <2> QED BY <2>2, BytesFacts DEF Writable, items
<1>3. b = p \o payload
  BY DEF encode_list
<1> HIDE DEF items, payload
<1>4. p \in Bytes /\ q \in 1..9
  BY <1>2, PrefixBytes
<1> HIDE DEF p, b, q, n
<1>5. b \in Bytes /\ Len(b) = q + Len(payload)
  BY <1>2, <1>3, <1>4, Joined DEF q
<1>6. HoldsAt(b, 0, b)
  BY <1>5, HoldsWhole
<1>7. /\ RlpAt(b, 1) = [first |-> q + 1, last |-> Len(b)]
      /\ b[1] >= 192 /\ HoldsAt(b, q, payload)
  <2>1. HoldsAt(b, 0, length_prefix(Len(payload), 192, 192 + 55) \o payload)
    BY <1>3, <1>6 DEF p
  <2>2. 192 \in {128, 192} /\ 0 \in Nat /\ 0 + 1 = 1
    OBVIOUS
  <2>3. b \in Bytes /\ payload \in Bytes /\ Fits(Len(payload), 8)
    BY <1>2, <1>5
  <2>4. /\ RlpAt(b, 0 + 1) = [first |-> 0 + q + 1, last |-> 0 + q + Len(payload)]
        /\ b[0 + 1] >= 192 /\ HoldsAt(b, 0 + q, payload)
    BY <2>1, <2>2, <2>3, PrefixReads, ZenonT(40) DEF q, p
  <2>5. 0 + q = q
    BY <1>4
  <2> QED BY <1>5, <2>2, <2>4, <2>5
<1>8. PICK pos \in [0..n -> Nat] : Positions(pos, b, q, items)
  <2>1. Len(items) # 0 /\ q \in Nat
    BY <1>1, <1>4
  <2> QED BY <1>1, <1>5, <1>7, <2>1, ListHolds DEF payload
<1>9. /\ pos[0] = q /\ pos[n] = Len(b)
      /\ \A i \in 1..n : pos[i] = pos[i-1] + Len(items[i]) /\ HoldsAt(b, pos[i-1], items[i])
  BY <1>1, <1>5, <1>8 DEF Positions, payload
<1>10. \A j \in 0..(n-1) : pos[j] < pos[n]
  <2> DEFINE Bad == {k \in 0..(n-1) : ~(pos[n - 1 - k] < pos[n])}
  <2>1. Bad = {}
    <3> SUFFICES ASSUME Bad # {} PROVE FALSE
      OBVIOUS
    <3>2. PICK m \in Bad : \A j \in Bad : m <= j
      <4> Bad \in SUBSET Nat
        OBVIOUS
      <4> HIDE DEF Bad
      <4> QED BY Least
    <3>3. m \in 0..(n-1) /\ ~(pos[n - 1 - m] < pos[n])
      BY <3>2
    <3> DEFINE i == n - m
    <3>4. i \in 1..n /\ i - 1 = n - 1 - m /\ i - 1 \in 0..n /\ i \in 0..n
      BY <1>1, <3>3
    <3>5. pos[i] = pos[i-1] + Len(items[i]) /\ Len(items[i]) >= 1 /\ Len(items[i]) \in Nat
      BY <1>1, <1>9, <3>4
    <3>6. pos[i] \in Nat /\ pos[i-1] \in Nat /\ pos[i-1] < pos[i] /\ pos[n] \in Nat
      <4>1. pos[i] \in Nat /\ pos[i-1] \in Nat /\ pos[n] \in Nat
        BY <1>1, <1>8, <3>4
      <4> HIDE DEF i
      <4> QED BY <3>5, <4>1
    <3>7. CASE m = 0
      <4>1. i = n
        BY <1>1, <3>7
      <4> QED BY <3>3, <3>4, <3>6, <4>1
    <3>8. CASE m # 0
      <4>1. m - 1 \in 0..(n-1) /\ ~(m <= m - 1) /\ n - 1 - (m - 1) = i
        BY <1>1, <3>3, <3>8
      <4>2. m - 1 \notin Bad
        BY <3>2, <4>1
      <4>3. pos[i] < pos[n]
        BY <4>1, <4>2
      <4> QED BY <3>3, <3>4, <3>6, <4>3
    <3> QED BY <3>7, <3>8
  <2>2. ASSUME NEW j \in 0..(n-1) PROVE pos[j] < pos[n]
    <3>1. n - 1 - j \in 0..(n-1) /\ n - 1 - (n - 1 - j) = j
      BY <1>1
    <3>2. n - 1 - j \notin Bad
      <4> HIDE DEF Bad
      <4> QED BY <2>1
    <3> QED BY <3>1, <3>2
  <2> QED BY <2>2
<1> DEFINE whole == RlpAt(b, 1)
           m(j) == IF j <= n THEN j ELSE n
           read == [j \in 0..10 |-> [at |-> pos[m(j)] + 1, items |-> SubSeq(vs, 1, m(j))]]
           Next1(x) ==
             LET item == RlpAt(b, x.at)
             IN  IF x.at > whole.last THEN x
                 ELSE [at |-> item.last + 1,
                       items |-> Append(x.items, SubSeq(b, item.first, item.last))]
           first == [at |-> whole.first, items |-> << >>]
<1>10a. whole.first = q + 1 /\ whole.last = Len(b)
  BY <1>7
<1> HIDE DEF whole
<1>11. read[0] = first
  <2>1. m(0) = 0 /\ SubSeq(vs, 1, 0) = << >>
    BY <1>1, SubSeqEmpty
  <2> QED BY <1>9, <1>10a, <2>1
<1>12. ASSUME NEW j \in 1..10 PROVE read[j] = Next1(read[j-1])
  <2>1. j \in 0..10 /\ j - 1 \in 0..10
    OBVIOUS
  <2>2. CASE j <= n
    <3>1. m(j) = j /\ m(j-1) = j - 1 /\ j \in 1..n /\ j - 1 \in 0..(n-1) /\ j - 1 \in 0..n
      BY <1>1, <2>2
    <3>2. read[j-1] = [at |-> pos[j-1] + 1, items |-> SubSeq(vs, 1, j - 1)]
      BY <2>1, <3>1
    <3>3. read[j] = [at |-> pos[j] + 1, items |-> SubSeq(vs, 1, j)]
      BY <2>1, <3>1
    <3> DEFINE it == RlpAt(b, pos[j-1] + 1)
               v == vs[j]
    <3>4. it.last = pos[j] /\ SubSeq(b, it.first, it.last) = v
      <4>1. v \in Bytes /\ Fits(Len(v), 8) /\ items[j] = encode_bytes(v) /\ pos[j-1] \in Nat
        BY <1>1, <1>8, <3>1
      <4>2. HoldsAt(b, pos[j-1], encode_bytes(v)) /\ pos[j] = pos[j-1] + Len(encode_bytes(v))
        BY <1>9, <3>1, <4>1
      <4> HIDE DEF v
      <4> QED BY <1>5, <4>1, <4>2, ItemReads
    <3>5. ~(pos[j-1] + 1 > whole.last)
      <4>1. pos[j-1] \in Nat /\ pos[n] \in Nat /\ pos[j-1] < pos[n] /\ pos[n] = whole.last
        BY <1>1, <1>8, <1>9, <1>10, <1>10a, <3>1
      <4> QED BY <4>1
    <3>6. SubSeq(vs, 1, j) = Append(SubSeq(vs, 1, j - 1), v)
      BY <3>1, OneMore DEF n
    <3> HIDE DEF read
    <3> DEFINE x == read[j-1]
    <3>7. x.at = pos[j-1] + 1 /\ x.items = SubSeq(vs, 1, j - 1)
      BY <3>2
    <3> HIDE DEF x, v
    <3>8. Next1(x) = [at |-> pos[j] + 1, items |-> Append(SubSeq(vs, 1, j - 1), v)]
      BY <3>4, <3>5, <3>7
    <3> QED BY <3>3, <3>6, <3>8 DEF x
  <2>3. CASE ~(j <= n)
    <3>1. m(j) = n /\ m(j-1) = n
      BY <1>1, <2>3
    <3>2. read[j] = read[j-1] /\ read[j-1].at = pos[n] + 1
      BY <2>1, <3>1
    <3>3. pos[n] + 1 > whole.last
      <4>1. pos[n] \in Nat /\ pos[n] = whole.last
        BY <1>1, <1>8, <1>9, <1>10a
      <4> QED BY <4>1
    <3> HIDE DEF read
    <3> QED BY <3>2, <3>3
  <2> QED BY <2>2, <2>3
<1>13. read[10].items = vs
  <2>1. m(10) = n
    BY <1>1
  <2>2. SubSeq(vs, 1, n) = vs
    BY SubSeqFull DEF n
  <2>3. read[10] = [at |-> pos[n] + 1, items |-> SubSeq(vs, 1, n)]
    <3> HIDE DEF m
    <3>1. read[10] = [at |-> pos[m(10)] + 1, items |-> SubSeq(vs, 1, m(10))]
      OBVIOUS
    <3> QED BY <2>1, <3>1
  <2> HIDE DEF read
  <2> QED BY <2>2, <2>3
<1> DEFINE chosen == CHOOSE f :
             f = [j \in 0..10 |-> IF j = 0 THEN first ELSE Next1(f[j-1])]
<1>14. RlpItems(b) = chosen[10].items
  <2>1. ~(b[1] < 192 \/ whole.last # Len(b))
    <3>1. b[1] \in 0..255
      <4>1. 1 \in 1..Len(b)
        BY <1>2, <1>4, <1>5
      <4> QED BY <1>5, <4>1, BytesFacts
    <3> DEFINE head == b[1]
    <3>2. head \in 0..255 /\ head >= 192
      BY <1>7, <3>1
    <3> HIDE DEF head
    <3>3. ~(head < 192)
      BY <3>2
    <3> QED BY <1>10a, <3>3 DEF head
  <2> QED BY <2>1 DEF RlpItems, MaxItems, whole
<1> HIDE DEF m, Next1, first
<1>15. read = [j \in 0..10 |-> IF j = 0 THEN first ELSE Next1(read[j-1])]
  <2>1. \A j \in 0..10 : read[j] = IF j = 0 THEN first ELSE Next1(read[j-1])
    <3> HIDE DEF read
    <3> QED BY <1>11, <1>12
  <2>2. read = [j \in 0..10 |-> read[j]]
    OBVIOUS
  <2> HIDE DEF read
  <2> QED BY <2>1, <2>2
<1> HIDE DEF read
<1>16. chosen = [j \in 0..10 |-> IF j = 0 THEN first ELSE Next1(chosen[j-1])]
  BY <1>15
<1> HIDE DEF chosen
<1>17. \A j \in 0..10 : chosen[j] = read[j]
  <2> DEFINE Bad == {j \in 0..10 : chosen[j] # read[j]}
  <2>1. SUFFICES ASSUME Bad # {} PROVE FALSE
    OBVIOUS
  <2>2. PICK i \in Bad : \A j \in Bad : i <= j
    <3> Bad \in SUBSET Nat
      OBVIOUS
    <3> HIDE DEF Bad
    <3> QED BY <2>1, Least
  <2>3. i \in 0..10 /\ chosen[i] # read[i] /\ i # 0
    BY <1>15, <1>16, <2>2
  <2>4. i - 1 \in 0..10 /\ i - 1 \notin Bad
    BY <2>2, <2>3
  <2>5. chosen[i-1] = read[i-1]
    BY <2>4
  <2> HIDE DEF Bad
  <2> QED BY <1>15, <1>16, <2>3, <2>5
<1> QED BY <1>13, <1>14, <1>17 DEF b, items

-----------------------------------------------------------------------------
(* Payloads of short items are short. *)
LEMMA PayloadBound ==
  ASSUME NEW items \in Seq(Bytes), Len(items) # 0, \A i \in 1..Len(items) : Len(items[i]) <= 250
  PROVE  FlattenSeq(items) \in Bytes /\ Len(FlattenSeq(items)) <= 250 * Len(items)
<1> DEFINE n == Len(items)
<1>1. n \in Nat /\ n # 0 /\ \A i \in 1..n : items[i] \in Bytes /\ Len(items[i]) <= 250
  BY LenProperties
<1>2. PICK g \in [0..n -> Bytes] : /\ g[0] = << >>
                                   /\ \A i \in 1..n : g[i] = g[i-1] \o items[i]
                                   /\ FlattenSeq(items) = g[n]
  BY FlattenTable
<1> HIDE DEF n
<1>3. \A i \in 0..n : Len(g[i]) <= 250 * i
  <2> DEFINE Bad == {i \in 0..n : ~(Len(g[i]) <= 250 * i)}
  <2>1. SUFFICES ASSUME Bad # {} PROVE FALSE
    OBVIOUS
  <2>2. PICK m \in Bad : \A j \in Bad : m <= j
    <3> Bad \in SUBSET Nat
      OBVIOUS
    <3> HIDE DEF Bad
    <3> QED BY <2>1, Least
  <2>3. m \in 0..n /\ ~(Len(g[m]) <= 250 * m)
    BY <2>2
  <2>4. m # 0
    <3>1. Len(g[0]) = 0
      BY <1>2
    <3> QED BY <2>3, <3>1
  <2>5. m \in 1..n /\ m - 1 \in 0..n /\ ~(m <= m - 1)
    BY <1>1, <2>3, <2>4
  <2>6. m - 1 \notin Bad
    BY <2>2, <2>5
  <2>7. Len(g[m-1]) <= 250 * (m - 1)
    BY <2>5, <2>6
  <2> HIDE DEF Bad
  <2>8. g[m-1] \in Bytes /\ items[m] \in Bytes
    BY <1>1, <1>2, <2>5
  <2>9. Len(g[m-1] \o items[m]) = Len(g[m-1]) + Len(items[m])
    BY <2>8, Joined
  <2>10. g[m] = g[m-1] \o items[m] /\ Len(items[m]) <= 250
    BY <1>1, <1>2, <2>5
  <2>11. Len(g[m-1]) \in Nat /\ Len(items[m]) \in Nat
    BY <2>8, BytesFacts
  <2>12. Len(g[m]) = Len(g[m-1]) + Len(items[m])
    BY <2>9, <2>10
  <2> DEFINE a == Len(g[m-1])
             b == Len(items[m])
             c == Len(g[m])
  <2>13. a \in Nat /\ b \in Nat
    BY <2>11
  <2>14. c = a + b
    BY <2>12
  <2>15. a <= 250 * (m - 1)
    BY <2>7
  <2>16. b <= 250
    BY <2>10
  <2>17. ~(c <= 250 * m)
    BY <2>3
  <2> HIDE DEF a, b, c
  <2> QED BY <2>3, <2>13, <2>14, <2>15, <2>16, <2>17
<1>4. n \in 0..n
  BY <1>1
<1>5. g[n] \in Bytes /\ Len(g[n]) <= 250 * n
  BY <1>2, <1>3, <1>4
<1> QED BY <1>2, <1>5 DEF n

LEMMA ShortFits == ASSUME NEW n \in Nat, n <= 2250 PROVE Fits(n, 8)
<1>1. n < 256 * (256 * 256)
  BY SMT
<1>2. 3 \in Nat /\ 8 \in Nat /\ 3 <= 8 /\ Fits(n, 3)
  BY <1>1, ThreeBytes
<1> QED BY <1>1, <1>2, FitsWider

(* A value that a transaction may hold, and what it becomes. *)
Short(v) == v \in Bytes /\ Len(v) <= 240
Encodes(v) == encode_bytes(v) \in Bytes /\ Len(encode_bytes(v)) <= 250

LEMMA ShortItem ==
  ASSUME NEW v, Short(v)
  PROVE  v \in Bytes /\ Fits(Len(v), 8) /\ Encodes(v)
<1> DEFINE l == Len(v)
           m == Len(encode_bytes(v))
<1>1. v \in Bytes /\ l \in Nat /\ l <= 240
  BY BytesFacts DEF Short
<1> HIDE DEF l
<1>2. l <= 2250
  BY <1>1
<1>3. Fits(Len(v), 8)
  BY <1>1, <1>2, ShortFits DEF l
<1>4. encode_bytes(v) \in Bytes /\ m \in l..(l + 9)
  BY <1>1, <1>3, EncodedBytes DEF l
<1> HIDE DEF m
<1>5. m <= 250
  BY <1>1, <1>4
<1> QED BY <1>1, <1>3, <1>4, <1>5 DEF Encodes, m

LEMMA ShortIsWritable ==
  ASSUME NEW vs \in Seq(Bytes), Len(vs) = 9, \A i \in 1..9 : Short(vs[i])
  PROVE  Writable(vs)
<1>1. \A i \in 1..9 : vs[i] \in Bytes /\ Fits(Len(vs[i]), 8) /\ Encodes(vs[i])
  BY ShortItem
<1> DEFINE items == Encoded(vs)
<1>2. /\ items \in Seq(Bytes) /\ Len(items) = 9
      /\ \A i \in 1..9 : items[i] = encode_bytes(vs[i])
  BY <1>1, EncodedItems
<1> HIDE DEF items
<1>3. \A i \in 1..9 : Len(items[i]) <= 250
  BY <1>1, <1>2 DEF Encodes
<1>4. FlattenSeq(items) \in Bytes /\ Len(FlattenSeq(items)) <= 250 * 9
  <2>1. Len(items) # 0 /\ \A i \in 1..Len(items) : Len(items[i]) <= 250
    BY <1>2, <1>3
  <2>2. FlattenSeq(items) \in Bytes /\ Len(FlattenSeq(items)) <= 250 * Len(items)
    BY <1>2, <2>1, PayloadBound
  <2> QED BY <1>2, <2>2
<1> DEFINE l == Len(FlattenSeq(items))
<1>5. l \in Nat /\ l <= 250 * 9
  BY <1>4, BytesFacts
<1> HIDE DEF l
<1>6. l <= 2250
  BY <1>5
<1>7. Fits(l, 8)
  BY <1>5, <1>6, ShortFits
<1> QED BY <1>1, <1>2, <1>7 DEF Writable, items, l

(* The nine items of a transaction are read back. *)
LEMMA CallReads ==
  ASSUME NEW nonce \in ByteStrings(8), NEW gasPrice \in ByteStrings(32),
         NEW gasLimit \in ByteStrings(8), NEW to \in ByteStrings(20),
         NEW data \in Bytes, Len(data) <= 240, NEW chainId \in ByteStrings(8)
  PROVE  RlpItems(encode_legacy_tx(nonce, gasPrice, gasLimit, to, data, chainId)) =
           <<minimal_be(nonce), minimal_be(gasPrice), minimal_be(gasLimit), to, << >>, data,
             minimal_be(chainId), << >>, << >> >>
<1> DEFINE none == minimal_be(Zeros(8))
           vs == <<minimal_be(nonce), minimal_be(gasPrice), minimal_be(gasLimit), to, none, data,
                   minimal_be(chainId), none, none>>
<1>1. none = << >>
  BY MinimalOfZero
<1>2. /\ nonce \in Bytes /\ Len(nonce) = 8 /\ gasPrice \in Bytes /\ Len(gasPrice) = 32
      /\ gasLimit \in Bytes /\ Len(gasLimit) = 8 /\ to \in Bytes /\ Len(to) = 20
      /\ chainId \in Bytes /\ Len(chainId) = 8
  BY StringsAreBytes
<1>3. /\ Short(minimal_be(nonce)) /\ Short(minimal_be(gasPrice))
      /\ Short(minimal_be(gasLimit)) /\ Short(minimal_be(chainId))
  <2>1. ASSUME NEW raw \in Bytes, Len(raw) <= 240 PROVE Short(minimal_be(raw))
    <3>1. minimal_be(raw) \in Bytes /\ Len(minimal_be(raw)) <= Len(raw)
      BY <2>1, MinimalIsScalar
    <3> DEFINE l == Len(minimal_be(raw))
               m == Len(raw)
    <3>2. l \in Nat /\ m \in Nat /\ l <= m /\ m <= 240
      BY <2>1, <3>1, BytesFacts
    <3> HIDE DEF l, m
    <3>3. l <= 240
      BY <3>2
    <3> QED BY <3>1, <3>3 DEF Short, l
  <2>2. Len(nonce) <= 240 /\ Len(gasPrice) <= 240 /\ Len(gasLimit) <= 240 /\ Len(chainId) <= 240
    BY <1>2
  <2> QED BY <1>2, <2>1, <2>2
<1>4. Short(none) /\ Short(to) /\ Short(data)
  <2>1. << >> \in Bytes /\ Len(<< >>) <= 240
    BY DEF Bytes
  <2>2. Len(to) <= 240
    BY <1>2
  <2> QED BY <1>1, <1>2, <2>1, <2>2 DEF Short
<1> HIDE DEF none, vs
<1>5. /\ vs \in Seq(Bytes) /\ Len(vs) = 9
      /\ Encoded(vs) = <<encode_bytes(minimal_be(nonce)), encode_bytes(minimal_be(gasPrice)),
                         encode_bytes(minimal_be(gasLimit)), encode_bytes(to),
                         encode_bytes(none), encode_bytes(data),
                         encode_bytes(minimal_be(chainId)), encode_bytes(none),
                         encode_bytes(none)>>
  <2> DEFINE a == minimal_be(nonce)
             b == minimal_be(gasPrice)
             c == minimal_be(gasLimit)
             d == minimal_be(chainId)
  <2>1. /\ a \in Bytes /\ b \in Bytes /\ c \in Bytes /\ d \in Bytes
        /\ to \in Bytes /\ none \in Bytes /\ data \in Bytes
    BY <1>3, <1>4 DEF Short
  <2>2. vs = <<a, b, c, to, none, data, d, none, none>>
    BY DEF vs
  <2> HIDE DEF a, b, c, d
  <2>3. /\ vs \in Seq(Bytes) /\ Len(vs) = 9
        /\ Encoded(vs) = <<encode_bytes(a), encode_bytes(b), encode_bytes(c), encode_bytes(to),
                           encode_bytes(none), encode_bytes(data), encode_bytes(d),
                           encode_bytes(none), encode_bytes(none)>>
    <3>1. vs \in Seq(Bytes) /\ Len(vs) = 9
      BY <2>1, <2>2
    <3>2. Encoded(vs) = [i \in 1..9 |-> encode_bytes(vs[i])]
      BY <3>1 DEF Encoded
    <3> QED BY <2>2, <3>1, <3>2
  <2> QED BY <2>3 DEF a, b, c, d
<1>6. ASSUME NEW i \in 1..9 PROVE Short(vs[i])
  <2> DEFINE a == minimal_be(nonce)
             b == minimal_be(gasPrice)
             c == minimal_be(gasLimit)
             d == minimal_be(chainId)
  <2>1. /\ Short(a) /\ Short(b) /\ Short(c) /\ Short(to) /\ Short(none) /\ Short(data) /\ Short(d)
    BY <1>3, <1>4
  <2>2. vs = <<a, b, c, to, none, data, d, none, none>>
    BY DEF vs
  <2> HIDE DEF a, b, c, d
  <2>3. vs[i] \in {a, b, c, to, none, data, d}
    BY <2>2
  <2> QED BY <2>1, <2>3
<1>7. Writable(vs)
  BY <1>5, <1>6, ShortIsWritable
<1>8. encode_legacy_tx(nonce, gasPrice, gasLimit, to, data, chainId) = encode_list(Encoded(vs))
  BY <1>5 DEF encode_legacy_tx, encode_uint, none
<1>9. RlpItems(encode_list(Encoded(vs))) = vs
  <2>1. Len(vs) \in 1..MaxItems
    BY <1>5 DEF MaxItems
  <2> QED BY <1>5, <1>7, <2>1, ListReads
<1> QED BY <1>1, <1>8, <1>9 DEF vs

-----------------------------------------------------------------------------
(* The calldata. *)
LEMMA HoldsJoined ==
  ASSUME NEW b \in Bytes, NEW o \in Nat, NEW u \in Bytes, NEW v \in Bytes,
         HoldsAt(b, o, u), HoldsAt(b, o + Len(u), v)
  PROVE  HoldsAt(b, o, u \o v)
<1> DEFINE c == u \o v
           m == Len(u)
           n == Len(v)
<1>1. m \in Nat /\ n \in Nat /\ Len(b) \in Nat
  BY BytesFacts
<1>2. /\ Len(c) = m + n /\ (\A i \in 1..m : c[i] = u[i])
      /\ \A i \in 1..n : c[m + i] = v[i]
  BY Joined
<1>3. /\ \A i \in 1..m : b[o + i] = u[i]
      /\ (o + m) + n <= Len(b) /\ \A i \in 1..n : b[(o + m) + i] = v[i]
  BY DEF HoldsAt
<1> HIDE DEF c, m, n
<1>4. ASSUME NEW i \in 1..(m + n) PROVE b[o + i] = c[i]
  <2>1. CASE i <= m
    <3>1. i \in 1..m
      BY <1>1, <1>4, <2>1
    <3> QED BY <1>2, <1>3, <3>1
  <2>2. CASE ~(i <= m)
    <3>1. i - m \in 1..n /\ m + (i - m) = i /\ (o + m) + (i - m) = o + i
      BY <1>1, <1>4, <2>2
    <3>2. c[m + (i - m)] = v[i - m] /\ b[(o + m) + (i - m)] = v[i - m]
      BY <1>2, <1>3, <3>1
    <3> QED BY <3>1, <3>2
  <2> QED BY <2>1, <2>2
<1>5. o + (m + n) <= Len(b)
  BY <1>1, <1>3
<1> QED BY <1>2, <1>4, <1>5 DEF HoldsAt, c

(* The address that the memo's digits spell. *)
LEMMA ParsedAddress ==
  ASSUME NEW memo, memo.digits \in Seq(0..NotHex), IsAddress(memo)
  PROVE  /\ parse_evm_address_string(memo) \in Bytes
         /\ Len(parse_evm_address_string(memo)) = 20
         /\ \A k \in 1..40 :
              LET byte == parse_evm_address_string(memo)[(k + 1) \div 2]
              IN  memo.digits[k] = IF k % 2 = 1 THEN byte \div 16 ELSE byte % 16
<1> DEFINE d == memo.digits
           a == parse_evm_address_string(memo)
<1>1. \A k \in 1..40 : d[k] \in 0..15
  <2>1. Len(d) = 40 /\ \A k \in 1..40 : d[k] # 16
    BY DEF IsAddress, NotHex
  <2>2. d \in Seq(0..16)
    BY DEF NotHex
  <2> HIDE DEF d
  <2>3. \A k \in 1..40 : d[k] \in 0..16
    BY <2>1, <2>2, LenProperties
  <2>4. ASSUME NEW k \in 1..40 PROVE d[k] \in 0..15
    <3>1. d[k] \in 0..16 /\ d[k] # 16
      BY <2>1, <2>3
    <3> DEFINE x == d[k]
    <3> HIDE DEF x
    <3>2. x \in 0..16 /\ x # 16 => x \in 0..15
      OBVIOUS
    <3> QED BY <3>1, <3>2 DEF x
  <2> QED BY <2>4
<1>2. a = [j \in 1..20 |-> 16 * d[2*j - 1] + d[2*j]]
  BY DEF parse_evm_address_string
<1> HIDE DEF d, a
<1>3. ASSUME NEW j \in 1..20
      PROVE  /\ 2*j - 1 \in 1..40 /\ 2*j \in 1..40 /\ a[j] \in 0..255
             /\ a[j] \div 16 = d[2*j - 1] /\ a[j] % 16 = d[2*j]
  <2>1. 2*j - 1 \in 1..40 /\ 2*j \in 1..40
    BY <1>3
  <2> DEFINE x == d[2*j - 1]
             y == d[2*j]
  <2>2. x \in 0..15 /\ y \in 0..15
    BY <1>1, <2>1
  <2>3. a[j] = 16 * x + y
    BY <1>2, <1>3
  <2> HIDE DEF x, y
  <2>4. 16 * x + y \in 0..255 /\ (16 * x + y) \div 16 = x /\ (16 * x + y) % 16 = y
    BY <2>2
  <2> QED BY <2>1, <2>3, <2>4 DEF x, y
<1>4. a \in ByteStrings(20)
  <2>1. a = [j \in 1..20 |-> a[j]]
    BY <1>2
  <2> QED BY <1>3, <2>1 DEF ByteStrings
<1>5. a \in Bytes /\ Len(a) = 20
  BY <1>4, StringsAreBytes
<1>6. ASSUME NEW k \in 1..40
      PROVE  d[k] = IF k % 2 = 1 THEN a[(k + 1) \div 2] \div 16 ELSE a[(k + 1) \div 2] % 16
  <2> DEFINE j == (k + 1) \div 2
  <2>1. j \in 1..20 /\ (k % 2 = 1 => 2*j - 1 = k) /\ (k % 2 # 1 => 2*j = k)
    BY <1>6
  <2> HIDE DEF j
  <2>2. a[j] \div 16 = d[2*j - 1] /\ a[j] % 16 = d[2*j]
    BY <1>3, <2>1
  <2> QED BY <2>1, <2>2 DEF j
<1> QED BY <1>5, <1>6 DEF a, d

(* A sequence padded to full words. *)
LEMMA Padding ==
  ASSUME NEW n \in Nat
  PROVE  (32 - (n % 32)) % 32 \in 0..31
<1>1. n % 32 \in 0..31
  OBVIOUS
<1> DEFINE r == n % 32
<1> HIDE DEF r
<1>2. (32 - r) % 32 \in 0..31
  BY <1>1 DEF r
<1> QED BY <1>2 DEF r

Joins(c, a, b) == c = a \o b
Field(a, m) == a \in Bytes /\ Len(a) = m /\ m \in Nat

LEMMA Appended ==
  ASSUME NEW a, NEW m, Field(a, m), NEW b, NEW n, Field(b, n), NEW c, Joins(c, a, b)
  PROVE  Field(c, m + n)
<1>1. a \in Bytes /\ b \in Bytes
  BY DEF Field
<1>2. a \o b \in Bytes /\ Len(a \o b) = Len(a) + Len(b)
  BY <1>1, Joined
<1>3. Len(a) = m /\ Len(b) = n /\ m + n \in Nat /\ c = a \o b
  BY DEF Joins, Field
<1>4. c \in Bytes /\ Len(c) = m + n
  BY <1>2, <1>3
<1> QED BY <1>3, <1>4 DEF Field

LEMMA Peeled ==
  ASSUME NEW data, NEW l, Field(data, l), NEW a, NEW m, Field(a, m), NEW b, NEW n, Field(b, n),
         NEW c, Joins(c, a, b), HoldsAt(data, 0, c)
  PROVE  HoldsAt(data, 0, a) /\ HoldsAt(data, m, b)
<1>1. 0 \in Nat /\ 0 + m = m /\ Len(a) = m
  BY DEF Field
<1>2. data \in Bytes /\ a \in Bytes /\ b \in Bytes
  BY DEF Field
<1>3. HoldsAt(data, 0, a \o b)
  BY DEF Joins
<1>4. HoldsAt(data, 0, a) /\ HoldsAt(data, 0 + Len(a), b)
  BY <1>1, <1>2, <1>3, HoldsParts
<1> QED BY <1>1, <1>4

Pads(p, a) == p = Zeros((32 - (Len(a) % 32)) % 32)

LEMMA PadsToWords ==
  ASSUME NEW a, NEW m, Field(a, m), NEW p, Pads(p, a)
  PROVE  \E n \in 0..31 : Field(p, n)
<1> DEFINE n == (32 - (m % 32)) % 32
<1>1. n \in 0..31
  BY Padding DEF Field
<1>2. p = Zeros(n)
  BY DEF Pads, Field
<1> HIDE DEF n
<1>3. n \in Nat
  BY <1>1
<1> QED BY <1>1, <1>2, <1>3, ZerosBytes DEF Field

LEMMA FieldSlice ==
  ASSUME NEW data \in Bytes, NEW v, NEW m, Field(v, m), NEW o \in Nat, HoldsAt(data, o, v)
  PROVE  Slice(data, o + 1, m) = v
<1>1. v \in Bytes /\ Len(v) = m
  BY DEF Field
<1> QED BY <1>1, HoldsSlice

LEMMA NumberField == ASSUME NEW v \in Nat PROVE Field(BigEndian(v, 32), 32)
<1>1. 32 \in Nat
  OBVIOUS
<1>2. BigEndian(v, 32) \in Bytes /\ Len(BigEndian(v, 32)) = 32
  BY <1>1, BigEndianBytes, ZenonT(40)
<1> QED BY <1>1, <1>2 DEF Field

(* The calldata of a release, field by field. *)
LEMMA CalldataReads ==
  ASSUME NEW r \in Releases, CanBuild(r), NEW data, data = build_release_calldata(r)
  PROVE  /\ data \in Bytes /\ Len(data) <= 240
         /\ Slice(data, 1, 4) = RELEASE_TO_EVM_SELECTOR
         /\ AbiWord(data, 0) = BigEndian(r.pair, 32)
         /\ AbiWord(data, 1) = BigEndian(convert(r.amount, r.zeroDecimals, r.evmDecimals), 32)
         /\ AbiWord(data, 2) = Zeros(12) \o parse_evm_address_string(r.memo)
         /\ AbiWord(data, 3) = r.burn
         /\ AbiWord(data, 4) = BigEndian(RELEASE_TO_EVM_HEAD_BYTES, 32)
         /\ Slice(data, 165, 32) = BigEndian(Len(r.sender), 32)
         /\ Slice(data, 197, Len(r.sender)) = r.sender
<1> DEFINE S == RELEASE_TO_EVM_SELECTOR
           amount == convert(r.amount, r.zeroDecimals, r.evmDecimals)
           A == BigEndian(r.pair, 32)
           B == BigEndian(amount, 32)
           Z == Zeros(12)
           D == parse_evm_address_string(r.memo)
           F == r.burn
           G == BigEndian(RELEASE_TO_EVM_HEAD_BYTES, 32)
           s == r.sender
           L == BigEndian(Len(s), 32)
           h1 == S \o A
           h2 == h1 \o B
           h3 == h2 \o Z
           h4 == h3 \o D
           h5 == h4 \o F
           h6 == h5 \o G
           h7 == h6 \o L
           h8 == h7 \o s
           P == Zeros((32 - (Len(h8) % 32)) % 32)
<1>1. Field(S, 4)
  BY DEF RELEASE_TO_EVM_SELECTOR, Bytes, Byte, Field
<1>2. Field(A, 32)
  <2>1. r.pair \in Nat
    BY WireAssumption
  <2> QED BY <2>1, NumberField
<1>3. Field(B, 32)
  <2>1. amount \in 1..MaxUint128 /\ MaxUint128 \in Nat
    BY WireAssumption, DecimalsAssumption, ConvertExact DEF CanBuild
  <2> HIDE DEF amount
  <2>2. amount \in Nat
    BY <2>1
  <2> QED BY <2>2, NumberField
<1>4. Field(Z, 12)
  BY ZerosBytes DEF Field
<1>5. Field(D, 20)
  BY WireAssumption, ParsedAddress DEF CanBuild, Field
<1>6. Field(F, 32)
  BY WireAssumption, StringsAreBytes DEF Field
<1>7. Field(G, 32)
  <2>1. RELEASE_TO_EVM_HEAD_BYTES \in Nat
    BY DEF RELEASE_TO_EVM_HEAD_BYTES
  <2> QED BY <2>1, NumberField
<1>8. Field(s, Len(s)) /\ Len(s) \in 0..13
  <2>1. s \in Bytes /\ Len(s) <= 13
    BY WireAssumption DEF Bytes, Byte
  <2>2. Len(s) \in Nat
    BY <2>1, BytesFacts
  <2> DEFINE n == Len(s)
  <2>3. n \in Nat /\ n <= 13
    BY <2>1, <2>2
  <2> HIDE DEF n
  <2>4. n \in 0..13
    BY <2>3
  <2> QED BY <2>1, <2>2, <2>4 DEF Field, n
<1>9. Field(L, 32)
  <2>1. Len(s) \in Nat
    BY <1>8
  <2> QED BY <2>1, NumberField
<1>10. data = h8 \o P
  BY DEF build_release_calldata, append_string_tail
<1>11. /\ Joins(h1, S, A) /\ Joins(h2, h1, B) /\ Joins(h3, h2, Z) /\ Joins(h4, h3, D)
       /\ Joins(h5, h4, F) /\ Joins(h6, h5, G) /\ Joins(h7, h6, L) /\ Joins(h8, h7, s)
       /\ Pads(P, h8) /\ Joins(data, h8, P)
  BY <1>10 DEF Joins, Pads
<1> DEFINE n == Len(s)
<1>12. n \in 0..13 /\ Field(s, n)
  BY <1>8
<1> HIDE DEF h1, h2, h3, h4, h5, h6, h7, h8, P, S, A, B, Z, D, F, G, L, s, n
<1>13. Field(h1, 36)
  <2>1. Field(h1, 4 + 32)
    BY <1>1, <1>2, <1>11, Appended
  <2> QED BY <2>1
<1>14. Field(h2, 68)
  <2>1. Field(h2, 36 + 32)
    BY <1>13, <1>3, <1>11, Appended
  <2> QED BY <2>1
<1>15. Field(h3, 80)
  <2>1. Field(h3, 68 + 12)
    BY <1>14, <1>4, <1>11, Appended
  <2> QED BY <2>1
<1>16. Field(h4, 100)
  <2>1. Field(h4, 80 + 20)
    BY <1>15, <1>5, <1>11, Appended
  <2> QED BY <2>1
<1>17. Field(h5, 132)
  <2>1. Field(h5, 100 + 32)
    BY <1>16, <1>6, <1>11, Appended
  <2> QED BY <2>1
<1>18. Field(h6, 164)
  <2>1. Field(h6, 132 + 32)
    BY <1>17, <1>7, <1>11, Appended
  <2> QED BY <2>1
<1>19. Field(h7, 196)
  <2>1. Field(h7, 164 + 32)
    BY <1>18, <1>9, <1>11, Appended
  <2> QED BY <2>1
<1>20. Field(h8, 196 + n)
  BY <1>19, <1>11, <1>12, Appended
<1>21. PICK p \in 0..31 : Field(P, p)
  BY <1>20, <1>11, PadsToWords
<1>22. Field(data, (196 + n) + p)
  BY <1>20, <1>21, <1>11, Appended
<1>23. data \in Bytes /\ Len(data) <= 240
  <2> DEFINE l == Len(data)
  <2>1. data \in Bytes /\ l = (196 + n) + p
    BY <1>22 DEF Field
  <2> HIDE DEF l
  <2>2. l <= 240
    BY <1>12, <1>21, <2>1
  <2> QED BY <2>1, <2>2 DEF l
<1>24. HoldsAt(data, 0, h8)
  <2>1. HoldsAt(data, 0, data)
    BY <1>23, HoldsWhole
  <2> QED BY <1>20, <1>21, <1>22, <1>11, <2>1, Peeled
<1>25. HoldsAt(data, 0, h7) /\ HoldsAt(data, 196, s)
  BY <1>12, <1>11, <1>19, <1>22, <1>24, Peeled
<1>26. HoldsAt(data, 0, h6) /\ HoldsAt(data, 164, L)
  BY <1>9, <1>11, <1>18, <1>22, <1>25, Peeled
<1>27. HoldsAt(data, 0, h5) /\ HoldsAt(data, 132, G)
  BY <1>7, <1>11, <1>17, <1>22, <1>26, Peeled
<1>28. HoldsAt(data, 0, h4) /\ HoldsAt(data, 100, F)
  BY <1>6, <1>11, <1>16, <1>22, <1>27, Peeled
<1>29. HoldsAt(data, 0, h3) /\ HoldsAt(data, 80, D)
  BY <1>5, <1>11, <1>15, <1>22, <1>28, Peeled
<1>30. HoldsAt(data, 0, h2) /\ HoldsAt(data, 68, Z)
  BY <1>4, <1>11, <1>14, <1>22, <1>29, Peeled
<1>31. HoldsAt(data, 0, h1) /\ HoldsAt(data, 36, B)
  BY <1>3, <1>11, <1>13, <1>22, <1>30, Peeled
<1>32. HoldsAt(data, 0, S) /\ HoldsAt(data, 4, A)
  BY <1>1, <1>2, <1>11, <1>22, <1>31, Peeled
<1> DEFINE W == Z \o D
<1>33. HoldsAt(data, 68, W) /\ Field(W, 32)
  <2>1. 68 \in Nat /\ Z \in Bytes /\ D \in Bytes /\ Len(Z) = 12 /\ 68 + 12 = 80
    BY <1>4, <1>5 DEF Field
  <2>2. HoldsAt(data, 68 + Len(Z), D)
    BY <1>29, <2>1
  <2>3. HoldsAt(data, 68, Z \o D)
    BY <1>23, <1>30, <2>1, <2>2, HoldsJoined
  <2>4. Joins(W, Z, D)
    BY DEF Joins
  <2> HIDE DEF W
  <2>5. Field(W, 12 + 20)
    BY <1>4, <1>5, <2>4, Appended
  <2>6. Field(W, 32)
    BY <2>5
  <2> QED BY <2>3, <2>6 DEF W
<1> HIDE DEF W
<1>34. /\ 0 \in Nat /\ 4 \in Nat /\ 36 \in Nat /\ 68 \in Nat /\ 100 \in Nat /\ 132 \in Nat
      /\ 164 \in Nat /\ 196 \in Nat
  OBVIOUS
<1>35. Slice(data, 0 + 1, 4) = S
  BY <1>1, <1>23, <1>32, <1>34, FieldSlice
<1>36. Slice(data, 4 + 1, 32) = A
  BY <1>2, <1>23, <1>32, <1>34, FieldSlice
<1>37. Slice(data, 36 + 1, 32) = B
  BY <1>3, <1>23, <1>31, <1>34, FieldSlice
<1>38. Slice(data, 68 + 1, 32) = W
  BY <1>33, <1>23, <1>33, <1>34, FieldSlice
<1>39. Slice(data, 100 + 1, 32) = F
  BY <1>6, <1>23, <1>28, <1>34, FieldSlice
<1>40. Slice(data, 132 + 1, 32) = G
  BY <1>7, <1>23, <1>27, <1>34, FieldSlice
<1>41. Slice(data, 164 + 1, 32) = L
  BY <1>9, <1>23, <1>26, <1>34, FieldSlice
<1>42. Slice(data, 196 + 1, n) = s
  BY <1>12, <1>23, <1>25, <1>34, FieldSlice
<1>43. /\ Slice(data, 1, 4) = S /\ Slice(data, 165, 32) = L /\ Slice(data, 197, n) = s
  BY <1>35, <1>41, <1>42
<1>44. /\ AbiWord(data, 0) = Slice(data, 4 + 1, 32) /\ AbiWord(data, 1) = Slice(data, 36 + 1, 32)
       /\ AbiWord(data, 2) = Slice(data, 68 + 1, 32) /\ AbiWord(data, 3) = Slice(data, 100 + 1, 32)
       /\ AbiWord(data, 4) = Slice(data, 132 + 1, 32)
  BY DEF AbiWord
<1>45. /\ AbiWord(data, 0) = A /\ AbiWord(data, 1) = B /\ AbiWord(data, 2) = W
       /\ AbiWord(data, 3) = F /\ AbiWord(data, 4) = G
  BY <1>36, <1>37, <1>38, <1>39, <1>40, <1>44
<1> QED BY <1>23, <1>43, <1>45 DEF S, A, B, Z, D, W, F, G, L, s, n

-----------------------------------------------------------------------------
(* The numbers in the calldata and in the transaction. *)
LEMMA WordValue ==
  ASSUME NEW v \in Nat, NEW n \in 0..32, Fits(v, n)
  PROVE  ValueOf(BigEndian(v, 32)) = v
<1>1. n \in Nat /\ 32 \in Nat /\ n <= 32
  OBVIOUS
<1>2. Fits(v, 32)
  BY <1>1, FitsWider
<1> QED BY <1>1, <1>2, BigEndianValue

LEMMA GasLimitReads ==
  ASSUME NEW limit \in Nat, limit < 256 * (256 * 256)
  PROVE  /\ BigEndian(limit, 8) \in ByteStrings(8)
         /\ ValueOf(minimal_be(BigEndian(limit, 8))) = limit
<1>1. 3 \in Nat /\ 8 \in Nat /\ 3 <= 8
  OBVIOUS
<1>2. Fits(limit, 8)
  BY <1>1, ThreeBytes, FitsWider
<1>3. BigEndian(limit, 8) \in Bytes /\ BigEndian(limit, 8) \in ByteStrings(8)
  BY <1>1, BigEndianBytes
<1>4. ValueOf(BigEndian(limit, 8)) = limit
  BY <1>1, <1>2, BigEndianValue
<1> QED BY <1>3, <1>4, MinimalIsScalar

LEMMA GasLimit ==
  /\ ZERO_TO_EVM_RELEASE_GAS_LIMIT \in ByteStrings(8)
  /\ ValueOf(minimal_be(ZERO_TO_EVM_RELEASE_GAS_LIMIT)) = 500000
<1> DEFINE limit == 500000
<1>1. limit \in Nat /\ limit < 256 * (256 * 256)
  BY SMT
<1>2. ZERO_TO_EVM_RELEASE_GAS_LIMIT = BigEndian(limit, 8)
  BY SMT DEF ZERO_TO_EVM_RELEASE_GAS_LIMIT
<1> HIDE DEF limit
<1>3. /\ BigEndian(limit, 8) \in ByteStrings(8)
      /\ ValueOf(minimal_be(BigEndian(limit, 8))) = limit
  BY <1>1, GasLimitReads
<1> QED BY <1>2, <1>3, SMT DEF limit

(* What the EVM reads in the calldata of a release. *)
CalldataArrives(data, r) ==
  /\ Slice(data, 1, 4) = RELEASE_TO_EVM_SELECTOR
  /\ ValueOf(AbiWord(data, 0)) = r.pair
  /\ ValueOf(AbiWord(data, 1)) = Convert(r.amount, r.zeroDecimals, r.evmDecimals)
  /\ \A k \in 1..12 : AbiWord(data, 2)[k] = 0
  /\ \A k \in 1..40 :
       LET byte == AbiWord(data, 2)[12 + (k + 1) \div 2]
       IN  r.memo.digits[k] = IF k % 2 = 1 THEN byte \div 16 ELSE byte % 16
  /\ AbiWord(data, 3) = r.burn
  /\ AbiString(data, 4) = r.sender

LEMMA CalldataMeansRelease ==
  ASSUME NEW r \in Releases, CanBuild(r)
  PROVE  CalldataArrives(build_release_calldata(r), r)
<1> DEFINE data == build_release_calldata(r)
           amount == convert(r.amount, r.zeroDecimals, r.evmDecimals)
           address == parse_evm_address_string(r.memo)
           Z == Zeros(12)
           word == AbiWord(data, 2)
<1>1. /\ Slice(data, 1, 4) = RELEASE_TO_EVM_SELECTOR
      /\ AbiWord(data, 0) = BigEndian(r.pair, 32)
      /\ AbiWord(data, 1) = BigEndian(amount, 32)
      /\ word = Z \o address
      /\ AbiWord(data, 3) = r.burn
      /\ AbiWord(data, 4) = BigEndian(RELEASE_TO_EVM_HEAD_BYTES, 32)
      /\ Slice(data, 165, 32) = BigEndian(Len(r.sender), 32)
      /\ Slice(data, 197, Len(r.sender)) = r.sender
  BY CalldataReads
<1>2. ValueOf(BigEndian(r.pair, 32)) = r.pair
  <2>1. r.pair \in Nat /\ Fits(r.pair, 8) /\ 8 \in 0..32
    BY WireAssumption
  <2> QED BY <2>1, WordValue
<1>3. ValueOf(BigEndian(amount, 32)) = Convert(r.amount, r.zeroDecimals, r.evmDecimals)
  <2>1. amount = Convert(r.amount, r.zeroDecimals, r.evmDecimals) /\ amount \in 1..MaxUint128
    BY WireAssumption, ConvertExact DEF CanBuild
  <2> HIDE DEF amount
  <2>2. MaxUint128 \in Nat /\ Fits(MaxUint128, 16) /\ 16 \in Nat
    BY WireAssumption, DecimalsAssumption
  <2>3. amount \in Nat /\ amount \in 0..MaxUint128 /\ 16 \in 0..32
    BY <2>1, <2>2
  <2>4. Fits(amount, 16)
    BY <2>2, <2>3, FitsSmaller
  <2>5. ValueOf(BigEndian(amount, 32)) = amount
    BY <2>3, <2>4, WordValue
  <2> QED BY <2>1, <2>5
<1>4. /\ Z \in Bytes /\ Len(Z) = 12 /\ \A k \in 1..12 : Z[k] = 0
  BY ZerosBytes
<1>5. /\ address \in Bytes /\ Len(address) = 20
      /\ \A k \in 1..40 :
           LET byte == address[(k + 1) \div 2]
           IN  r.memo.digits[k] = IF k % 2 = 1 THEN byte \div 16 ELSE byte % 16
  <2>1. r.memo.digits \in Seq(0..NotHex) /\ IsAddress(r.memo)
    BY WireAssumption DEF CanBuild
  <2> QED BY <2>1, ParsedAddress
<1>6. ValueOf(BigEndian(RELEASE_TO_EVM_HEAD_BYTES, 32)) = 160
  <2>1. 160 \in Nat /\ 160 <= 2250 /\ 8 \in 0..32 /\ RELEASE_TO_EVM_HEAD_BYTES = 160
    BY DEF RELEASE_TO_EVM_HEAD_BYTES
  <2>2. Fits(160, 8)
    BY <2>1, ShortFits
  <2> QED BY <2>1, <2>2, WordValue
<1>7. ValueOf(BigEndian(Len(r.sender), 32)) = Len(r.sender)
  <2>1. r.sender \in Bytes /\ Len(r.sender) <= 13
    BY WireAssumption DEF Bytes, Byte
  <2> DEFINE n == Len(r.sender)
  <2>2. n \in Nat /\ n <= 13
    BY <2>1, BytesFacts
  <2> HIDE DEF n
  <2>3. n <= 2250 /\ 8 \in 0..32
    BY <2>2
  <2>4. Fits(n, 8)
    BY <2>2, <2>3, ShortFits
  <2>5. ValueOf(BigEndian(n, 32)) = n
    BY <2>2, <2>3, <2>4, WordValue
  <2> QED BY <2>5 DEF n
<1> HIDE DEF data, amount, address, Z, word
<1>8. (\A k \in 1..12 : word[k] = 0) /\ \A j \in 1..20 : word[12 + j] = address[j]
  <2>1. Z \in Bytes /\ address \in Bytes
    BY <1>4, <1>5
  <2>2. /\ \A i \in 1..Len(Z) : (Z \o address)[i] = Z[i]
        /\ \A i \in 1..Len(address) : (Z \o address)[Len(Z) + i] = address[i]
    BY <2>1, Joined
  <2>3. /\ \A i \in 1..12 : word[i] = Z[i]
        /\ \A i \in 1..20 : word[12 + i] = address[i]
    <3>1. word = Z \o address /\ Len(Z) = 12 /\ Len(address) = 20
      BY <1>1, <1>4, <1>5
    <3> HIDE DEF Z, address, word
    <3> QED BY <2>2, <3>1
  <2> QED BY <1>4, <2>3
<1>9. ASSUME NEW k \in 1..40
       PROVE  r.memo.digits[k] = IF k % 2 = 1 THEN word[12 + (k + 1) \div 2] \div 16
                                            ELSE word[12 + (k + 1) \div 2] % 16
  <2> DEFINE j == (k + 1) \div 2
  <2>1. j \in 1..20
    BY <1>9
  <2>2. r.memo.digits[k] = IF k % 2 = 1 THEN address[j] \div 16 ELSE address[j] % 16
    BY <1>5, <1>9
  <2> HIDE DEF j
  <2>3. word[12 + j] = address[j]
    BY <1>8, <2>1
  <2>4. r.memo.digits[k] = IF k % 2 = 1 THEN word[12 + j] \div 16 ELSE word[12 + j] % 16
    BY <2>2, <2>3
  <2> QED BY <2>4 DEF j
<1>10. AbiString(data, 4) = r.sender
  <2>1. AbiString(data, 4) = Slice(data, 5 + 160 + 32, ValueOf(Slice(data, 5 + 160, 32)))
    BY <1>1, <1>6 DEF AbiString
  <2>2. AbiString(data, 4) = Slice(data, 197, ValueOf(Slice(data, 165, 32)))
    BY <2>1
  <2> QED BY <1>1, <1>7, <2>2
<1> QED BY <1>1, <1>2, <1>3, <1>8, <1>9, <1>10 DEF CalldataArrives, data, word

(* What was sent was built from the request. *)
SentCall ==
  pc = "sent" =>
    result = encode_legacy_tx(job.nonce, job.gasPrice, ZERO_TO_EVM_RELEASE_GAS_LIMIT,
                              job.to, build_release_calldata(job), job.chainId)

LEMMA SentAlways == WireSpec => []SentCall
<1>1. WireInit => SentCall
  BY DEF WireInit, SentCall
<1>2. SentCall /\ [WireNext]_wireVars => SentCall'
  <2> SUFFICES ASSUME SentCall, [WireNext]_wireVars PROVE SentCall'
    OBVIOUS
  <2>1. CASE SendRelease
    BY <2>1 DEF SendRelease, SentCall
  <2>2. CASE AbortRelease
    BY <2>2 DEF AbortRelease, SentCall
  <2>3. CASE CheckProof
    BY <2>3 DEF CheckProof, SentCall
  <2>4. CASE UNCHANGED wireVars
    BY <2>4 DEF wireVars, SentCall
  <2> QED BY <2>1, <2>2, <2>3, <2>4 DEF WireNext
<1> QED BY <1>1, <1>2, PTL DEF WireSpec

(* The call that reaches the EVM is the one the request stands for, for     *)
(* every request: the RLP list is read back item by item and the calldata   *)
(* argument by argument.                                                    *)
THEOREM CallsArrive == WireSpec => []CallArrives
<1>1. Decided /\ SentCall => CallArrives
  <2> SUFFICES ASSUME Decided, SentCall, pc = "sent" PROVE CallArrives
    BY DEF CallArrives
  <2> DEFINE data == build_release_calldata(job)
             limit == ZERO_TO_EVM_RELEASE_GAS_LIMIT
             items == RlpItems(result)
  <2>1. job \in Releases /\ CanBuild(job)
    BY DEF Decided
  <2>2. /\ job.nonce \in ByteStrings(8) /\ job.gasPrice \in ByteStrings(32)
        /\ job.to \in ByteStrings(20) /\ job.chainId \in ByteStrings(8)
    BY <2>1, WireAssumption
  <2>3. data \in Bytes /\ Len(data) <= 240 /\ CalldataArrives(data, job)
    BY <2>1, CalldataReads, CalldataMeansRelease
  <2>4. limit \in ByteStrings(8)
    BY GasLimit, SMT
  <2>5. result = encode_legacy_tx(job.nonce, job.gasPrice, limit, job.to, data, job.chainId)
    BY DEF SentCall
  <2> HIDE DEF data, limit
  <2>6. items = <<minimal_be(job.nonce), minimal_be(job.gasPrice), minimal_be(limit), job.to,
                  << >>, data, minimal_be(job.chainId), << >>, << >> >>
    BY <2>2, <2>3, <2>4, <2>5, CallReads
  <2> HIDE DEF items
  <2>7. /\ Len(items) = 9 /\ items[1] = minimal_be(job.nonce) /\ items[2] = minimal_be(job.gasPrice)
        /\ items[3] = minimal_be(limit) /\ items[4] = job.to /\ items[5] = << >>
        /\ items[6] = data /\ items[7] = minimal_be(job.chainId)
        /\ items[8] = << >> /\ items[9] = << >>
    BY <2>6
  <2>8. /\ IsScalar(items[1], job.nonce) /\ IsScalar(items[2], job.gasPrice)
        /\ IsScalar(items[7], job.chainId)
    <3>1. job.nonce \in Bytes /\ job.gasPrice \in Bytes /\ job.chainId \in Bytes
      BY <2>2, StringsAreBytes
    <3> QED BY <2>7, <3>1, MinimalIsScalar
  <2>9. ValueOf(items[3]) = 500000
    BY <2>7, GasLimit, SMT DEF limit
  <2>10. CalldataArrives(items[6], job)
    BY <2>3, <2>7
  <2> QED BY <2>7, <2>8, <2>9, <2>10, SMT DEF CallArrives, CalldataArrives, items
<1> QED BY <1>1, DecidedAlways, SentAlways, PTL
-----------------------------------------------------------------------------
(* The proof words.  A slot is a byte string, and its number is the last    *)
(* entry of the table of the numbers of its prefixes.                       *)
Slots == ByteStrings(SlotBytes)

LEMMA SlotFacts ==
  /\ SlotBytes \in Nat
  /\ \A b \in Slots : /\ Len(b) = SlotBytes /\ DOMAIN b = 1..SlotBytes
                      /\ \A i \in 1..SlotBytes : b[i] \in 0..255
<1>1. SlotBytes \in Nat
  BY StorageAssumption
<1>2. ASSUME NEW b \in Slots PROVE Len(b) = SlotBytes
  <2>1. b \in Seq(0..255) /\ DOMAIN b = 1..SlotBytes
    BY <1>1, <1>2, IsASeq DEF Slots, ByteStrings
  <2> QED BY <1>1, <2>1, LenProperties
<1> QED BY <1>1, <1>2 DEF Slots, ByteStrings

LEMMA SlotTable ==
  ASSUME NEW b \in Slots
  PROVE  \E f \in [0..SlotBytes -> Nat] :
           /\ f[0] = 0 /\ \A i \in 1..SlotBytes : f[i] = 256 * f[i-1] + b[i]
           /\ ValueOf(b) = f[SlotBytes]
<1>1. SlotBytes \in Nat
  BY SlotFacts
<1>2. b \in Bytes /\ Len(b) = SlotBytes
  BY <1>1, StringsAreBytes DEF Slots
<1>3. PICK f \in [0..Len(b) -> Nat] : PrefixValues(f, b) /\ ValueOf(b) = f[Len(b)]
  BY <1>2, ValueTable
<1> QED BY <1>2, <1>3 DEF PrefixValues

(* Two slots with the same number are the same slot: from the last byte to  *)
(* the first, equal values of the prefixes have equal last bytes.           *)
LEMMA SameNumberSameSlot ==
  ASSUME NEW a \in Slots, NEW b \in Slots, ValueOf(a) = ValueOf(b)
  PROVE  a = b
<1> DEFINE n == SlotBytes
<1>0. n \in Nat /\ \A i \in 1..n : a[i] \in 0..255 /\ b[i] \in 0..255
  BY SlotFacts
<1>1. PICK f \in [0..n -> Nat] :
        /\ f[0] = 0 /\ \A i \in 1..n : f[i] = 256 * f[i-1] + a[i]
        /\ ValueOf(a) = f[n]
  BY SlotTable
<1>2. PICK g \in [0..n -> Nat] :
        /\ g[0] = 0 /\ \A i \in 1..n : g[i] = 256 * g[i-1] + b[i]
        /\ ValueOf(b) = g[n]
  BY SlotTable
<1>3. /\ \A i \in 1..n : f[i] = 256 * f[i-1] + a[i]
      /\ \A i \in 1..n : g[i] = 256 * g[i-1] + b[i]
  BY <1>1, <1>2
<1>4. f[n] = g[n]
  BY <1>1, <1>2
<1> HIDE DEF n
<1>5. ASSUME NEW i \in 1..n, f[i] = g[i] PROVE f[i-1] = g[i-1] /\ a[i] = b[i]
  <2>1. /\ f[i-1] \in Nat /\ g[i-1] \in Nat /\ a[i] \in 0..255 /\ b[i] \in 0..255
        /\ 256 * f[i-1] + a[i] = 256 * g[i-1] + b[i]
    BY <1>0, <1>3, <1>5
  <2> DEFINE x == f[i-1]
             y == g[i-1]
             u == a[i]
             v == b[i]
  <2>2. x \in Nat /\ y \in Nat /\ u \in 0..255 /\ v \in 0..255 /\ 256 * x + u = 256 * y + v
    BY <2>1
  <2> HIDE DEF x, y, u, v
  <2>3. x = y /\ u = v
    BY <2>2
  <2> QED BY <2>3 DEF x, y, u, v
<1>6. \A k \in 0..n : f[n - k] = g[n - k]
  <2> DEFINE Bad == {k \in 0..n : f[n - k] # g[n - k]}
  <2>1. SUFFICES ASSUME Bad # {} PROVE FALSE
    OBVIOUS
  <2>2. PICK m \in Bad : \A k \in Bad : m <= k
    <3> Bad \in SUBSET Nat
      OBVIOUS
    <3> HIDE DEF Bad
    <3> QED BY <2>1, Least
  <2>3. m \in 0..n /\ f[n - m] # g[n - m] /\ m # 0
    BY <1>0, <1>4, <2>2
  <2> HIDE DEF Bad
  <2>4. m - 1 \in 0..n /\ ~(m <= m - 1) /\ n - (m - 1) \in 1..n /\ (n - (m - 1)) - 1 = n - m
    BY <1>0, <2>3
  <2>5. f[n - (m - 1)] = g[n - (m - 1)]
    BY <2>2, <2>4 DEF Bad
  <2> QED BY <1>5, <2>3, <2>4, <2>5
<1>7. ASSUME NEW i \in 1..n PROVE a[i] = b[i]
  <2>1. n - i \in 0..n /\ n - (n - i) = i
    BY <1>0, <1>7
  <2>2. f[i] = g[i]
    BY <1>6, <2>1
  <2> QED BY <1>5, <2>2
<1>8. a \in [1..n -> 0..255] /\ b \in [1..n -> 0..255]
  BY DEF Slots, ByteStrings, n
<1>9. a = [i \in 1..n |-> a[i]] /\ b = [i \in 1..n |-> b[i]]
  BY <1>8
<1>10. [i \in 1..n |-> a[i]] = [i \in 1..n |-> b[i]]
  BY <1>7
<1> QED BY <1>9, <1>10
-----------------------------------------------------------------------------
(* The carries of add_storage_slot_offset: c[i] is the carry into byte i.   *)
Carries(c, slot, offset) ==
  c[SlotBytes] = offset
    /\ \A i \in 1..SlotBytes : c[i-1] = (slot[i] + c[i]) \div 256

LEMMA CarriesExist ==
  ASSUME NEW slot \in Slots, NEW offset \in Nat
  PROVE  \E c \in [0..SlotBytes -> Nat] : Carries(c, slot, offset)
<1> DEFINE n == SlotBytes
           Down(c, m) == c[n] = offset /\ \A i \in (m+1)..n : c[i-1] = (slot[i] + c[i]) \div 256
           Bad == {k \in 0..n : ~\E c \in [0..n -> Nat] : Down(c, n - k)}
<1>0. n \in Nat /\ \A i \in 1..n : slot[i] \in 0..255
  BY SlotFacts
<1> HIDE DEF n
<1>1. SUFFICES ASSUME Bad # {} PROVE FALSE
  <2>1. n \in 0..n /\ n - n = 0
    BY <1>0
  <2>2. \E c \in [0..n -> Nat] : Down(c, 0)
    <3> HIDE DEF Down
    <3> QED BY <1>1, <2>1
  <2>3. PICK c \in [0..n -> Nat] : Down(c, 0)
    <3> HIDE DEF Down
    <3> QED BY <2>2
  <2>4. \A i \in 1..n : i \in (0+1)..n
    OBVIOUS
  <2>5. c[n] = offset
    BY <2>3
  <2>6. \A i \in 1..n : c[i-1] = (slot[i] + c[i]) \div 256
    BY <2>3, <2>4
  <2> HIDE DEF Down
  <2> QED BY <2>5, <2>6 DEF Carries, n
<1>2. PICK k \in Bad : \A j \in Bad : k <= j
  <2> Bad \in SUBSET Nat
    OBVIOUS
  <2> HIDE DEF Bad
  <2> QED BY <1>1, Least
<1>3. k \in 0..n
  BY <1>2
<1> HIDE DEF Bad
<1>4. CASE k = 0
  <2> DEFINE flat == [i \in 0..n |-> offset]
  <2>1. flat \in [0..n -> Nat] /\ Down(flat, n)
    BY <1>0
  <2>2. n - k = n
    BY <1>0, <1>4
  <2> HIDE DEF Down, flat
  <2> QED BY <1>2, <2>1, <2>2 DEF Bad
<1>5. CASE k # 0
  <2> DEFINE m == n - k
  <2>1. /\ k - 1 \in 0..n /\ ~(k <= k - 1) /\ n - (k - 1) = m + 1
        /\ m \in 0..n /\ m + 1 \in 1..n /\ m # n
    BY <1>0, <1>3, <1>5
  <2> HIDE DEF m
  <2>2. k - 1 \notin Bad
    BY <1>2, <2>1
  <2>3. PICK c \in [0..n -> Nat] : Down(c, m + 1)
    <3> HIDE DEF Down
    <3> QED BY <2>1, <2>2 DEF Bad
  <2> DEFINE v == (slot[m+1] + c[m+1]) \div 256
             e == [c EXCEPT ![m] = v]
  <2>4. v \in Nat
    <3>1. slot[m+1] \in 0..255 /\ c[m+1] \in Nat
      BY <1>0, <2>1
    <3>2. \A x \in 0..255, y \in Nat : (x + y) \div 256 \in Nat
      OBVIOUS
    <3> QED BY <3>1, <3>2, Zenon
  <2> HIDE DEF v
  <2>5. e \in [0..n -> Nat] /\ e[m] = v /\ \A i \in (m+1)..n : e[i] = c[i]
    BY <1>0, <2>1, <2>4
  <2> HIDE DEF e
  <2>6. ASSUME NEW i \in (m+1)..n PROVE e[i-1] = (slot[i] + e[i]) \div 256
    <3>1. CASE i = m + 1
      <4>1. i - 1 = m /\ e[i] = c[i]
        BY <2>1, <2>5, <2>6, <3>1
      <4> QED BY <2>5, <3>1, <4>1 DEF v
    <3>2. CASE i # m + 1
      <4>0. m \in Nat /\ n \in Nat
        BY <1>0, <2>1
      <4>1. i \in ((m+1)+1)..n /\ i - 1 \in (m+1)..n
        BY <2>6, <3>2, <4>0
      <4> QED BY <2>3, <2>5, <4>1
    <3> QED BY <3>1, <3>2
  <2>7. e[n] = offset
    <3>1. n \in (m+1)..n
      BY <1>0, <2>1
    <3> QED BY <2>3, <2>5, <3>1
  <2>8. Down(e, m)
    BY <2>6, <2>7
  <2> HIDE DEF Down
  <2> QED BY <1>2, <2>5, <2>8 DEF Bad, m
<1> QED BY <1>4, <1>5

LEMMA CarryTable ==
  ASSUME NEW slot \in Slots, NEW offset \in Nat
  PROVE  Carry(slot, offset) \in [0..SlotBytes -> Nat] /\ Carries(Carry(slot, offset), slot, offset)
<1> DEFINE n == SlotBytes
           chosen == CHOOSE f :
             f = [i \in 0..n |-> IF i = n THEN offset ELSE (slot[i+1] + f[i+1]) \div 256]
<1>1. n \in Nat
  BY SlotFacts
<1>2. PICK c \in [0..n -> Nat] : Carries(c, slot, offset)
  BY CarriesExist
<1>3. c = [i \in 0..n |-> IF i = n THEN offset ELSE (slot[i+1] + c[i+1]) \div 256]
  <2>1. ASSUME NEW i \in 0..n
        PROVE  c[i] = IF i = n THEN offset ELSE (slot[i+1] + c[i+1]) \div 256
    <3>1. CASE i = n
      BY <1>2, <3>1 DEF Carries
    <3>2. CASE i # n
      <4>1. i + 1 \in 1..n /\ (i + 1) - 1 = i
        BY <1>1, <2>1, <3>2
      <4> QED BY <1>2, <3>2, <4>1 DEF Carries
    <3> QED BY <3>1, <3>2
  <2> QED BY <1>2, <2>1
<1>4. chosen = [i \in 0..n |-> IF i = n THEN offset ELSE (slot[i+1] + chosen[i+1]) \div 256]
  BY <1>3
<1>5. Carry(slot, offset) = chosen
  BY DEF Carry
<1> HIDE DEF chosen
<1>6. \A i \in 0..n : chosen[i] = IF i = n THEN offset ELSE (slot[i+1] + chosen[i+1]) \div 256
  BY <1>4
<1>7. ASSUME NEW i \in 1..n PROVE chosen[i-1] = (slot[i] + chosen[i]) \div 256
  <2>1. i - 1 \in 0..n /\ i - 1 # n /\ (i - 1) + 1 = i
    BY <1>1, <1>7
  <2> QED BY <1>6, <2>1
<1>8. Carries(chosen, slot, offset)
  BY <1>1, <1>6, <1>7 DEF Carries
<1>9. \A k \in 0..n : chosen[n-k] = c[n-k]
  <2> DEFINE Bad == {k \in 0..n : chosen[n-k] # c[n-k]}
  <2>1. SUFFICES ASSUME Bad # {} PROVE FALSE
    OBVIOUS
  <2>2. PICK m \in Bad : \A k \in Bad : m <= k
    <3> Bad \in SUBSET Nat
      OBVIOUS
    <3> HIDE DEF Bad
    <3> QED BY <2>1, Least
  <2>3. m \in 0..n /\ chosen[n-m] # c[n-m] /\ n - 0 = n
    BY <1>1, <2>2
  <2>4. m # 0
    BY <1>2, <1>8, <2>3 DEF Carries
  <2> HIDE DEF Bad
  <2>5. m - 1 \in 0..n /\ ~(m <= m - 1) /\ n - (m - 1) \in 1..n /\ (n - (m - 1)) - 1 = n - m
    BY <1>1, <2>3, <2>4
  <2>6. chosen[n-(m-1)] = c[n-(m-1)]
    BY <2>2, <2>5 DEF Bad
  <2> DEFINE i == n - (m - 1)
  <2>7. chosen[i-1] = (slot[i] + chosen[i]) \div 256 /\ c[i-1] = (slot[i] + c[i]) \div 256
    BY <1>2, <1>7, <2>5 DEF Carries
  <2> QED BY <2>3, <2>5, <2>6, <2>7
<1>10. \A i \in 0..n : chosen[i] = c[i]
  <2>1. \A i \in 0..n : n - i \in 0..n /\ n - (n - i) = i
    BY <1>1
  <2> QED BY <1>9, <2>1
<1>11. chosen = c
  BY <1>3, <1>4, <1>10
<1> QED BY <1>2, <1>5, <1>11
-----------------------------------------------------------------------------
LEMMA LastSlotIsSlot == LastSlot \in Slots
BY SlotFacts DEF LastSlot, Slots, ByteStrings

(* No slot has a higher number than the last one. *)
LEMMA NumbersBounded ==
  ASSUME NEW b \in Slots
  PROVE  ValueOf(b) \in Nat /\ ValueOf(LastSlot) \in Nat /\ ValueOf(b) <= ValueOf(LastSlot)
<1> DEFINE n == SlotBytes
<1>0. n \in Nat /\ \A i \in 1..n : b[i] \in 0..255 /\ LastSlot[i] = 255
  BY SlotFacts DEF LastSlot
<1>1. PICK f \in [0..n -> Nat] :
        /\ f[0] = 0 /\ \A i \in 1..n : f[i] = 256 * f[i-1] + b[i]
        /\ ValueOf(b) = f[n]
  BY SlotTable
<1>2. PICK g \in [0..n -> Nat] :
        /\ g[0] = 0 /\ \A i \in 1..n : g[i] = 256 * g[i-1] + LastSlot[i]
        /\ ValueOf(LastSlot) = g[n]
  BY LastSlotIsSlot, SlotTable
<1>3. /\ f[0] = 0 /\ \A i \in 1..n : f[i] = 256 * f[i-1] + b[i]
      /\ g[0] = 0 /\ \A i \in 1..n : g[i] = 256 * g[i-1] + 255
  <2>1. f[0] = 0 /\ \A i \in 1..n : f[i] = 256 * f[i-1] + b[i]
    BY <1>1
  <2>2. g[0] = 0 /\ \A i \in 1..n : g[i] = 256 * g[i-1] + LastSlot[i]
    BY <1>2
  <2>3. \A i \in 1..n : g[i] = 256 * g[i-1] + 255
    <3> SUFFICES ASSUME NEW i \in 1..n PROVE g[i] = 256 * g[i-1] + 255
      OBVIOUS
    <3>1. g[i] = 256 * g[i-1] + LastSlot[i]
      BY <2>2
    <3>2. LastSlot[i] = 255
      BY <1>0
    <3> QED BY <3>1, <3>2
  <2> QED BY <2>1, <2>2, <2>3
<1>4. f[n] \in Nat /\ g[n] \in Nat
  BY <1>0
<1>5. \A i \in 0..n : f[i] <= g[i]
  <2> DEFINE Bad == {i \in 0..n : ~(f[i] <= g[i])}
  <2>1. SUFFICES ASSUME Bad # {} PROVE FALSE
    OBVIOUS
  <2>2. PICK m \in Bad : \A k \in Bad : m <= k
    <3> Bad \in SUBSET Nat
      OBVIOUS
    <3> HIDE DEF Bad
    <3> QED BY <2>1, Least
  <2>3. m \in 0..n /\ ~(f[m] <= g[m]) /\ m # 0
    BY <1>3, <2>2
  <2> HIDE DEF Bad
  <2>4. m - 1 \in 0..n /\ ~(m <= m - 1) /\ m \in 1..n
    BY <1>0, <2>3
  <2>5. f[m-1] <= g[m-1] /\ f[m-1] \in Nat /\ g[m-1] \in Nat /\ b[m] \in 0..255
    BY <1>0, <2>2, <2>4 DEF Bad
  <2>6. f[m] = 256 * f[m-1] + b[m] /\ g[m] = 256 * g[m-1] + 255
    BY <1>3, <2>4
  <2> DEFINE x == f[m-1]
             y == g[m-1]
             u == b[m]
  <2>7. x <= y /\ x \in Nat /\ y \in Nat /\ u \in 0..255 /\ ~(256 * x + u <= 256 * y + 255)
    BY <2>3, <2>5, <2>6
  <2> HIDE DEF x, y, u
  <2> QED BY <2>7
<1> QED BY <1>0, <1>1, <1>2, <1>4, <1>5

(* What the loop adds up to: the slot's number and the offset, less what    *)
(* was carried out of the first byte.                                       *)
LEMMA OffsetAdds ==
  ASSUME NEW slot \in Slots, NEW offset \in Nat
  PROVE  /\ add_storage_slot_offset(slot, offset) \in Slots
         /\ Carry(slot, offset)[0] \in Nat
         /\ ValueOf(slot) + offset = ValueOf(add_storage_slot_offset(slot, offset))
                                       + Carry(slot, offset)[0] * (ValueOf(LastSlot) + 1)
<1> DEFINE n == SlotBytes
           c == Carry(slot, offset)
           out == add_storage_slot_offset(slot, offset)
<1>0. /\ n \in Nat /\ \A i \in 1..n : slot[i] \in 0..255
      /\ \A i \in 1..n : LastSlot[i] = 255
  BY SlotFacts DEF LastSlot
<1>1. c \in [0..n -> Nat] /\ c[n] = offset /\ \A i \in 1..n : c[i-1] = (slot[i] + c[i]) \div 256
  BY CarryTable DEF Carries
<1>2. out = [i \in 1..n |-> (slot[i] + c[i]) % 256]
  BY DEF add_storage_slot_offset
<1> HIDE DEF c, out
<1>3. ASSUME NEW i \in 1..n
      PROVE  out[i] \in 0..255 /\ slot[i] + c[i] = 256 * c[i-1] + out[i]
  <2> DEFINE x == slot[i] + c[i]
  <2>1. x \in Nat /\ out[i] = x % 256 /\ c[i-1] = x \div 256
    <3>1. slot[i] \in 0..255
      BY <1>0
    <3>2. c[i] \in Nat
      BY <1>1
    <3>3. slot[i] + c[i] \in Nat
      BY <3>1, <3>2
    <3> QED BY <1>1, <1>2, <3>3
  <2> HIDE DEF x
  <2>2. x % 256 \in 0..255 /\ x = 256 * (x \div 256) + (x % 256)
    BY <2>1
  <2> QED BY <2>1, <2>2 DEF x
<1>4. out \in Slots
  BY <1>2, <1>3 DEF Slots, ByteStrings
<1>5. PICK f \in [0..n -> Nat] :
        /\ f[0] = 0 /\ \A i \in 1..n : f[i] = 256 * f[i-1] + slot[i]
        /\ ValueOf(slot) = f[n]
  BY SlotTable
<1>6. PICK g \in [0..n -> Nat] :
        /\ g[0] = 0 /\ \A i \in 1..n : g[i] = 256 * g[i-1] + out[i]
        /\ ValueOf(out) = g[n]
  BY <1>4, SlotTable
<1>7. PICK h \in [0..n -> Nat] :
        /\ h[0] = 0 /\ \A i \in 1..n : h[i] = 256 * h[i-1] + LastSlot[i]
        /\ ValueOf(LastSlot) = h[n]
  BY LastSlotIsSlot, SlotTable
<1>8. /\ f[0] = 0 /\ \A i \in 1..n : f[i] = 256 * f[i-1] + slot[i]
      /\ g[0] = 0 /\ \A i \in 1..n : g[i] = 256 * g[i-1] + out[i]
      /\ h[0] = 0 /\ \A i \in 1..n : h[i] = 256 * h[i-1] + 255
  <2>1. f[0] = 0 /\ \A i \in 1..n : f[i] = 256 * f[i-1] + slot[i]
    BY <1>5
  <2>2. g[0] = 0 /\ \A i \in 1..n : g[i] = 256 * g[i-1] + out[i]
    BY <1>6
  <2>3. h[0] = 0 /\ \A i \in 1..n : h[i] = 256 * h[i-1] + LastSlot[i]
    BY <1>7
  <2>4. \A i \in 1..n : h[i] = 256 * h[i-1] + 255
    <3> SUFFICES ASSUME NEW i \in 1..n PROVE h[i] = 256 * h[i-1] + 255
      OBVIOUS
    <3>1. h[i] = 256 * h[i-1] + LastSlot[i]
      BY <2>3
    <3>2. LastSlot[i] = 255
      BY <1>0
    <3> QED BY <3>1, <3>2
  <2> QED BY <2>1, <2>2, <2>3, <2>4
<1>9. c[0] \in Nat /\ 0 \in 0..n /\ n \in 0..n
  BY <1>0, <1>1
<1>10. \A i \in 0..n : f[i] + c[i] = g[i] + c[0] * (h[i] + 1)
  <2> DEFINE Bad == {i \in 0..n : ~(f[i] + c[i] = g[i] + c[0] * (h[i] + 1))}
  <2>1. SUFFICES ASSUME Bad # {} PROVE FALSE
    OBVIOUS
  <2>2. PICK m \in Bad : \A k \in Bad : m <= k
    <3> Bad \in SUBSET Nat
      OBVIOUS
    <3> HIDE DEF Bad
    <3> QED BY <2>1, Least
  <2>3. m \in 0..n /\ ~(f[m] + c[m] = g[m] + c[0] * (h[m] + 1))
    BY <2>2
  <2> HIDE DEF Bad
  <2>4. m # 0
    <3>1. c[0] * (0 + 1) = c[0] /\ 0 + c[0] = c[0]
      BY <1>9
    <3> QED BY <1>8, <2>3, <3>1
  <2>5. m - 1 \in 0..n /\ ~(m <= m - 1) /\ m \in 1..n
    BY <1>0, <2>3, <2>4
  <2>6. f[m-1] + c[m-1] = g[m-1] + c[0] * (h[m-1] + 1)
    BY <2>2, <2>5 DEF Bad
  <2> DEFINE f0 == f[m-1]
             c1 == c[m-1]
             g0 == g[m-1]
             h0 == h[m-1]
             k == c[0]
             z == k * (h0 + 1)
             z1 == k * (256 * h0 + 255 + 1)
  <2>7. f0 \in Nat /\ c1 \in Nat /\ g0 \in Nat /\ h0 \in Nat /\ k \in Nat
    BY <1>1, <1>9, <2>5
  <2>8. /\ f[m] = 256 * f0 + slot[m] /\ g[m] = 256 * g0 + out[m] /\ h[m] = 256 * h0 + 255
        /\ slot[m] + c[m] = 256 * c1 + out[m] /\ f0 + c1 = g0 + z
        /\ slot[m] \in Nat /\ out[m] \in Nat /\ c[m] \in Nat
    <3>1. /\ f[m] = 256 * f0 + slot[m] /\ g[m] = 256 * g0 + out[m] /\ h[m] = 256 * h0 + 255
      BY <1>8, <2>5
    <3>2. slot[m] + c[m] = 256 * c1 + out[m] /\ out[m] \in 0..255
      BY <1>3, <2>5
    <3>3. slot[m] \in 0..255
      BY <1>0, <2>5
    <3>4. c[m] \in Nat
      BY <1>1, <2>5
    <3>5. slot[m] \in Nat /\ out[m] \in Nat
      <4>1. \A x \in 0..255 : x \in Nat
        OBVIOUS
      <4> QED BY <3>2, <3>3, <4>1, Zenon
    <3>6. f0 + c1 = g0 + z
      BY <2>6
    <3> QED BY <3>1, <3>2, <3>4, <3>5, <3>6, Zenon
  <2>9. ~(f[m] + c[m] = g[m] + z1)
    BY <2>3, <2>8
  <2> HIDE DEF f0, c1, g0, h0, k
  <2>10. z \in Nat /\ z1 \in Nat /\ z1 = 256 * z
    BY <2>7
  <2> HIDE DEF z, z1
  <2> DEFINE u == slot[m]
             v == out[m]
             w == c[m]
  <2>11. /\ u \in Nat /\ v \in Nat /\ w \in Nat /\ u + w = 256 * c1 + v /\ f0 + c1 = g0 + z
         /\ ~((256 * f0 + u) + w = (256 * g0 + v) + z1)
    BY <2>8, <2>9
  <2> HIDE DEF u, v, w
  <2> QED BY <2>7, <2>10, <2>11
<1>11. f[n] + c[n] = g[n] + c[0] * (h[n] + 1)
  BY <1>9, <1>10
<1> QED BY <1>1, <1>4, <1>5, <1>6, <1>7, <1>9, <1>11 DEF c, out

(* An offset aborts exactly when it leaves the storage, and otherwise it    *)
(* reaches the slot that the EVM reaches.                                   *)
LEMMA OffsetReaches ==
  ASSUME NEW slot \in Slots, NEW offset \in Nat
  PROVE  /\ CanOffset(slot, offset) <=> ValueOf(slot) + offset <= ValueOf(LastSlot)
         /\ CanOffset(slot, offset) =>
              ValueOf(add_storage_slot_offset(slot, offset)) = SlotNumber(slot, offset)
<1> DEFINE out == add_storage_slot_offset(slot, offset)
           v == ValueOf(slot)
           w == ValueOf(out)
           k == Carry(slot, offset)[0]
           last == ValueOf(LastSlot)
<1>1. out \in Slots /\ k \in Nat /\ v + offset = w + k * (last + 1)
  BY OffsetAdds
<1>2. v \in Nat /\ last \in Nat /\ v <= last
  BY NumbersBounded
<1>3. w \in Nat /\ w <= last
  BY <1>1, NumbersBounded
<1>4. CanOffset(slot, offset) <=> k = 0
  BY DEF CanOffset
<1>5. SlotNumber(slot, offset) = (v + offset) % (last + 1)
  BY DEF SlotNumber
<1> HIDE DEF out, v, w, k, last
<1>6. CASE k = 0
  <2>1. k * (last + 1) = 0
    BY <1>2, <1>6
  <2>2. v + offset = w
    BY <1>1, <1>3, <2>1
  <2>3. w % (last + 1) = w
    BY <1>2, <1>3
  <2> QED BY <1>3, <1>4, <1>5, <1>6, <2>2, <2>3 DEF out, v, w, last
<1>7. CASE k # 0
  <2> DEFINE product == k * (last + 1)
  <2>1. product \in Nat /\ product >= last + 1
    BY <1>1, <1>2, <1>7
  <2>2. v + offset = w + product
    BY <1>1
  <2> HIDE DEF product
  <2>3. ~(v + offset <= last)
    BY <1>2, <1>3, <2>1, <2>2
  <2> QED BY <1>4, <1>7, <2>3 DEF v, last
<1> QED BY <1>6, <1>7

LEMMA ReadsWord ==
  ASSUME NEW c \in Proofs, NEW k \in Nat, NEW word, CanOffset(c.base, k), Stores(c, k, word)
  PROVE  read_evm_storage(c.storage, add_storage_slot_offset(c.base, k)) = word
<1>1. c.base \in Slots /\ DOMAIN c.storage \subseteq Slots
  BY StorageAssumption DEF Slots
<1>2. PICK slot \in DOMAIN c.storage :
        ValueOf(slot) = SlotNumber(c.base, k) /\ c.storage[slot] = word
  BY DEF Stores
<1>3. /\ add_storage_slot_offset(c.base, k) \in Slots
      /\ ValueOf(add_storage_slot_offset(c.base, k)) = SlotNumber(c.base, k)
  BY <1>1, OffsetAdds, OffsetReaches
<1>4. slot = add_storage_slot_offset(c.base, k)
  BY <1>1, <1>2, <1>3, SameNumberSameSlot
<1> QED BY <1>2, <1>4 DEF read_evm_storage
-----------------------------------------------------------------------------
(* The comparisons of single words. *)
LEMMA WordIsNumber ==
  ASSUME NEW word \in ByteStrings(32), NEW v \in Nat, Fits(v, 8)
  PROVE  FitsUint64(word) /\ checksum256_to_uint64(word) = BigEndian(v, 8)
           <=> word = BigEndian(v, 32)
<1> DEFINE long == BigEndian(v, 32)
           short == BigEndian(v, 8)
<1>1. /\ long = [k \in 1..32 |-> Shifted(v, 32 - k) % 256]
      /\ short = [k \in 1..8 |-> Shifted(v, 8 - k) % 256]
  BY DEF BigEndian
<1>2. ASSUME NEW k \in 1..24 PROVE long[k] = 0
  <2>1. 32 - k \in Nat /\ 8 <= 32 - k /\ 8 \in Nat /\ k \in 1..32
    BY <1>2
  <2>2. Fits(v, 32 - k)
    BY <2>1, FitsWider
  <2>3. Shifted(v, 32 - k) = 0
    BY <2>2 DEF Fits
  <2>4. long[k] = Shifted(v, 32 - k) % 256
    BY <1>1, <2>1
  <2> QED BY <2>3, <2>4
<1>3. ASSUME NEW k \in 1..8 PROVE long[24 + k] = short[k]
  <2>1. 24 + k \in 1..32 /\ 32 - (24 + k) = 8 - k
    BY <1>3
  <2>2. long[24 + k] = Shifted(v, 32 - (24 + k)) % 256
    BY <1>1, <2>1
  <2>3. short[k] = Shifted(v, 8 - k) % 256
    BY <1>1, <1>3
  <2> QED BY <2>1, <2>2, <2>3
<1>4. \A k \in 1..32 : k \in 1..24 \/ (k - 24 \in 1..8 /\ 24 + (k - 24) = k)
  OBVIOUS
<1>5. word = [k \in 1..32 |-> word[k]] /\ DOMAIN long = 1..32 /\ DOMAIN short = 1..8
  BY <1>1 DEF ByteStrings
<1> HIDE DEF long, short
<1>6. ASSUME word = long PROVE FitsUint64(word) /\ checksum256_to_uint64(word) = short
  <2>1. FitsUint64(word)
    BY <1>2, <1>6 DEF FitsUint64
  <2>2. short = [k \in 1..8 |-> short[k]]
    BY <1>1
  <2>3. checksum256_to_uint64(word) = [k \in 1..8 |-> word[24 + k]]
    BY DEF checksum256_to_uint64
  <2> QED BY <1>3, <1>6, <2>1, <2>2, <2>3
<1>7. ASSUME FitsUint64(word), checksum256_to_uint64(word) = short PROVE word = long
  <2>1. ASSUME NEW k \in 1..32 PROVE word[k] = long[k]
    <3>1. CASE k \in 1..24
      BY <1>2, <1>7, <3>1 DEF FitsUint64
    <3>2. CASE k \notin 1..24
      <4>1. k - 24 \in 1..8 /\ 24 + (k - 24) = k
        BY <1>4, <3>2
      <4>2. short[k - 24] = word[24 + (k - 24)]
        BY <1>7, <4>1 DEF checksum256_to_uint64
      <4> QED BY <1>3, <4>1, <4>2
    <3> QED BY <3>1, <3>2
  <2>2. long = [k \in 1..32 |-> long[k]]
    BY <1>1
  <2>3. [k \in 1..32 |-> word[k]] = [k \in 1..32 |-> long[k]]
    BY <2>1
  <2> QED BY <1>5, <2>2, <2>3
<1> QED BY <1>6, <1>7 DEF long, short

LEMMA MarkerWord == checksum256_is_one(One) /\ ~checksum256_is_one(Zeros(32))
<1>1. checksum256_is_one(One)
  BY DEF checksum256_is_one, One
<1>2. Zeros(32)[32] = 0
  BY DEF Zeros
<1> QED BY <1>1, <1>2 DEF checksum256_is_one

LEMMA SenderWord ==
  ASSUME NEW a \in ByteStrings(20), NEW b \in ByteStrings(20)
  PROVE  padded_address_equals(Padded(a), b) <=> a = b
<1>1. ASSUME NEW i \in 1..20 PROVE Padded(a)[i + 12] = a[i]
  <2>1. i + 12 \in 1..32 /\ ~(i + 12 <= 12) /\ (i + 12) - 12 = i
    BY <1>1
  <2> QED BY <2>1 DEF Padded
<1>2. \A i \in 1..12 : Padded(a)[i] = 0
  BY DEF Padded
<1>3. a = [i \in 1..20 |-> a[i]] /\ b = [i \in 1..20 |-> b[i]]
  BY DEF ByteStrings
<1>4. ASSUME padded_address_equals(Padded(a), b) PROVE a = b
  <2>1. \A i \in 1..20 : a[i] = b[i]
    BY <1>1, <1>4 DEF padded_address_equals
  <2>2. [i \in 1..20 |-> a[i]] = [i \in 1..20 |-> b[i]]
    BY <2>1
  <2> QED BY <1>3, <2>2
<1> QED BY <1>1, <1>2, <1>4 DEF padded_address_equals
-----------------------------------------------------------------------------
(* The deposit that the arguments of proveetoz name is the one stored.      *)
SameDeposit(c) ==
  /\ c.deposit.exists
  /\ c.deposit.pair = BigEndian(c.pair, 32) /\ c.deposit.amount = BigEndian(c.amount, 32)
  /\ c.deposit.sender = c.sender /\ c.deposit.receiver = c.receiver
LeavesStorage(c) == ValueOf(c.base) + 5 > ValueOf(LastSlot)

LEMMA AllOffsets ==
  ASSUME NEW c \in Proofs
  PROVE  (\A offset \in 0..5 : CanOffset(c.base, offset)) <=> ~LeavesStorage(c)
<1>1. c.base \in Slots
  BY StorageAssumption DEF Slots
<1>2. \A offset \in 0..5 :
        CanOffset(c.base, offset) <=> ValueOf(c.base) + offset <= ValueOf(LastSlot)
  BY <1>1, OffsetReaches
<1>3. ValueOf(c.base) \in Nat /\ ValueOf(LastSlot) \in Nat
  BY <1>1, NumbersBounded
<1> QED BY <1>2, <1>3 DEF LeavesStorage

LEMMA ProvesMeansStored ==
  ASSUME NEW c \in Proofs
  PROVE  Proves(c) <=> SameDeposit(c) /\ ~LeavesStorage(c)
<1> DEFINE d == c.deposit
           Word(k) == read_evm_storage(c.storage, add_storage_slot_offset(c.base, k))
<1>1. /\ c.base \in Slots /\ DOMAIN c.storage \subseteq Slots /\ c.sender \in ByteStrings(20)
      /\ d.exists \in BOOLEAN /\ d.pair \in ByteStrings(32) /\ d.amount \in ByteStrings(32)
      /\ d.sender \in ByteStrings(20) /\ FitsUint64(d.createdAt)
      /\ checksum256_to_uint64(d.createdAt) # Zeros(8) /\ StoresRequestProof(c)
  BY StorageAssumption DEF Slots
<1>2. Proves(c) <=>
        /\ \A offset \in 0..5 : CanOffset(c.base, offset)
        /\ checksum256_is_one(Word(5))
        /\ FitsUint64(Word(0)) /\ checksum256_to_uint64(Word(0)) = BigEndian(c.pair, 8)
        /\ FitsUint64(Word(1)) /\ checksum256_to_uint64(Word(1)) = BigEndian(c.amount, 8)
        /\ padded_address_equals(Word(2), c.sender)
        /\ Word(3) = c.receiver
        /\ FitsUint64(Word(4)) /\ checksum256_to_uint64(Word(4)) # Zeros(8)
  BY DEF Proves
<1>3. CASE LeavesStorage(c)
  BY <1>2, <1>3, AllOffsets
<1>4. CASE ~LeavesStorage(c) /\ ~d.exists
  <2>1. CanOffset(c.base, 5)
    BY <1>4, AllOffsets
  <2> DEFINE marker == add_storage_slot_offset(c.base, 5)
  <2>2. ValueOf(marker) = SlotNumber(c.base, 5)
    BY <1>1, <2>1, OffsetReaches
  <2>3. marker \notin DOMAIN c.storage
    BY <1>1, <1>4, <2>2 DEF StoresRequestProof
  <2>4. Word(5) = Zeros(32)
    BY <2>3 DEF read_evm_storage
  <2> QED BY <1>2, <1>4, <2>4, MarkerWord DEF SameDeposit
<1>5. CASE ~LeavesStorage(c) /\ d.exists
  <2>1. \A offset \in 0..5 : CanOffset(c.base, offset)
    BY <1>5, AllOffsets
  <2>2. /\ Stores(c, 0, d.pair) /\ Stores(c, 1, d.amount) /\ Stores(c, 2, Padded(d.sender))
        /\ Stores(c, 3, d.receiver) /\ Stores(c, 4, d.createdAt) /\ Stores(c, 5, One)
    BY <1>1, <1>5 DEF StoresRequestProof
  <2> HIDE DEF d, Word
  <2>3. /\ Word(0) = d.pair /\ Word(1) = d.amount /\ Word(2) = Padded(d.sender)
        /\ Word(3) = d.receiver /\ Word(4) = d.createdAt /\ Word(5) = One
    BY <2>1, <2>2, ReadsWord DEF Word
  <2>4. /\ FitsUint64(d.pair) /\ checksum256_to_uint64(d.pair) = BigEndian(c.pair, 8)
             <=> d.pair = BigEndian(c.pair, 32)
        /\ FitsUint64(d.amount) /\ checksum256_to_uint64(d.amount) = BigEndian(c.amount, 8)
             <=> d.amount = BigEndian(c.amount, 32)
    <3>1. c.pair \in Nat /\ Fits(c.pair, 8) /\ c.amount \in Nat /\ Fits(c.amount, 8)
      BY StorageAssumption
    <3> QED BY <1>1, <3>1, WordIsNumber
  <2>5. padded_address_equals(Padded(d.sender), c.sender) <=> d.sender = c.sender
    BY <1>1, SenderWord
  <2>6. SameDeposit(c) <=>
          /\ d.pair = BigEndian(c.pair, 32) /\ d.amount = BigEndian(c.amount, 32)
          /\ d.sender = c.sender /\ d.receiver = c.receiver
    BY <1>5 DEF SameDeposit, d
  <2> QED BY <1>1, <1>2, <1>5, <2>1, <2>3, <2>4, <2>5, <2>6, MarkerWord
<1> QED BY <1>1, <1>3, <1>4, <1>5

Judged ==
  /\ pc \in {"proof", "proved", "unproved"} => job \in Proofs
  /\ pc = "proved" => Proves(job)
  /\ pc = "unproved" => ~Proves(job)

LEMMA JudgedAlways == WireSpec => []Judged
<1>1. WireInit => Judged
  BY DEF WireInit, Judged
<1>2. Judged /\ [WireNext]_wireVars => Judged'
  <2> SUFFICES ASSUME Judged, [WireNext]_wireVars PROVE Judged'
    OBVIOUS
  <2>1. CASE CheckProof
    <3>1. job' = job /\ job \in Proofs /\ pc' = IF Proves(job) THEN "proved" ELSE "unproved"
      BY <2>1 DEF CheckProof, Judged
    <3> QED BY <3>1 DEF Judged
  <2>2. CASE SendRelease \/ AbortRelease
    BY <2>2 DEF SendRelease, AbortRelease, Judged
  <2>3. CASE UNCHANGED wireVars
    BY <2>3 DEF wireVars, Judged
  <2> QED BY <2>1, <2>2, <2>3 DEF WireNext
<1> QED BY <1>1, <1>2, PTL DEF WireSpec

(* proveetoz accepts the words of the stored deposit and of nothing else,   *)
(* for slots of any width, at every place of the storage, and whatever else *)
(* the bridge keeps in it.                                                  *)
THEOREM ProofsMeanDeposits == WireSpec => []ProofMeansDeposit
<1>1. Judged => ProofMeansDeposit
  <2> SUFFICES ASSUME Judged, pc \in {"proved", "unproved"}
               PROVE  pc = "proved" <=> SameDeposit(job) /\ ~LeavesStorage(job)
    BY DEF ProofMeansDeposit, SameDeposit, LeavesStorage
  <2>1. job \in Proofs /\ (pc = "proved" <=> Proves(job))
    BY DEF Judged
  <2> QED BY <2>1, ProvesMeansStored
<1> QED BY <1>1, JudgedAlways, PTL
=============================================================================
