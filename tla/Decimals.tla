------------------------------ MODULE Decimals ------------------------------
(***************************************************************************)
(* The amount conversion of a Zero-to-EVM release: pow10_u128 and          *)
(* convert_asset_amount_to_evm of zero.bridge.cpp, on uint128.  The width  *)
(* is a parameter so that the overflow checks bite on small numbers.       *)
(***************************************************************************)
EXTENDS Integers, Totals

CONSTANT MaxUint128
ASSUME DecimalsAssumption == MaxUint128 \in Nat \ {0}

(* pow10_u128 multiplies up step by step and aborts before it overflows.    *)
CanPow10(e) == Pow10(e) <= MaxUint128

CanConvert(amount, zeroDecimals, evmDecimals) ==
  /\ amount > 0
  /\ evmDecimals > zeroDecimals =>
       /\ CanPow10(evmDecimals - zeroDecimals)
       /\ amount <= MaxUint128 \div Pow10(evmDecimals - zeroDecimals)
  /\ zeroDecimals > evmDecimals =>
       /\ CanPow10(zeroDecimals - evmDecimals)
       /\ amount % Pow10(zeroDecimals - evmDecimals) = 0

Convert(amount, zeroDecimals, evmDecimals) ==
  IF evmDecimals >= zeroDecimals
  THEN amount * Pow10(evmDecimals - zeroDecimals)
  ELSE amount \div Pow10(zeroDecimals - evmDecimals)
=============================================================================
