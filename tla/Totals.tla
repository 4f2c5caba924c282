------------------------------- MODULE Totals -------------------------------
(***************************************************************************)
(* The sum w[1] + ... + w[n] of a weight function.  Accounts, addresses    *)
(* and table rows are numbered from 1 in this project (a native name is a  *)
(* uint64, a table row has an auto-increment key), so that every "sum over *)
(* the ledger" is a Total, and TotalsTheorems.tla can prove by a           *)
(* least-counterexample argument how one changed weight changes the sum.   *)
(* The powers of ten between units of different decimals are written the   *)
(* same way and for the same reason.                                       *)
(***************************************************************************)
EXTENDS Integers

Total(w, n) ==
  LET sum[i \in 0..n] == IF i = 0 THEN 0 ELSE sum[i-1] + w[i]
  IN  sum[n]

Pow10(e) ==
  LET power[i \in 0..e] == IF i = 0 THEN 1 ELSE 10 * power[i-1]
  IN  power[e]
=============================================================================
