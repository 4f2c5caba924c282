----------------------------- MODULE ZeroAsset ------------------------------
(***************************************************************************)
(* contracts/native/zero.asset: the token contract that holds the assets   *)
(* on the Zero side.  One row of "stat" and the "accounts" rows of every   *)
(* owner are one record here; an absent balance row is a zero balance,     *)
(* because sub_balance aborts on either and add_balance creates the row.   *)
(*                                                                         *)
(* Each action is a guard Can... and an effect ...ed on the ledger value,  *)
(* so that the bridge can chain a transfer and a burn in one transaction.  *)
(***************************************************************************)
EXTENDS Integers, Totals

CONSTANTS
  NumAccounts,    \* native accounts are numbered 1..NumAccounts
  ZeroTokens,     \* token symbols
  Quantities,     \* amounts callers pass, legal or not
  MaxSupplies     \* maximum supplies create is called with

Accounts == 1..NumAccounts

ASSUME ZeroAssetAssumption ==
  /\ NumAccounts \in Nat
  /\ Quantities \subseteq Int
  /\ MaxSupplies \subseteq Int

VARIABLE asset

TokenRow == [exists: BOOLEAN, issuer: Accounts \cup {0}, maxSupply: Nat,
             supply: Int, balance: [Accounts -> Int]]

(* a stat row and the empty accounts tables that go with it *)
FreshToken(exists, issuer, max) ==
  [exists |-> exists, issuer |-> issuer, maxSupply |-> max, supply |-> 0,
   balance |-> [a \in Accounts |-> 0]]

(* sub_balance and add_balance *)
HasBalance(row, owner, q) == row.balance[owner] >= q
SubBalance(row, owner, q) == [row EXCEPT !.balance[owner] = @ - q]
AddBalance(row, owner, q) == [row EXCEPT !.balance[owner] = @ + q]

(* Mutant of CanIssue: the cap is compared with the quantity alone. *)
CanIssueIgnoringSupply(row, signer, q) ==
  /\ row.exists
  /\ signer = row.issuer
  /\ q > 0
  /\ q <= row.maxSupply

CanIssue(row, signer, q) ==
  /\ row.exists
  /\ signer = row.issuer
  /\ q > 0
  /\ q <= row.maxSupply - row.supply

Issued(row, to, q) == AddBalance([row EXCEPT !.supply = @ + q], to, q)

CanBurn(row, owner, q) ==
  /\ row.exists
  /\ q > 0
  /\ HasBalance(row, owner, q)

(* Mutant of Burned: the stat row is forgotten. *)
BurnedKeepingSupply(row, owner, q) == SubBalance(row, owner, q)

Burned(row, owner, q) == [SubBalance(row, owner, q) EXCEPT !.supply = @ - q]

CanTransfer(row, from, to, q) ==
  /\ from # to
  /\ row.exists
  /\ q > 0
  /\ HasBalance(row, from, q)

Transferred(row, from, to, q) == AddBalance(SubBalance(row, from, q), to, q)
-----------------------------------------------------------------------------
AssetInit == asset = [t \in ZeroTokens |-> FreshToken(FALSE, 0, 0)]

(* Mutant of Create: the sign of the maximum supply is not checked. *)
CreateAnySupply(t, issuer, max) ==
  /\ ~asset[t].exists
  /\ asset' = [asset EXCEPT ![t] = FreshToken(TRUE, issuer, max)]

Create(t, issuer, max) ==
  /\ ~asset[t].exists
  /\ max > 0
  /\ asset' = [asset EXCEPT ![t] = FreshToken(TRUE, issuer, max)]

Issue(t, signer, to, q) ==
  /\ CanIssue(asset[t], signer, q)
  /\ asset' = [asset EXCEPT ![t] = Issued(@, to, q)]

Burn(t, owner, q) ==
  /\ CanBurn(asset[t], owner, q)
  /\ asset' = [asset EXCEPT ![t] = Burned(@, owner, q)]

Transfer(t, from, to, q) ==
  /\ CanTransfer(asset[t], from, to, q)
  /\ asset' = [asset EXCEPT ![t] = Transferred(@, from, to, q)]

AssetNext ==
  \E t \in ZeroTokens :
    \/ \E issuer \in Accounts, max \in MaxSupplies : Create(t, issuer, max)
    \/ \E signer, to \in Accounts, q \in Quantities : Issue(t, signer, to, q)
    \/ \E owner \in Accounts, q \in Quantities : Burn(t, owner, q)
    \/ \E from, to \in Accounts, q \in Quantities : Transfer(t, from, to, q)

AssetSpec == AssetInit /\ [][AssetNext]_asset
-----------------------------------------------------------------------------
AssetTypeOK == asset \in [ZeroTokens -> TokenRow]

(* The accounts tables always add up to the stat row: no sequence of issue, *)
(* burn and transfer (zero.asset.cpp:25-88) creates or loses units.         *)
SupplyIsSumOfBalances ==
  \A t \in ZeroTokens : asset[t].supply = Total(asset[t].balance, NumAccounts)

(* No owner is ever overdrawn and the issued supply stays under the cap:    *)
(* together with the sum, no balance exceeds max_supply, which is why the   *)
(* additions of add_balance, which no guard precedes, never reach the       *)
(* overflow check of asset.                                                 *)
BalancesUnderCap ==
  \A t \in ZeroTokens :
    /\ asset[t].supply <= asset[t].maxSupply
    /\ \A a \in Accounts : asset[t].balance[a] \in 0..asset[t].maxSupply
=============================================================================
