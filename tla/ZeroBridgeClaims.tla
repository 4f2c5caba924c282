-------------------------- MODULE ZeroBridgeClaims --------------------------
(***************************************************************************)
(* The bridge without dev mode implements Claims: the claims are the rows  *)
(* of its tables, the payouts the processed maps of the deployments.       *)
(***************************************************************************)
EXTENDS ZeroBridge

TokenOf  == [p \in DOMAIN zpairs |-> zpairs[p].token]
Balance  == [t \in ZeroTokens |-> asset[t].balance]
Minted   == {etoz[k].evmRequest : k \in DOMAIN etoz}
Burns    == [i \in DOMAIN ztoe |-> [pair     |-> ztoe[i].pair,
                                   sender   |-> ztoe[i].sender,
                                   quantity |-> ztoe[i].quantity]]
Refunded == {i \in DOMAIN ztoe : ztoe[i].refunded}

C == INSTANCE Claims WITH
       Tokens <- ZeroTokens, Pairs <- PairIds, Deployments <- EvmBridges,
       Ids <- 1..MaxRequests,
       tokenOf <- TokenOf, balance <- Balance, deposits <- requests, minted <- Minted,
       burns <- Burns, refunded <- Refunded, paid <- processed

(* Mints, burns, payouts and refunds happen as Claims says and in no other  *)
(* way, whatever is paused, limited, re-pointed, retried or out of gas      *)
(* (zero.bridge.cpp:254-447): a deposit is minted once and to the account   *)
(* it names, a refund goes to the one who burned, and every change of a     *)
(* balance belongs to one of them.                                          *)
HonoursClaims == C!ClaimsSpec
=============================================================================
