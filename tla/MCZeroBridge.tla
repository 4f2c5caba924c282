---------------------------- MODULE MCZeroBridge ----------------------------
(* One or two bridge deployments, one user on each side, one or two pairs.   *)
EXTENDS ZeroBridge, TLC
CONSTANTS usdt, tlos,      \* ERC20 tokens, the second one mintable
          zusdt, ztlos     \* the Zero tokens paired with them

MCInitialErc20 == [t \in EvmTokens |-> [a \in EvmAddrs |->
                     IF t = usdt /\ a \in EvmUsers THEN 2 ELSE 0]]
OneUsdt == [t \in EvmTokens |-> [a \in EvmAddrs |-> IF t = usdt /\ a \in EvmUsers THEN 1 ELSE 0]]
OneZtlos == [t \in ZeroTokens |-> [a \in Accounts |-> IF t = ztlos /\ a # Bridge THEN 1 ELSE 0]]
ElevenUsdt == [t \in EvmTokens |-> [a \in EvmAddrs |-> IF a \in EvmUsers THEN 11 ELSE 0]]
MCInitialBalances == [t \in ZeroTokens |-> [a \in Accounts |->
                        IF t = ztlos /\ a # Bridge THEN 2 ELSE 0]]
MCZeroBridgeOf == [b \in EvmBridges |-> LinkedAddress]
KeyIsZeroBridge == [b \in EvmBridges |-> 100]
MCMaxSupply == [t \in ZeroTokens |-> 3]
TwentySupply == [t \in ZeroTokens |-> 20]
MCZeroDecimals == [t \in ZeroTokens |-> 4]

EvmLimits == [min |-> 1, max |-> 2, daily |-> 3]
EscrowPair == [token |-> usdt, mintBurn |-> FALSE, limits |-> EvmLimits]
MintBurnPair == [token |-> tlos, mintBurn |-> TRUE, limits |-> EvmLimits]
ZeroLimits12 == [min |-> 1, max |-> 2]
ZeroPair(id, t, decimals) == [id |-> id, token |-> t, decimals |-> decimals,
                              limits |-> ZeroLimits12]

OneEscrow == {EscrowPair}
(* The pair the admin adds, and one that addpair rejects. *)
OneZusdt == {ZeroPair(1, zusdt, 4), ZeroPair(0, zusdt, 4)}
OnlyZusdt == {ZeroPair(1, zusdt, 4)}
TwoEvmPairs == {EscrowPair, MintBurnPair}
TwoZeroPairs == {ZeroPair(1, zusdt, 4), ZeroPair(2, ztlos, 4)}
FundedBridge == [t \in EvmTokens |-> [a \in EvmAddrs |-> IF a \in EvmBridges THEN 200 ELSE 0]]
HolderOfTwenty == [t \in ZeroTokens |-> [a \in Accounts |-> IF a # Bridge THEN 20 ELSE 0]]
HundredEscrow == {[EscrowPair EXCEPT !.limits = [min |-> 1, max |-> 100, daily |-> 100]]}
ZusdtFive == {[ZeroPair(1, zusdt, 5) EXCEPT !.limits.max = 10]}
(* The pairs a relayer is configured with. *)
RelayZusdt == [p \in {1} |-> [token |-> zusdt, decimals |-> 4]]
RelayZusdtFive == [p \in {1} |-> [token |-> zusdt, decimals |-> 5]]

OneLimit == {[min |-> 1, max |-> 1]}

(* An EVM token with one decimal more, the same number or one less.         *)
ZusdtAnyDecimals == {[ZeroPair(1, zusdt, d) EXCEPT !.limits.max = 10] : d \in {3, 5}}
WideEscrow == {[EscrowPair EXCEPT !.limits = [min |-> 1, max |-> 20, daily |-> 20]]}
=============================================================================
