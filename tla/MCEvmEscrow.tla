---------------------------- MODULE MCEvmEscrow -----------------------------
(* The EVM side alone: one bridge, one user, one escrowed and one minted     *)
(* token, and a zeroBridge account that sends any release.                   *)
EXTENDS EvmEscrow, TLC
CONSTANTS usdt, tlos

MCInitialErc20 == [t \in EvmTokens |-> [a \in EvmAddrs |->
                     IF t = usdt /\ a \notin EvmBridges THEN 3 ELSE 0]]
MCZeroBridgeOf == [b \in EvmBridges |-> 100]
MCLimits == [min |-> 1, max |-> 2, daily |-> 2]
(* The third is a slip of the owner: usdt has no mint, its calls revert.    *)
MCRegistryInputs == {[token |-> usdt, mintBurn |-> FALSE, limits |-> MCLimits],
                     [token |-> tlos, mintBurn |-> TRUE, limits |-> MCLimits],
                     [token |-> usdt, mintBurn |-> TRUE, limits |-> MCLimits]}
MCRegistryLimits == {[min |-> 1, max |-> 1, daily |-> 1], [min |-> 2, max |-> 1, daily |-> 3]}
=============================================================================
