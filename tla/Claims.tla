------------------------------- MODULE Claims -------------------------------
(***************************************************************************)
(* What the bridge promises to holders of a Zero token, without settings,  *)
(* escrows or proofs.  A deposit is a claim on newly minted tokens that is *)
(* honoured once, for the account it names.  A burn is a claim on a payout *)
(* by an EVM deployment; a refund gives the tokens back to the one who     *)
(* burned them, once, and ends the claim.  Balances change in no other way *)
(* than these, by transfers, and by holders who destroy what they own.     *)
(***************************************************************************)
EXTENDS Integers

CONSTANTS Tokens, Accounts, Pairs, Deployments, Ids

VARIABLES
  tokenOf,    \* the token of each pair
  balance,    \* balance[token][account]
  deposits,   \* deposits by id, with pair, receiver and amount
  minted,     \* ids of the deposits honoured
  burns,      \* burns by id, with pair, sender and quantity
  refunded,   \* ids of the burns given back
  paid        \* <<deployment, id>> of the burns paid out

claimVars == <<tokenOf, balance, deposits, minted, burns, refunded, paid>>

Change(t, a, q) == balance' = [balance EXCEPT ![t][a] = @ + q]

Init ==
  /\ DOMAIN tokenOf = {} /\ DOMAIN deposits = {} /\ DOMAIN burns = {}
  /\ balance \in [Tokens -> [Accounts -> Nat]]
  /\ minted = {} /\ refunded = {} /\ paid = {}

Register(p, t) ==
  /\ p \notin DOMAIN tokenOf
  /\ \A q \in DOMAIN tokenOf : tokenOf[q] # t
  /\ tokenOf' = [q \in DOMAIN tokenOf \cup {p} |-> IF q = p THEN t ELSE tokenOf[q]]
  /\ UNCHANGED <<balance, deposits, minted, burns, refunded, paid>>

Deposit(h) ==
  /\ h \notin DOMAIN deposits
  /\ DOMAIN deposits' = DOMAIN deposits \cup {h}
  /\ \A g \in DOMAIN deposits : deposits'[g] = deposits[g]
  /\ UNCHANGED <<tokenOf, balance, minted, burns, refunded, paid>>

Mint(h) ==
  /\ h \in DOMAIN deposits \ minted
  /\ deposits[h].pair \in DOMAIN tokenOf
  /\ Change(tokenOf[deposits[h].pair], deposits[h].receiver, deposits[h].amount)
  /\ minted' = minted \cup {h}
  /\ UNCHANGED <<tokenOf, deposits, burns, refunded, paid>>

(* A payout of a burn, if it is made in this step.                          *)
MayPay(i) == paid' = paid \/ \E b \in Deployments : paid' = paid \cup {<<b, i>>}

Burn(i, p, a, q) ==
  /\ i \notin DOMAIN burns /\ p \in DOMAIN tokenOf
  /\ q \in 1..balance[tokenOf[p]][a]
  /\ Change(tokenOf[p], a, -q)
  /\ burns' = [k \in DOMAIN burns \cup {i} |->
                 IF k = i THEN [pair |-> p, sender |-> a, quantity |-> q] ELSE burns[k]]
  /\ MayPay(i)
  /\ UNCHANGED <<tokenOf, deposits, minted, refunded>>

Pay(i) ==
  /\ i \in DOMAIN burns \ refunded
  /\ \E b \in Deployments : <<b, i>> \notin paid /\ paid' = paid \cup {<<b, i>>}
  /\ UNCHANGED <<tokenOf, balance, deposits, minted, burns, refunded>>

Refund(i) ==
  /\ i \in DOMAIN burns \ refunded
  /\ Change(tokenOf[burns[i].pair], burns[i].sender, burns[i].quantity)
  /\ refunded' = refunded \cup {i}
  /\ UNCHANGED <<tokenOf, deposits, minted, burns, paid>>

Transfer(t, from, to, q) ==
  /\ from # to /\ q \in 1..balance[t][from]
  /\ balance' = [balance EXCEPT ![t][from] = @ - q, ![t][to] = @ + q]
  /\ UNCHANGED <<tokenOf, deposits, minted, burns, refunded, paid>>

Destroy(t, a, q) ==
  /\ q \in 1..balance[t][a]
  /\ Change(t, a, -q)
  /\ UNCHANGED <<tokenOf, deposits, minted, burns, refunded, paid>>

ClaimsNext ==
  \/ \E p \in Pairs, t \in Tokens : Register(p, t)
  \/ \E i \in Ids : Deposit(i) \/ Mint(i) \/ Pay(i) \/ Refund(i)
  \/ \E i \in Ids, p \in Pairs, a \in Accounts :
       p \in DOMAIN tokenOf /\ \E q \in 1..balance[tokenOf[p]][a] : Burn(i, p, a, q)
  \/ \E t \in Tokens, a \in Accounts : \E q \in 1..balance[t][a] :
       Destroy(t, a, q) \/ \E to \in Accounts : Transfer(t, a, to, q)

ClaimsSpec == Init /\ [][ClaimsNext]_claimVars
=============================================================================
