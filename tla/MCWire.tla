------------------------------- MODULE MCWire -------------------------------
(* 10-bit amounts, so that 10^3 still fits and 10^4 does not; storage of     *)
(* three-byte slots.                                                         *)
EXTENDS Wire

(* Pow10 is the power of ten. *)
ASSUME PowersOfTen == \A e \in 0..9 : Pow10(e) = 10^e

Bytes(tail, size) == Zeros(size - Len(tail)) \o tail
Max255(size) == [k \in 1..size |-> 255]

Memo(prefix, size) == [prefix |-> prefix, digits |-> [k \in 1..size |-> (7 * k) % 16]]
GoodMemo == Memo("0x", 40)
Name(length) == [k \in 1..length |-> 96 + k]

Settings == [nonce: {<<0>>}, gasPrice: {<<7>>}, chainId: {<<41>>}]
Release(s, amount, zero, evm, memo, pair, burn, sender) ==
  [nonce |-> Bytes(s.nonce, 8), gasPrice |-> Bytes(s.gasPrice, 32),
   chainId |-> Bytes(s.chainId, 8), to |-> [k \in 1..20 |-> k],
   amount |-> amount, zeroDecimals |-> zero, evmDecimals |-> evm,
   memo |-> memo, pair |-> pair, burn |-> burn, sender |-> sender]
Burn1 == Bytes(<<1>>, 32)

(* Every amount with every pair of decimals: by themselves, by the factor    *)
(* and by the product they overflow.                                         *)
Conversions ==
  {Release(s, amount, zero, evm, GoodMemo, 1, Burn1, Name(5)) :
     s \in Settings, amount \in -1..128, zero \in 0..4, evm \in 0..4}

(* Scalars on both sides of 0x80 and of a byte, with zero bytes inside and   *)
(* at the end, up to full width.  The calldata has 224 bytes, the shortest   *)
(* transaction 257 behind its prefix.                                        *)
Encodings ==
  {Release(s, 128, 4, 4, GoodMemo, 256, Max255(32), sender) :
     s \in [nonce: {<<0>>, <<127>>, <<128>>, <<1, 0>>, <<1, 0, 1>>, Max255(8)},
            gasPrice: {<<0>>, <<116, 106, 82, 136, 0>>, <<2, 0, 0, 1>>, Max255(32)},
            chainId: {<<41>>, <<128>>, <<1, 0>>}],
     sender \in {Name(1), Name(12), Name(13)}}

Memos ==
  {Release(s, 1, 4, 4, memo, 1, Burn1, Name(5)) : s \in Settings,
     memo \in {Memo("0X", 40), Memo("00", 40), Memo("0x", 39), Memo("0x", 41),
               [GoodMemo EXCEPT !.digits[40] = NotHex]}}

MCReleases == Conversions \cup Encodings \cup Memos

(* The words of a deposit, in slots that wrap around.                        *)
Stored(base, d) ==
  IF ~d.exists THEN << >>
  ELSE LET words == <<d.pair, d.amount, Padded(d.sender), d.receiver, d.createdAt, One>>
           Slot(k) == BigEndian(SlotNumber(base, k), SlotBytes)
       IN  [slot \in {Slot(k) : k \in 0..5} |->
              words[1 + CHOOSE k \in 0..5 : Slot(k) = slot]]

Address(n) == BigEndian(n, 20)
Deposits ==
  [exists: BOOLEAN, pair: {BigEndian(1, 32), Bytes(<<1>> \o BigEndian(1, 8), 32)},
   amount: {BigEndian(5, 32), Bytes(<<1>> \o BigEndian(5, 8), 32), <<1>> \o BigEndian(5, 31)},
   sender: {Address(3), <<1>> \o BigEndian(3, 19)}, receiver: {BigEndian(7, 32)},
   createdAt: {BigEndian(9, 32)}]
Bases == {<<0, 0, 0>>, <<0, 0, 251>>, <<9, 255, 253>>, <<255, 255, 250>>, <<255, 255, 251>>}

MCProofs ==
  {[base |-> base, deposit |-> d, storage |-> Stored(base, d), pair |-> 1, amount |-> amount,
    sender |-> sender, receiver |-> receiver] :
     base \in Bases, d \in Deposits, amount \in {5, 6},
     sender \in {Address(3), Address(4)}, receiver \in {BigEndian(7, 32), BigEndian(8, 32)}}
=============================================================================
