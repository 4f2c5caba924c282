-------------------------------- MODULE Wire --------------------------------
(***************************************************************************)
(* What crosses between the chains, byte by byte: the unsigned transaction *)
(* that release_ztoe_request hands to eosio.evm (amount conversion, ABI    *)
(* calldata and RLP), and the proof words that proveetoz reads out of the  *)
(* storage of the EVM bridge.  ZeroBridge takes both as exact (Convert,    *)
(* Raw, ProofMatches); this module shows that they are.                    *)
(*                                                                         *)
(* A byte string is a sequence over 0..255.  Values of up to 256 bits that  *)
(* are only carried are big-endian byte strings; those the code computes   *)
(* with are numbers.                                                       *)
(***************************************************************************)
EXTENDS Decimals, Sequences
LOCAL INSTANCE SequencesExt

CONSTANTS
  Releases,     \* the requests and settings release_ztoe_request works on
  Proofs,       \* the storage and the arguments proveetoz works on
  SlotBytes     \* width of a storage slot's number (32 in the code)

VARIABLES pc, job, result
wireVars == <<pc, job, result>>

Zeros(n) == [k \in 1..n |-> 0]
ByteStrings(n) == [1..n -> 0..255]

(* value >> (8 * n), and the bytes the code pushes for a value.             *)
Shifted(value, n) ==
  LET quotient[i \in 0..n] == IF i = 0 THEN value ELSE quotient[i-1] \div 256
  IN  quotient[n]
BigEndian(value, size) == [k \in 1..size |-> Shifted(value, size - k) % 256]
Fits(value, size) == Shifted(value, size) = 0

(* NotHex is the value of a character that is no hexadecimal digit.         *)
NotHex == 16

(* The widths of the types: uint128 has 16 bytes; an asset amount is an     *)
(* int64, far below the width of uint128; a native name prints as at most   *)
(* 13 characters.                                                           *)
ASSUME WireAssumption ==
  /\ Fits(MaxUint128, 16)
  /\ \A r \in Releases :
       /\ r.amount \in Int /\ r.amount <= MaxUint128
       /\ r.zeroDecimals \in Nat /\ r.evmDecimals \in Nat
       /\ r.pair \in Nat /\ Fits(r.pair, 8)
       /\ r.nonce \in ByteStrings(8) /\ r.chainId \in ByteStrings(8)
       /\ r.gasPrice \in ByteStrings(32) /\ r.burn \in ByteStrings(32)
       /\ r.to \in ByteStrings(20)
       /\ r.memo.digits \in Seq(0..NotHex)
       /\ r.sender \in Seq(0..255) /\ Len(r.sender) <= 13
-----------------------------------------------------------------------------
(* convert_asset_amount_to_evm on unsigned integers that wrap.              *)
Aborted == 0
Wrap(n) == n % (MaxUint128 + 1)

(* Mutant of MayMultiply: the product is checked after the fact. *)
MayMultiplyOnce(f) == f <= MaxUint128
MayMultiply(f) == f <= MaxUint128 \div 10

pow10_u128(exponent) ==
  LET power[i \in 0..exponent] ==
        IF i = 0 THEN 1
        ELSE IF power[i-1] # Aborted /\ MayMultiply(power[i-1])
             THEN Wrap(power[i-1] * 10) ELSE Aborted
  IN  power[exponent]

(* Mutant of Divides: the remainder is dropped. *)
DividesRoughly(factor, amount) == amount >= factor
Divides(factor, amount) == amount % factor = 0

convert(amount, zeroDecimals, evmDecimals) ==
  LET up == evmDecimals > zeroDecimals
      factor == pow10_u128(IF up THEN evmDecimals - zeroDecimals ELSE zeroDecimals - evmDecimals)
  IN  IF amount <= 0 \/ factor = Aborted THEN Aborted
      ELSE IF up THEN IF amount <= MaxUint128 \div factor THEN Wrap(amount * factor) ELSE Aborted
      ELSE IF Divides(factor, amount) THEN amount \div factor ELSE Aborted

(* The memo of a request: its prefix, and the value of each further digit.  *)
IsAddress(memo) ==
  /\ memo.prefix \in {"0x", "0X"}
  /\ Len(memo.digits) = 40
  /\ \A k \in 1..40 : memo.digits[k] # NotHex
parse_evm_address_string(memo) ==
  [k \in 1..20 |-> 16 * memo.digits[2*k - 1] + memo.digits[2*k]]
-----------------------------------------------------------------------------
(* rlp.hpp *)
(* Mutant of minimal_be: every zero byte is skipped (no "started"). *)
minimal_be_unstarted(raw) == SelectSeq(raw, LAMBDA byte : byte # 0)
minimal_be(raw) ==
  LET output[i \in 0..Len(raw)] ==
        IF i = 0 THEN << >>
        ELSE LET before == output[i-1]
             IN  IF raw[i] # 0 \/ before # << >> THEN Append(before, raw[i]) ELSE before
  IN  output[Len(raw)]

length_prefix(length, short, long) ==
  IF length <= 55 THEN <<short + length>>
  ELSE LET bytes == minimal_be(BigEndian(length, 8)) IN <<long + Len(bytes)>> \o bytes

encode_bytes(value) ==
  IF Len(value) = 1 /\ value[1] < 128 THEN value
  ELSE length_prefix(Len(value), 128, 183) \o value

encode_uint(raw) == encode_bytes(minimal_be(raw))

encode_list(items) ==
  LET payload == FlattenSeq(items) IN length_prefix(Len(payload), 192, 247) \o payload

ZERO_TO_EVM_RELEASE_GAS_LIMIT == BigEndian(500000, 8)
RELEASE_TO_EVM_SELECTOR == <<185, 164, 216, 150>>
RELEASE_TO_EVM_HEAD_BYTES == 160

encode_legacy_tx(nonce, gasPrice, gasLimit, to, data, chainId) ==
  encode_list(<<encode_uint(nonce), encode_uint(gasPrice), encode_uint(gasLimit),
                encode_bytes(to), encode_uint(Zeros(8)), encode_bytes(data),
                encode_uint(chainId), encode_uint(Zeros(8)), encode_uint(Zeros(8))>>)

(* The tail pads the whole output, selector included, to full words.        *)
append_string_tail(output, value) ==
  LET tail == output \o BigEndian(Len(value), 32) \o value
  IN  tail \o Zeros((32 - (Len(tail) % 32)) % 32)

build_release_calldata(r) ==
  append_string_tail(
    RELEASE_TO_EVM_SELECTOR \o BigEndian(r.pair, 32)
      \o BigEndian(convert(r.amount, r.zeroDecimals, r.evmDecimals), 32)
      \o Zeros(12) \o parse_evm_address_string(r.memo)
      \o r.burn \o BigEndian(RELEASE_TO_EVM_HEAD_BYTES, 32),
    r.sender)

CanBuild(r) ==
  IsAddress(r.memo) /\ convert(r.amount, r.zeroDecimals, r.evmDecimals) # Aborted

SendRelease ==
  /\ pc = "release" /\ CanBuild(job)
  /\ result' = encode_legacy_tx(job.nonce, job.gasPrice, ZERO_TO_EVM_RELEASE_GAS_LIMIT,
                                job.to, build_release_calldata(job), job.chainId)
  /\ pc' = "sent"
  /\ UNCHANGED job

AbortRelease ==
  /\ pc = "release" /\ ~CanBuild(job)
  /\ pc' = "unsent"
  /\ UNCHANGED <<job, result>>
-----------------------------------------------------------------------------
(* add_storage_slot_offset: the bytes from the last one while a carry is    *)
(* left; a carry out of the first one aborts.                               *)
Carry(slot, offset) ==
  LET carry[i \in 0..SlotBytes] ==
        IF i = SlotBytes THEN offset ELSE (slot[i+1] + carry[i+1]) \div 256
  IN  carry
CanOffset(slot, offset) == Carry(slot, offset)[0] = 0
add_storage_slot_offset(slot, offset) ==
  [i \in 1..SlotBytes |-> (slot[i] + Carry(slot, offset)[i]) % 256]

read_evm_storage(storage, slot) == IF slot \in DOMAIN storage THEN storage[slot] ELSE Zeros(32)

(* Mutant of FitsUint64: the upper bytes are not looked at. *)
TruncatesToUint64(word) == TRUE
FitsUint64(word) == \A i \in 1..24 : word[i] = 0
checksum256_to_uint64(word) == [k \in 1..8 |-> word[24 + k]]
checksum256_is_one(word) == (\A i \in 1..31 : word[i] = 0) /\ word[32] = 1
padded_address_equals(word, address) ==
  (\A i \in 1..12 : word[i] = 0) /\ \A i \in 1..20 : word[i + 12] = address[i]

(* The comparisons of proveetoz; receiver is the receiver's hash.           *)
Proves(c) ==
  /\ \A offset \in 0..5 : CanOffset(c.base, offset)
  /\ LET word(offset) == read_evm_storage(c.storage, add_storage_slot_offset(c.base, offset))
     IN  /\ checksum256_is_one(word(5))
         /\ FitsUint64(word(0)) /\ checksum256_to_uint64(word(0)) = BigEndian(c.pair, 8)
         /\ FitsUint64(word(1)) /\ checksum256_to_uint64(word(1)) = BigEndian(c.amount, 8)
         /\ padded_address_equals(word(2), c.sender)
         /\ word(3) = c.receiver
         /\ FitsUint64(word(4)) /\ checksum256_to_uint64(word(4)) # Zeros(8)

CheckProof ==
  /\ pc = "proof"
  /\ pc' = IF Proves(job) THEN "proved" ELSE "unproved"
  /\ UNCHANGED <<job, result>>

WireInit ==
  /\ \/ pc = "release" /\ job \in Releases
     \/ pc = "proof" /\ job \in Proofs
  /\ result = << >>
WireNext == SendRelease \/ AbortRelease \/ CheckProof
WireSpec == WireInit /\ [][WireNext]_wireVars
-----------------------------------------------------------------------------
(* References, written from the formats and not from the code.              *)
ValueOf(bytes) ==
  LET value[i \in 0..Len(bytes)] == IF i = 0 THEN 0 ELSE 256 * value[i-1] + bytes[i]
  IN  value[Len(bytes)]
Slice(bytes, first, length) == SubSeq(bytes, first, first + length - 1)

(* An RLP item or list at a position: where its payload starts and ends.    *)
RlpAt(b, at) ==
  LET head == b[at]
      Short(offset) == [first |-> at + 1, last |-> at + head - offset]
      Long(offset) == LET size == head - offset
                          length == ValueOf(Slice(b, at + 1, size))
                      IN  [first |-> at + 1 + size, last |-> at + size + length]
  IN  IF head < 128 THEN [first |-> at, last |-> at]
      ELSE IF head < 184 THEN Short(128) ELSE IF head < 192 THEN Long(183)
      ELSE IF head < 248 THEN Short(192) ELSE Long(247)

(* The items of a list, as long as they lie within it; one more than the    *)
(* nine of a transaction are read.                                          *)
MaxItems == 10
RlpItems(b) ==
  LET whole == RlpAt(b, 1)
      read[n \in 0..MaxItems] ==
        IF n = 0 THEN [at |-> whole.first, items |-> << >>]
        ELSE LET before == read[n-1]
                 item == RlpAt(b, before.at)
             IN  IF before.at > whole.last THEN before
                 ELSE [at |-> item.last + 1,
                       items |-> Append(before.items, SubSeq(b, item.first, item.last))]
  IN  IF b[1] < 192 \/ whole.last # Len(b) THEN << >> ELSE read[MaxItems].items

(* Canonical scalars have no leading zero.                                  *)
IsScalar(item, value) ==
  /\ item # << >> => item[1] # 0
  /\ Len(item) <= Len(value) /\ Zeros(Len(value) - Len(item)) \o item = value

(* releaseToEvm(uint256,uint256,address,bytes32,string) as Solidity reads   *)
(* its arguments.                                                           *)
AbiWord(data, n) == Slice(data, 5 + 32 * n, 32)
AbiString(data, n) ==
  LET at == 5 + ValueOf(AbiWord(data, n))
  IN  Slice(data, at + 32, ValueOf(Slice(data, at, 32)))

(* The call the EVM executes is the one the request stands for: a legacy    *)
(* transaction of nine canonical items whose nonce, gas price, gas limit,   *)
(* bridge and chain id are those read from the tables, and whose calldata   *)
(* decodes to the pair, the converted amount, the receiver of the memo, the *)
(* burn id and the sender (rlp.hpp:12-98, zero.bridge.cpp:60-94, 649-663).  *)
CallArrives ==
  pc = "sent" =>
    LET items == RlpItems(result)
        data == items[6]
    IN  /\ Len(items) = 9
        /\ IsScalar(items[1], job.nonce) /\ IsScalar(items[2], job.gasPrice)
        /\ ValueOf(items[3]) = 500000 /\ items[4] = job.to /\ items[5] = << >>
        /\ IsScalar(items[7], job.chainId) /\ items[8] = << >> /\ items[9] = << >>
        /\ Slice(data, 1, 4) = RELEASE_TO_EVM_SELECTOR
        /\ ValueOf(AbiWord(data, 0)) = job.pair
        /\ ValueOf(AbiWord(data, 1)) = Convert(job.amount, job.zeroDecimals, job.evmDecimals)
        /\ \A k \in 1..12 : AbiWord(data, 2)[k] = 0
        /\ \A k \in 1..40 :
             LET byte == AbiWord(data, 2)[12 + (k + 1) \div 2]
             IN  job.memo.digits[k] = IF k % 2 = 1 THEN byte \div 16 ELSE byte % 16
        /\ AbiWord(data, 3) = job.burn
        /\ AbiString(data, 4) = job.sender

(* The closed forms ZeroBridge uses decide and compute what the code does,  *)
(* in particular when pow10_u128 gives up before the product is formed      *)
(* (zero.bridge.cpp:51-58, 634-644).                                        *)
ClosedFormAgrees ==
  pc \in {"sent", "unsent"} =>
    /\ pc = "sent" <=> /\ IsAddress(job.memo)
                       /\ CanConvert(job.amount, job.zeroDecimals, job.evmDecimals)
    /\ pc = "sent" => convert(job.amount, job.zeroDecimals, job.evmDecimals)
                        = Convert(job.amount, job.zeroDecimals, job.evmDecimals)

(* The reference: r EVM units are worth the amount if they are the same     *)
(* number once both are written with all decimals.  What is sent is the one *)
(* such r, and a request with a good memo aborts only when uint128 has      *)
(* none: nothing is rounded away, nothing wraps, and no convertible amount  *)
(* is turned down (zero.bridge.cpp:627-647).                                *)
Worth(r) == r * Pow10(job.zeroDecimals) = job.amount * Pow10(job.evmDecimals)
ExactOrAborted ==
  /\ pc = "sent" => LET r == convert(job.amount, job.zeroDecimals, job.evmDecimals)
                    IN  r \in 1..MaxUint128 /\ Worth(r)
  /\ pc = "unsent" => ~IsAddress(job.memo) \/ \A r \in 1..MaxUint128 : ~Worth(r)

(* What _storeRequestProof leaves in the storage for a deposit, and for a   *)
(* request hash of no deposit: add wraps around the end of the storage, and *)
(* nothing else is written where a request has its marker.                  *)
LastSlot == [k \in 1..SlotBytes |-> 255]
SlotNumber(base, offset) == (ValueOf(base) + offset) % (ValueOf(LastSlot) + 1)
Padded(address) == [k \in 1..32 |-> IF k <= 12 THEN 0 ELSE address[k - 12]]
One == [k \in 1..32 |-> IF k = 32 THEN 1 ELSE 0]

Stores(c, offset, word) ==
  \E slot \in DOMAIN c.storage :
    ValueOf(slot) = SlotNumber(c.base, offset) /\ c.storage[slot] = word
StoresRequestProof(c) ==
  LET d == c.deposit
  IN  IF d.exists
      THEN /\ Stores(c, 0, d.pair) /\ Stores(c, 1, d.amount) /\ Stores(c, 2, Padded(d.sender))
           /\ Stores(c, 3, d.receiver) /\ Stores(c, 4, d.createdAt) /\ Stores(c, 5, One)
      ELSE \A slot \in DOMAIN c.storage : ValueOf(slot) # SlotNumber(c.base, 5)

(* block.timestamp is positive and fits uint64, as the arguments pair and   *)
(* amount do.                                                               *)
ASSUME StorageAssumption ==
  /\ SlotBytes \in Nat
  /\ \A c \in Proofs :
       /\ c.base \in ByteStrings(SlotBytes) /\ DOMAIN c.storage \subseteq ByteStrings(SlotBytes)
       /\ c.sender \in ByteStrings(20)
       /\ c.pair \in Nat /\ Fits(c.pair, 8) /\ c.amount \in Nat /\ Fits(c.amount, 8)
       /\ c.deposit.exists \in BOOLEAN
       /\ c.deposit.pair \in ByteStrings(32) /\ c.deposit.amount \in ByteStrings(32)
       /\ c.deposit.sender \in ByteStrings(20)
       /\ FitsUint64(c.deposit.createdAt)
       /\ checksum256_to_uint64(c.deposit.createdAt) # Zeros(8)
       /\ StoresRequestProof(c)

(* A proof is accepted for the stored deposit and for nothing else: all of  *)
(* the 256-bit words count, also above 2^64, and the deposit's own values   *)
(* are accepted unless its slots wrap around the end of the storage, where  *)
(* add_storage_slot_offset aborts and the EVM would not                     *)
(* (zero.bridge.cpp:277-305, 576-620, EvmEscrowBridge.sol:196-215).         *)
ProofMeansDeposit ==
  pc \in {"proved", "unproved"} =>
    LET d == job.deposit
        same == /\ d.exists
                /\ d.pair = BigEndian(job.pair, 32) /\ d.amount = BigEndian(job.amount, 32)
                /\ d.sender = job.sender /\ d.receiver = job.receiver
        wraps == ValueOf(job.base) + 5 > ValueOf(LastSlot)
    IN  pc = "proved" <=> same /\ ~wraps
=============================================================================
