----------------------------- MODULE Obfuscators ----------------------------
(***************************************************************************)
(* The two PreObfuscators of src/go/sigil/crypto_sigil.go: one Obfuscate   *)
(* and the Deobfuscate of its result with the same entropy.  Permutation,  *)
(* mask and key stream are functions of entropy and length alone, so the   *)
(* two calls share one derivation here.  SHA-256 is external: each index   *)
(* and each block it gives is any it could give.                           *)
(***************************************************************************)
EXTENDS Integers

CONSTANTS
  Byte,       \* the values of a byte, 0 among them
  Xor,        \* ^ on bytes, Xor[a][m]
  BlockSize,  \* bytes in one hash, 32
  MaxData      \* bound on the length of the data

ASSUME ObfuscatorAssumption ==
  /\ 0 \in Byte
  /\ Xor \in [Byte -> [Byte -> Byte]]
  /\ \A a, m \in Byte : Xor[Xor[a][m]][m] = a
  /\ BlockSize \in Nat \ {0}
  /\ MaxData \in Nat

VARIABLES
  kind,         \* XORObfuscator or ShuffleMaskObfuscator
  length,       \* len(data)
  data,         \* the bytes given to Obfuscate
  pc,           \* the part of the calls that is running
  permutation,  \* generatePermutation's slice
  i,            \* its loop variable
  stream,       \* deriveKeyStream's stream, deriveMask's mask
  offset,       \* how much of it is filled
  blockNum,     \* the number of the block to hash
  blocks,       \* history: the hash of each block number
  obfuscated,   \* the result of Obfuscate
  restored      \* the result of Deobfuscate

vars == <<kind, length, data, pc, permutation, i, stream, offset, blockNum, blocks,
          obfuscated, restored>>

Index == 0 .. length - 1
Zeros == [k \in Index |-> 0]
Block == [0 .. BlockSize - 1 -> Byte]

(* Every variable holds a value of its kind.                               *)
TypeOK ==
  /\ kind \in {"xor", "shuffle"}
  /\ length \in 0 .. MaxData
  /\ data \in [Index -> Byte]
  /\ pc \in {"permutation", "stream", "obfuscate", "deobfuscate", "done"}
  /\ permutation \in [Index -> Index]
  /\ i \in Int
  /\ stream \in [Index -> Byte]
  /\ offset \in 0 .. length
  /\ blockNum \in Nat
  /\ blocks \in [0 .. blockNum - 1 -> Block]
  /\ obfuscated \in [Index -> Byte]
  /\ restored \in [Index -> Byte]

Init ==
  /\ kind \in {"xor", "shuffle"}
  /\ length \in 0 .. MaxData
  /\ data \in [Index -> Byte]
  /\ pc = IF length = 0 THEN "obfuscate"
          ELSE IF kind = "shuffle" THEN "permutation" ELSE "stream"
  /\ permutation = [k \in Index |-> k]
  /\ i = length - 1
  /\ stream = Zeros
  /\ offset = 0
  /\ blockNum = 0
  /\ blocks = [k \in {} |-> Zeros]
  /\ obfuscated = Zeros
  /\ restored = Zeros

input == <<kind, length, data>>
derived == <<permutation, i, stream, offset, blockNum, blocks>>

-----------------------------------------------------------------------------
(* generatePermutation                                                     *)

(* Mutant: the swap forgets to save the element it overwrites.             *)
SwapLosing(p, m, n) == [p EXCEPT ![m] = p[n]]

Swap(p, m, n) == [p EXCEPT ![m] = p[n], ![n] = p[m]]

(* Mutant: i stays what it is.                                             *)
SwapForever ==
  /\ pc = "permutation"
  /\ i > 0
  /\ \E j \in 0 .. i : permutation' = Swap(permutation, i, j)
  /\ UNCHANGED <<input, pc, i, stream, offset, blockNum, blocks, obfuscated, restored>>

(* One iteration: j is a hash modulo i + 1.                                *)
generatePermutation ==
  /\ pc = "permutation"
  /\ i > 0
  /\ \E j \in 0 .. i : permutation' = Swap(permutation, i, j)
  /\ i' = i - 1
  /\ UNCHANGED <<input, pc, stream, offset, blockNum, blocks, obfuscated, restored>>

PermutationGenerated ==
  /\ pc = "permutation"
  /\ i <= 0
  /\ pc' = "stream"
  /\ UNCHANGED <<input, derived, obfuscated, restored>>

-----------------------------------------------------------------------------
(* deriveKeyStream and deriveMask, which differ in what they hash          *)

Least(m, n) == IF m <= n THEN m ELSE n

(* Mutant: a last block that is too long is skipped whole.                 *)
CopyWholeBlocks(h) == IF length - offset < BlockSize THEN stream
  ELSE [k \in Index |-> IF k \in offset .. offset + BlockSize - 1 THEN h[k - offset] ELSE stream[k]]

(* copy(stream[offset:], block[:copyLen])                                  *)
CopyBlock(h) ==
  LET copyLen == Least(BlockSize, length - offset) IN
  [k \in Index |-> IF k \in offset .. offset + copyLen - 1 THEN h[k - offset] ELSE stream[k]]

deriveKeyStream ==
  /\ pc = "stream"
  /\ offset < length
  /\ \E h \in Block :
       /\ stream' = CopyBlock(h)
       /\ blocks' = [k \in 0 .. blockNum |-> IF k = blockNum THEN h ELSE blocks[k]]
  /\ offset' = offset + Least(BlockSize, length - offset)
  /\ blockNum' = blockNum + 1
  /\ UNCHANGED <<input, pc, permutation, i, obfuscated, restored>>

StreamDerived ==
  /\ pc = "stream"
  /\ offset >= length
  /\ pc' = "obfuscate"
  /\ UNCHANGED <<input, derived, obfuscated, restored>>

-----------------------------------------------------------------------------
(* Obfuscate and Deobfuscate                                               *)

Mask(d) == [k \in Index |-> Xor[d[k]][stream[k]]]

Shuffled(d) == [k \in Index |-> d[permutation[k]]]

(* result[permutation[k]] = d[k] for k in order: the last one stays, and   *)
(* what none writes is zero.                                               *)
Unshuffled(d) ==
  [s \in Index |->
     IF \E k \in Index : permutation[k] = s
     THEN d[CHOOSE k \in Index : /\ permutation[k] = s
                                 /\ \A e \in Index : permutation[e] = s => e <= k]
     ELSE 0]

Obfuscate ==
  /\ pc = "obfuscate"
  /\ obfuscated' = IF kind = "xor" THEN Mask(data) ELSE Shuffled(Mask(data))
  /\ pc' = "deobfuscate"
  /\ UNCHANGED <<input, derived, restored>>

(* Mutant: the mask is taken off before the bytes are back in place.       *)
DeobfuscateMaskFirst ==
  /\ pc = "deobfuscate"
  /\ restored' = IF kind = "xor" THEN Mask(obfuscated) ELSE Unshuffled(Mask(obfuscated))
  /\ pc' = "done"
  /\ UNCHANGED <<input, derived, obfuscated>>

Deobfuscate ==
  /\ pc = "deobfuscate"
  /\ restored' = IF kind = "xor" THEN Mask(obfuscated) ELSE Mask(Unshuffled(obfuscated))
  /\ pc' = "done"
  /\ UNCHANGED <<input, derived, obfuscated>>

Next ==
  \/ generatePermutation \/ PermutationGenerated
  \/ deriveKeyStream \/ StreamDerived
  \/ Obfuscate \/ Deobfuscate

Spec == Init /\ [][Next]_vars /\ WF_vars(Next)

-----------------------------------------------------------------------------
(* Properties                                                              *)

(* The permutation is one, after every swap: each source index is that of  *)
(* exactly one destination.  (ShuffleMaskObfuscator.generatePermutation)   *)
PermutationIsBijection ==
  /\ \A k, m \in Index : permutation[k] = permutation[m] => k = m
  /\ \A s \in Index : \E k \in Index : permutation[k] = s

(* Byte k of the stream is byte k % BlockSize of the hash of block         *)
(* k \div BlockSize, also in the last, shorter block.                      *)
StreamFromBlocks ==
  \A k \in 0 .. offset - 1 : stream[k] = blocks[k \div BlockSize][k % BlockSize]

(* Deobfuscate gives back what Obfuscate was given.                        *)
RoundTrip == pc = "done" => restored = data

(* The loops end, for every length and block size.                         *)
Terminates == <>(pc = "done")
=============================================================================
