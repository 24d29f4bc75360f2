------------------------------ MODULE CencSamples ------------------------------
(***************************************************************************)
(* Decryption of one sample (src/drm/cenc.rs).                              *)
(*                                                                         *)
(* A byte is [kind |-> "byte", id, mask]: which byte of the clear track it  *)
(* is, and the keystream bytes it is xored with, none when it is clear.     *)
(* Applying a keystream byte twice cancels it.  AES itself is abstract: a   *)
(* keystream byte is named by what determines it, for AES-CTR the key, the  *)
(* IV, the number of the block and the place in it, for AES-CBC the key,    *)
(* the preceding cipher block or the IV, and the place in the block.        *)
(* Keys have a length AES accepts, and no sub-sample begins behind the end   *)
(* of its sample.                                                           *)
(***************************************************************************)
EXTENDS Absent, Places

CONSTANT Block   \* bytes of a cipher block

ASSUME BlockAssumption == Block \in Nat \ {0}

Flip(b, keystream) ==
  [b EXCEPT !.mask = (@ \ {keystream}) \cup ({keystream} \ @)]

(* aes_ctr_decrypt_with_offset, aes_ctr_decrypt *)
CtrDecrypt(data, key, iv, offset) ==
  [j \in DOMAIN data |->
     Flip(data[j], <<"ctr", key, iv, offset + (j - 1) \div Block, (j - 1) % Block>>)]

(* aes_cbc_decrypt_full_blocks: a partial block at the end stays as it is. *)
CbcDecrypt(data, key, iv) ==
  LET Chain(j) == IF j <= Block THEN <<"iv", iv>>
                  ELSE <<"block", data[((j - 1) \div Block - 1) * Block + 1].id>>
  IN  [j \in DOMAIN data |->
         IF j > (Len(data) \div Block) * Block THEN data[j]
         ELSE Flip(data[j], <<"cbc", key, Chain(j), (j - 1) % Block>>)]

(* decrypt_cbcs_pattern: crypt blocks, skip blocks, and so on; the chosen   *)
(* blocks are decrypted as one chain.                                       *)
PatternDecrypt(data, key, iv, crypt, skip) ==
  LET number(j) == (j - 1) \div Block
      chosen    == {j \in DOMAIN data : /\ number(j) % (crypt + skip) < crypt
                                        /\ (number(j) + 1) * Block <= Len(data)}
      rank(j)   == Cardinality({k \in chosen : k <= j})
      plain     == CbcDecrypt(Filtered(data, chosen), key, iv)
  IN  IF crypt = 0 THEN data
      ELSE IF skip = 0 THEN CbcDecrypt(data, key, iv)
      ELSE [j \in DOMAIN data |-> IF j \in chosen THEN plain[rank(j)] ELSE data[j]]

(* The loop the three decrypt_sample functions share: the place j of a      *)
(* sample of n bytes is in the clear or the protected part of a sub-sample, *)
(* or behind the last one; where that part begins and ends, and the blocks  *)
(* of the protected parts before it.                                        *)
PartAt(n, subs, j) ==
  LET end    == Ends([i \in DOMAIN subs |-> subs[i].clear + subs[i].enc])
      blocks == Ends([i \in DOMAIN subs |-> (subs[i].enc + Block - 1) \div Block])
      last   == Len(subs)
      Part(kind, from, to, i) == [kind |-> kind, from |-> from, to |-> IF to < n THEN to ELSE n,
                                  blocks |-> blocks[i]]
      Within(i, clear) == IF j <= clear THEN Part("clear", end[i - 1], clear, i - 1)
                          ELSE Part("protected", clear, end[i], i - 1)
      In(i) == Within(i, end[i - 1] + subs[i].clear)
  IN  IF end[last] < j THEN Part("rest", end[last], n, last)
      ELSE In(CHOOSE i \in DOMAIN subs : end[i - 1] < j /\ j <= end[i])

Cut(sample, part) == SubSeq(sample, part.from + 1, part.to)

DecryptCenc(sample, info, key) ==
  LET Byte(j, part) == IF part.kind = "clear" THEN sample[j]
                       ELSE CtrDecrypt(Cut(sample, part), key, info.iv, part.blocks)[j - part.from]
  IN  [j \in DOMAIN sample |-> Byte(j, PartAt(Len(sample), info.subs, j))]

DecryptCbc1(sample, info, key) ==
  LET Byte(j, part) == IF part.kind # "protected" THEN sample[j]
                       ELSE CbcDecrypt(Cut(sample, part), key, info.iv)[j - part.from]
  IN  IF info.subs = <<>> THEN CbcDecrypt(sample, key, info.iv)
      ELSE [j \in DOMAIN sample |-> Byte(j, PartAt(Len(sample), info.subs, j))]

DecryptCbcs(sample, info, key, track) ==
  LET iv == IF track.civ # None THEN track.civ ELSE info.iv
      Decrypt(data) == PatternDecrypt(data, key, iv, track.crypt, track.skip)
      Byte(j, part) == IF part.kind # "protected" THEN sample[j]
                       ELSE Decrypt(Cut(sample, part))[j - part.from]
  IN  IF info.subs = <<>> THEN Decrypt(sample)
      ELSE [j \in DOMAIN sample |-> Byte(j, PartAt(Len(sample), info.subs, j))]

(* decrypt_sample: cens is treated as cenc. *)
DecryptSample(sample, info, key, scheme, track) ==
  IF scheme = "cbcs" THEN DecryptCbcs(sample, info, key, track)
  ELSE IF scheme = "cbc1" THEN DecryptCbc1(sample, info, key)
  ELSE DecryptCenc(sample, info, key)

=============================================================================
