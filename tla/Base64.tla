------------------------------- MODULE Base64 -------------------------------
(***************************************************************************)
(* Base64 of ewss.hpp: three bytes are four characters.  A character is    *)
(* its position in kAlphabet.                                              *)
(***************************************************************************)
EXTENDS Integers, Sequences

CONSTANTS
  TextByte,   \* the bytes encoded
  MaxText     \* bound: how many

Octet == 0..255

ASSUME Base64Assumption == TextByte \subseteq Octet /\ MaxText \in Nat

VARIABLE text   \* what is encoded

Pad == 64   \* kTable has 64 for '=' and for what is no character

(* Mutant: the second byte is there when the third is. *)
EncodeDropsSecond(data, i) ==
  LET at(k) == IF i + k < Len(data) THEN data[i + k + 1] ELSE 0
      b == at(0) * 65536 + at(1) * 256 + at(2)
  IN  <<(b \div 262144) % 64, (b \div 4096) % 64,
        IF i + 2 < Len(data) THEN (b \div 64) % 64 ELSE Pad,
        IF i + 2 < Len(data) THEN b % 64 ELSE Pad>>

(* The characters of the three bytes from i on, or of as many as there     *)
(* are; what stands for missing bytes only is '='.                         *)
EncodeGroup(data, i) ==
  LET at(k) == IF i + k < Len(data) THEN data[i + k + 1] ELSE 0
      b == at(0) * 65536 + at(1) * 256 + at(2)
  IN  <<(b \div 262144) % 64, (b \div 4096) % 64,
        IF i + 1 < Len(data) THEN (b \div 64) % 64 ELSE Pad,
        IF i + 2 < Len(data) THEN b % 64 ELSE Pad>>

encode(data) ==
  [j \in 1..(((Len(data) + 2) \div 3) * 4) |->
     EncodeGroup(data, ((j - 1) \div 4) * 3)[((j - 1) % 4) + 1]]

(* The bytes of the group of four characters that starts at i. *)
DecodeGroup(chars, i) ==
  LET digit(k) == IF chars[i + k] = Pad THEN 0 ELSE chars[i + k]
      b == chars[i] * 262144 + chars[i + 1] * 4096 + digit(2) * 64 + digit(3)
      first == (b \div 65536) % 256
      second == (b \div 256) % 256
  IN  IF chars[i + 2] = Pad THEN <<first>>
      ELSE IF chars[i + 3] = Pad THEN <<first, second>>
      ELSE <<first, second, b % 256>>

(* Of what encode writes; other characters are not told apart. *)
decode(chars) ==
  LET groups == Len(chars) \div 4
      result[g \in 0..groups] ==
        IF g = 0 THEN <<>> ELSE result[g - 1] \o DecodeGroup(chars, 4 * g - 3)
  IN  IF Len(chars) % 4 # 0 THEN <<>> ELSE result[groups]

TextInit == text = <<>>

AddByte(b) == Len(text) < MaxText /\ text' = Append(text, b)

TextNext == \E b \in TextByte : AddByte(b)

TextSpec == TextInit /\ [][TextNext]_text

(* decode undoes encode, for every number of bytes in the last group. *)
DecodeUndoesEncode == decode(encode(text)) = text

=============================================================================
