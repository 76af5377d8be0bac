------------------------------ MODULE HexCodec ------------------------------
(***************************************************************************)
(* The hexadecimal form of messages on the bridge's ports                  *)
(* (ihaplite/auxfunctions.c, with iptask.c and tcpserver.c that use it).   *)
(* A byte is a number below 256; a character is the value of its digit, or *)
(* NotHex.  Lengths are kept in one byte.                                  *)
(***************************************************************************)
EXTENDS Naturals, Sequences

Byte == 0 .. 255

CONSTANT Message        \* what is sent to clients
ASSUME MessageAssumption == Message \subseteq Seq(Byte)

Digit == 0 .. 15
NotHex == 16
Char == Digit \cup {NotHex}

(* Two characters make a byte; one that is no digit does not shift it.     *)
Shifted(value, c) == IF c \in Digit THEN (16 * value + c) % 256 ELSE value

hexbinary_to_binary(text) ==
  [j \in 1 .. (Len(text) \div 2) % 256 |->
     Shifted(Shifted(0, text[2 * j - 1]), text[2 * j])]

HighNibble(b) == b \div 16
LowNibble(b) == b % 16

(* Mutant: the two digits of a byte are swapped.                           *)
HexDigitsSwapped(input) ==
  [k \in 1 .. 2 * Len(input) |->
     IF k % 2 = 1 THEN LowNibble(input[(k + 1) \div 2])
                  ELSE HighNibble(input[k \div 2])]

(* The characters binary_to_hexbinary writes, and the length it returns.   *)
HexDigits(input) ==
  [k \in 1 .. 2 * Len(input) |->
     IF k % 2 = 1 THEN HighNibble(input[(k + 1) \div 2])
                  ELSE LowNibble(input[k \div 2])]

HexLength(input) == (2 * Len(input)) % 256

(* What a client is sent: as many characters as that length says.          *)
IP_send_server_hexbinaryString(input) ==
  [k \in 1 .. HexLength(input) |-> HexDigits(input)[k]]

(***************************************************************************)
(* A message sent to a client and converted back is the message if it has  *)
(* less than 128 bytes.  Of a longer one the length in a byte leaves its   *)
(* first Len % 128: nothing at all of 128 bytes, which tcpserver.c:158     *)
(* says can be sent.                                                       *)
(***************************************************************************)
PortsKeepMessages ==
  \A m \in Message :
    hexbinary_to_binary(IP_send_server_hexbinaryString(m))
      = SubSeq(m, 1, Len(m) % 128)
=============================================================================
