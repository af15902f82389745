---------------------------- MODULE PacketCodec ----------------------------
(***************************************************************************)
(* The packet codec of the lws-websocket plugin (functions.h) and of the    *)
(* controllers (getCRC of client.js): the 8-bit checksum, its verification, *)
(* the split into fields, and the ACK and NACK frames.                      *)
(*                                                                          *)
(* A string is the sequence of its character codes.  The only state is the  *)
(* body of a packet a controller is composing, one character at a time, so  *)
(* that TLC visits every body up to MaxLen characters over Alphabet; the    *)
(* properties compare what the two sides compute from it.                   *)
(***************************************************************************)
EXTENDS Naturals, Integers, Sequences, SequencesExt

CONSTANTS
  Alphabet,   \* character codes the body of a packet is made of
  MaxLen      \* bound: characters in the body

(* Blanks and signs, which atoi() would skip or obey, are in no field.        *)
ASSUME CodecConstants ==
  /\ Alphabet \subseteq 33..126 \ {43, 45}
  /\ MaxLen \in Nat

VARIABLE body

Comma == 44
Zero == 48
Nine == 57
EOT == <<69, 79, 84, 13, 10>>       \* "EOT\r\n"
PC_NOTES == 7

Init == body = <<>>

Compose ==
  /\ Len(body) < MaxLen
  /\ \E ch \in Alphabet : body' = Append(body, ch)

Next == Compose
Spec == Init /\ [][Next]_body

-----------------------------------------------------------------------------
(* libc, as the code uses it: the number a string starts with, and "%d".     *)
IsDigit(ch) == ch \in Zero..Nine

atoi(s) ==
  LET digits == {n \in 0..Len(s) : \A i \in 1..n : IsDigit(s[i])}
  IN FoldLeft(LAMBDA v, ch : 10 * v + (ch - Zero), 0, SubSeq(s, 1, Max(digits)))

Decimal(n) ==
  IF n <= 9 THEN <<Zero + n>>
  ELSE IF n <= 99 THEN <<Zero + (n \div 10), Zero + (n % 10)>>
  ELSE <<Zero + (n \div 100), Zero + ((n \div 10) % 10), Zero + (n % 10)>>

(* checksum(): the sum of the first sz characters, in an unsigned char.      *)
checksum(s, sz) == FoldLeft(LAMBDA chk, ch : (chk + ch) % 256, 0, SubSeq(s, 1, sz))

(* Mutant: the index of the first delimiter. *)
findFirstIndex(s, x) == IF Contains(s, x) THEN SelectInSeq(s, LAMBDA ch : ch = x) ELSE 0

(* findLastIndex(): how many characters up to and including the last x.      *)
findLastIndex(s, x) == Max({0} \cup {i \in 1..Len(s) : s[i] = x})

(* Mutant: a checksum field that is too large is accepted. *)
isCRCValidLenient(packetType, packet) ==
  LET lastindex == findLastIndex(packet, Comma)
      str == SubSeq(packet, lastindex + 1, Len(packet))
  IN atoi(str) >= checksum(packet, lastindex)

(* isCRCValid(): the number after the last comma is the checksum of          *)
(* everything up to it; a PC_NOTES packet may end in EOT instead.            *)
isCRCValid(packetType, packet) ==
  LET lastindex == findLastIndex(packet, Comma)
      str == SubSeq(packet, lastindex + 1, Len(packet))
  IN \/ packetType = PC_NOTES /\ str = EOT
     \/ atoi(str) = checksum(packet, lastindex)

(* isCRCValid() copies the field after the last comma into five bytes: a     *)
(* longer one overruns them, and nothing is defined from there on.           *)
Overruns(packet) == Len(packet) - findLastIndex(packet, Comma) > 4

(* A checksum as three decimal digits (getACK, getNck, getCRC).              *)
Pad3(chk) ==
  IF chk <= 9 THEN <<Zero, Zero>> \o Decimal(chk)
  ELSE IF chk <= 99 THEN <<Zero>> \o Decimal(chk)
  ELSE Decimal(chk)

(* getCRC() of the controller: the last two hex digits of the whole sum.     *)
getCRC(s) ==
  LET Total == FoldLeft(LAMBDA sum, ch : sum + ch, 0, s)
  IN Pad3(Total % 256)

(* getACK() and getNck(): "11,<type>,<chk>,@~!11" and "16,...,@~!16".        *)
Frame(code, pType) ==
  LET head == code \o <<Comma>> \o Decimal(pType) \o <<Comma>>
  IN head \o Pad3(checksum(head, Len(head))) \o <<Comma, 64, 126, 33>> \o code

getACK(pType) == Frame(<<49, 49>>, pType)
getNck(pType) == Frame(<<49, 54>>, pType)

-----------------------------------------------------------------------------
(* str_split(): strtok() skips empty fields ...                              *)
TokenStarts(s) ==
  {i \in 1..Len(s) : s[i] # Comma /\ (i = 1 \/ s[i - 1] = Comma)}

(* Mutant: no room is counted for a trailing token. *)
CountNoTrailing(s) == Len(SelectSeq(s, LAMBDA ch : ch = Comma)) + 1

(* ... but the slots of the result are counted by commas, plus one for a     *)
(* trailing token, plus one for the terminator.  Without any comma the last  *)
(* one is NULL, which is below every pointer into the string.                *)
Count(s) ==
  LET commas == Len(SelectSeq(s, LAMBDA ch : ch = Comma))
      trailing == commas = 0 \/ findLastIndex(s, Comma) < Len(s)
  IN commas + (IF trailing THEN 1 ELSE 0) + 1

(* The two assertions of str_split(): idx < count at every token, and        *)
(* idx == count - 1 at the end.                                              *)
Asserts(s) == Cardinality(TokenStarts(s)) = Count(s) - 1
TokensFit(s) == Cardinality(TokenStarts(s)) <= Count(s)

-----------------------------------------------------------------------------
(* "45,PIT905,01,01,00,05,04,4,4,4,0,0,0,071", all that client.js ever sends. *)
data == <<52, 53, 44, 80, 73, 84, 57, 48, 53, 44, 48, 49, 44, 48, 49, 44, 48, 48,
          44, 48, 53, 44, 48, 52, 44, 52, 44, 52, 44, 52, 44, 48, 44, 48, 44, 48,
          44, 48, 55, 49>>

(* An input of the properties: the body as a packet of the same form.  No    *)
(* code of the repository composes one; getCRC() says what the last field is. *)
Packet == Append(body, Comma) \o getCRC(Append(body, Comma))

(* A packet whose last field getCRC() computed the server accepts, and data  *)
(* is such a packet.                                                         *)
RoundTrip ==
  /\ isCRCValid(atoi(Packet), Packet) /\ ~ Overruns(Packet)
  /\ data = SubSeq(data, 1, Len(data) - 3) \o getCRC(SubSeq(data, 1, Len(data) - 3))

(* The part of an ACK or NACK in front of its trailer is a valid packet, and *)
(* the 20 bytes of getACK() and getNck() hold it for every packet number of  *)
(* three digits.                                                             *)
RepliesVerify ==
  LET t == atoi(body) % 1000
  IN \A r \in {getACK(t), getNck(t)} :
       /\ isCRCValid(0, SubSeq(r, 1, Len(r) - 6))
       /\ Len(r) < 20

(***************************************************************************)
(* Whatever either side makes verifies by the rule the server applies: the  *)
(* two implementations of the checksum (getCRC() of client.js and           *)
(* checksum() of functions.h), the padding, findLastIndex() and atoi() fit  *)
(* together for every body, for client.js's one packet and for every reply. *)
(***************************************************************************)
SentVerifies == RoundTrip /\ RepliesVerify

(***************************************************************************)
(* What isCRCValid() makes of one damaged character, anywhere in a packet.  *)
(* Damage that leaves the last comma where it was is noticed, save that a   *)
(* checksum of 000 may lose a digit.  Damage that moves the last comma may  *)
(* go unnoticed: if it took the only comma, what is left verifies whenever  *)
(* it does not start with a number (functions.h:74 compares 0 with 0).      *)
(***************************************************************************)
OneErrorNoticed ==
  \A i \in 1..Len(Packet) : \A ch \in Alphabet \ {Packet[i]} :
    LET separator == Len(body) + 1
        damaged == [Packet EXCEPT ![i] = ch]
        verifies == isCRCValid(atoi(damaged), damaged)
    IN /\ findLastIndex(damaged, Comma) = separator =>
            (verifies <=> /\ checksum(Packet, separator) = 0
                          /\ i > separator /\ ~ IsDigit(ch))
       /\ ~ Contains(damaged, Comma) => (verifies <=> atoi(damaged) = 0)

(***************************************************************************)
(* str_split() keeps its assertions exactly for strings in which no field   *)
(* is empty, except that one comma may end the string; whatever the string, *)
(* its tokens fit the slots that were counted.                              *)
(***************************************************************************)
NoEmptyField(s) ==
  /\ s # <<>>
  /\ s[1] # Comma
  /\ \A i \in 2..Len(s) : ~(s[i] = Comma /\ s[i - 1] = Comma)

SplitAssertsExactly == (Asserts(body) <=> NoEmptyField(body)) /\ TokensFit(body)

(***************************************************************************)
(* RECEIVE takes the second field of a fragment that verifies for its redis *)
(* key without asking whether there is one (tokens+1, given to concat()): it *)
(* is there for every fragment that survived str_split(), unless the        *)
(* checksum that verified is 0, as it is of a fragment without a comma.     *)
(* Then concat() is given NULL.                                             *)
(***************************************************************************)
VerifiedHasKey ==
  (Asserts(body) /\ ~ Overruns(body) /\ isCRCValid(atoi(body), body)) =>
    \/ Cardinality(TokenStarts(body)) >= 2
    \/ checksum(body, findLastIndex(body, Comma)) = 0
=============================================================================
