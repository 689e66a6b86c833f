-------------------------------- MODULE Apdu --------------------------------
(***************************************************************************)
(* The bytes of a command (yubiwallet/src/apdu.rs), and how a card takes   *)
(* them apart (ISO 7816-4, external).  An Option is a sequence: << >> for  *)
(* None and <<v>> for Some(v).  A Result is a set: {v} for Ok(v), {} for   *)
(* an error.                                                               *)
(***************************************************************************)
EXTENDS Integers, Sequences

\* build_apdu: Lc and the data, or neither; then Le.  With nothing to append
\* a lone 00, which is an Le.
BuildApdu(head, data, le) ==
  IF data # << >> /\ Len(data[1]) > 255 THEN {}
  ELSE {head \o (IF data # << >> THEN <<Len(data[1])>> \o data[1]
                 ELSE IF le = << >> THEN <<0>> ELSE << >>) \o le}

\* build_apdu_ext: a three-byte Lc whose high bits `as u8` drops, the data, and
\* a two-byte Le.
BuildApduExt(head, data, le) ==
  head \o <<0, (Len(data) \div 256) % 256, Len(data) % 256>> \o data
       \o (IF le = << >> THEN << >> ELSE <<le[1] \div 256, le[1] % 256>>)

-----------------------------------------------------------------------------
(* The card's side: the data of a command, and how long an answer may be (0 *)
(* for none).  Anything that is not exactly one command is refused.         *)

Command(data, le) == {[data |-> data, le |-> le]}
OrMost(le, most) == IF le = 0 THEN most ELSE le

\* A body that begins with a one-byte Lc.
ShortCommand(body, lc) ==
  LET size == Len(body)
      data == SubSeq(body, 2, 1 + lc) IN
  IF size = 1 + lc THEN Command(data, 0)
  ELSE IF size = 2 + lc THEN Command(data, OrMost(body[size], 256))
  ELSE {}

\* A body that begins with 00 and a two-byte Lc.
LongCommand(body, lc) ==
  LET size == Len(body)
      data == SubSeq(body, 4, 3 + lc) IN
  IF lc = 0 THEN {}
  ELSE IF size = 3 + lc THEN Command(data, 0)
  ELSE IF size = 5 + lc THEN
    Command(data, OrMost(256 * body[size - 1] + body[size], 65536))
  ELSE {}

\* What follows the header: nothing, a short Le, a short Lc, an extended Le or
\* an extended Lc.
BodyReads(body) ==
  LET size == Len(body)
      long == 256 * body[2] + body[3] IN
  IF size = 0 THEN Command(<< >>, 0)
  ELSE IF size = 1 THEN Command(<< >>, OrMost(body[1], 256))
  ELSE IF body[1] # 0 THEN ShortCommand(body, body[1])
  ELSE IF size < 3 THEN {}
  ELSE IF size = 3 THEN Command(<< >>, OrMost(long, 65536))
  ELSE LongCommand(body, long)

CardReads(apdu) == BodyReads(SubSeq(apdu, 5, Len(apdu)))

-----------------------------------------------------------------------------
(* Properties of one data field.                                            *)

\* A short command reaches the card with its data, or is refused; only data
\* that is there but empty is read as no data at all, so that VERIFY with an
\* empty PIN is a question and no try (apdu.rs build_apdu).
ShortReadBack(head, d) ==
  LET Read(le) == UNION {CardReads(a) : a \in BuildApdu(head, <<d>>, le)} IN
  CASE Len(d) > 255 -> Read(<< >>) = {} /\ Read(<<0>>) = {}
    [] Len(d) = 0   -> Read(<< >>) = Command(<< >>, 256) /\ Read(<<0>>) = {}
    [] OTHER        -> Read(<< >>) = Command(d, 0) /\ Read(<<0>>) = Command(d, 256)

\* An extended command reaches the card with all of its data, or it is no
\* command at all: a length that wraps never passes a part for the whole
\* (apdu.rs build_apdu_ext).
ExtReadBack(head, d) ==
  CardReads(BuildApduExt(head, d, <<0>>)) =
    IF 0 < Len(d) /\ Len(d) < 65536 THEN Command(d, 65536) ELSE {}
=============================================================================
