------------------------------ MODULE Account ------------------------------
(***************************************************************************)
(* What an account is: an applet of the card, a key slot of that applet    *)
(* and a signature curve (yubiwallet/src/account.rs).  Slots are the byte  *)
(* values the code uses, written in decimal.                               *)
(***************************************************************************)
EXTENDS Integers

Applets == {"openpgp", "piv"}
Curves  == {"ed25519", "secp256k1"}

\* Module openpgp_slot.
SIG == 1
AUT == 3
OpenPgpSlots == {SIG, AUT}

\* Module piv_slot: 0x9A, 0x9C, 0x9D, 0x9E and the retired 0x82 .. 0x95.
AUTH      == 154
SIGN      == 156
KEY_MGMT  == 157
CARD_AUTH == 158
RETIRED_FIRST == 130
RETIRED_LAST  == 149

\* piv_slot::is_valid
IsValid(slot) ==
  \/ slot \in {AUTH, SIGN, KEY_MGMT, CARD_AUTH}
  \/ slot \in RETIRED_FIRST .. RETIRED_LAST

\* piv_slot::all, in its stable order.
AllPivSlots ==
  [i \in 1 .. 24 |-> IF i <= 4 THEN <<AUTH, SIGN, KEY_MGMT, CARD_AUTH>>[i]
                     ELSE RETIRED_FIRST + (i - 5)]

Slots == 0 .. 255   \* u8

Account == [applet : Applets, slot : Slots, curve : Curves]

\* The accounts parse_slot lets a caller name: a slot of the applet's own.
NamedSlot(applet, slot) ==
  IF applet = "openpgp" THEN slot \in OpenPgpSlots ELSE IsValid(slot)
=============================================================================
