----------------------------- MODULE AccountId -----------------------------
(***************************************************************************)
(* The words that name an account: the slots a user may write              *)
(* (yubiwallet/src/account.rs) and the id "applet:slot:curve" of the host  *)
(* (yubiwallet-host/src/main.rs).  A slot is written as a word or as hex   *)
(* digits; a Result is a set: {v} for Ok(v), {} for an error.              *)
(***************************************************************************)
EXTENDS Account, Sequences

Words == {"sig", "signature", "aut", "auth", "authentication", "sign",
          "keymgmt", "key-mgmt", "cardauth", "card-auth"}
Word(w)     == [word |-> w, digits |-> << >>]
Hex(digits) == [word |-> "hex", digits |-> digits]

\* parse_hex_byte: an optional 0x, then u8::from_str_radix, which takes any
\* number of leading zeros and nothing over 255.
ParseHexByte(digits) ==
  LET Value[k \in 0 .. Len(digits)] ==
        IF k = 0 THEN 0 ELSE 16 * Value[k - 1] + digits[k]
  IN IF digits = << >> THEN {} ELSE {Value[Len(digits)]} \cap Slots

\* The two matches of parse_slot.
OpenPgpSlot(label) ==
  CASE label.word \in {"sig", "signature"} -> {SIG}
    [] label.word \in {"aut", "auth", "authentication"} -> {AUT}
    [] OTHER -> {}
PivSlot(label) ==
  CASE label.word = "auth" -> {AUTH}
    [] label.word = "sign" -> {SIGN}
    [] label.word \in {"keymgmt", "key-mgmt"} -> {KEY_MGMT}
    [] label.word \in {"cardauth", "card-auth"} -> {CARD_AUTH}
    [] label.word = "hex" -> ParseHexByte(label.digits)
    [] OTHER -> {}

ParseSlot(applet, label) ==
  IF applet = "openpgp" THEN OpenPgpSlot(label)
  ELSE {v \in PivSlot(label) : IsValid(v)}

\* Mutant: a slot is printed in as few digits as it needs, least first.
LabelBackwards(a) ==
  IF a.applet = "openpgp" THEN Word(IF a.slot = SIG THEN "sig" ELSE "aut")
  ELSE Hex(<<a.slot % 16, a.slot \div 16>>)

\* What list_accounts of the host writes for a slot: a name, or {:02x}.
Label(a) ==
  IF a.applet = "openpgp" THEN Word(IF a.slot = SIG THEN "sig" ELSE "aut")
  ELSE Hex(<<a.slot \div 16, a.slot % 16>>)

\* account_json's id, and parse_account.
IdOf(a) == [applet |-> a.applet, slot |-> Label(a), curve |-> a.curve]
ParseAccount(id) ==
  {[applet |-> id.applet, slot |-> s, curve |-> id.curve] : s \in ParseSlot(id.applet, id.slot)}

\* What the command line takes for an account (AccountArgs::to_account).
ToAccount(id) == {a \in ParseAccount(id) : ~(a.applet = "piv" /\ a.curve = "secp256k1")}
=============================================================================
