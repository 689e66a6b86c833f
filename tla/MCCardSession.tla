--------------------------- MODULE MCCardSession ---------------------------
(***************************************************************************)
(* Small instances of CardSession.  Two processes and up to two cards: an  *)
(* interleaving hazard needs one session and one intruder, and a swap      *)
(* needs one card besides the session's.                                   *)
(***************************************************************************)
EXTENDS CardSession, TLC

CONSTANTS cli, host, yubi1, yubi2

\* Names of the keys: ed25519, secp256k1 and P-256 ones, of each card.
MCKeys == {"e1", "s1", "k1", "n1", "e2", "n2"}
MCCurveOf == [k \in MCKeys |-> CASE k \in {"e1", "e2", "s1"} -> "ed25519"
                                 [] k = "k1" -> "secp256k1"
                                 [] k \in {"n1", "n2"} -> "p256"]

\* The PINs of the two cards, one too long for PIV (and wrong), and no PIN.
MCPins == {"pin1", "pin2", "long", "blank"}
MCPinLen == [x \in MCPins |-> CASE x = "long" -> 9 [] x = "blank" -> 0 [] OTHER -> 6]
MCPinOf == [c \in Cards |-> [a \in Applets |-> IF c = yubi1 THEN "pin1" ELSE "pin2"]]

\* "tx" fits every command, the others only PIV's: "blob" with room to spare,
\* "full" exactly, and "huge" has a byte too many for it.
MCMsgs == {"tx", "blob", "full", "huge"}
MCMsgLen == [m \in MCMsgs |-> CASE m = "tx" -> 32 [] m = "blob" -> 300
                                [] m = "full" -> 65525 [] m = "huge" -> 65526]

\* Card 1 has an Ed25519 key in SIG and in PIV 9A (with a certificate that
\* still holds an older key, s1), a secp256k1 key in AUT, and a P-256 key in
\* PIV 9C; card 2 has an Ed25519 key in SIG and in 9A, and a P-256 key in AUT.
\* The key in 9A of card 1 needs no PIN.
MCKeyIn ==
  [c \in Cards |-> [a \in Applets |-> [s \in Slots |->
     CASE c = yubi1 /\ (<<a, s>> \in {<<"openpgp", SIG>>, <<"piv", AUTH>>}) -> "e1"
       [] c = yubi1 /\ a = "openpgp" /\ s = AUT -> "k1"
       [] c = yubi1 /\ a = "piv" /\ s = SIGN -> "n1"
       [] c = yubi2 /\ (<<a, s>> \in {<<"openpgp", SIG>>, <<"piv", AUTH>>}) -> "e2"
       [] c = yubi2 /\ a = "openpgp" /\ s = AUT -> "n2"
       [] OTHER -> None]]]
MCCertIn ==
  [c \in Cards |-> [s \in Slots |->
     CASE c = yubi1 /\ s = AUTH -> "s1"
       [] c = yubi1 /\ s = SIGN -> "n1"
       [] c = yubi2 /\ s \in {AUTH, RETIRED_FIRST} -> "e2"
       [] OTHER -> None]]
MCNoPinKeys == {"e1"}
MCPivSlots == <<AUTH, SIGN, RETIRED_FIRST>>

Ask(op, applet, slot, curve, msg, x) ==
  [op |-> op, applet |-> applet, slot |-> slot, curve |-> curve, msg |-> msg, pin |-> x]
Sign(applet, slot, msg, x) == Ask("sign", applet, slot, "ed25519", msg, x)

\* Signatures: each PIN reference, a right PIN, a PIN the user types, a PIN and
\* a message too long, a key without PIN; and a listing beside them.
SignRequests ==
  {Ask("list_accounts", "piv", AUTH, "ed25519", "tx", Prompt),
   Sign("openpgp", SIG, "tx", "pin1"), Sign("openpgp", SIG, "blob", "pin1"),
   Sign("openpgp", AUT, "tx", Prompt), Sign("piv", AUTH, "blob", "pin1"),
   Sign("piv", SIGN, "tx", "long"), Ask("sign", "piv", AUTH, "secp256k1", "tx", "pin1")}

\* Every operation, and every way a request may be wrong.
MixedRequests ==
  {Ask("list_accounts", "piv", AUTH, "ed25519", "tx", Prompt),
   Ask("get_pubkey", "openpgp", AUT, "ed25519", "tx", Prompt),
   Ask("get_pubkey", "openpgp", 2, "ed25519", "tx", Prompt),
   Ask("get_pubkey", "piv", AUTH, "ed25519", "tx", Prompt),
   Ask("detect_account", "openpgp", AUT, "ed25519", "tx", Prompt),
   Sign("openpgp", AUT, "tx", "pin1"), Sign("openpgp", SIG, "tx", "pin2"),
   Sign("piv", AUTH, "full", "pin1"), Sign("piv", AUTH, "huge", "pin1")}

\* Calls that tell the host's list_accounts what is on a card.
ListRequests ==
  {Ask("list_accounts", "piv", AUTH, "ed25519", "tx", Prompt),
   Ask("detect_account", "openpgp", SIG, "ed25519", "tx", Prompt),
   Ask("detect_account", "openpgp", AUT, "ed25519", "tx", Prompt)}

\* A caller with a PIN, one without, and one whose key is not of the curve.
ReturnRequests ==
  {Ask("get_pubkey", "openpgp", AUT, "ed25519", "tx", Prompt),
   Ask("list_accounts", "piv", AUTH, "ed25519", "tx", Prompt),
   Sign("openpgp", SIG, "tx", "pin1"), Sign("piv", SIGN, "tx", Prompt)}

\* The two processes run the same code.
ProcSymmetry == Permutations(Procs)
=============================================================================
