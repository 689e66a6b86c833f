--------------------------- MODULE MCWalletTools ---------------------------
(***************************************************************************)
(* One user with the tools, and two cards that may be swapped between and  *)
(* inside the sessions of a command.                                       *)
(***************************************************************************)
EXTENDS WalletTools, MCCardSession

At(tool, applet, slot, curve, msg) ==
  [tool |-> tool, account |-> [applet |-> applet, slot |-> slot, curve |-> curve], msg |-> msg]

\* A listing, an address, an account there is no card for, and a transaction of
\* each chain; Bitcoin and Sui also without one.
MCCommands ==
  {At("list", "piv", AUTH, "ed25519", None),
   At("address", "openpgp", SIG, "ed25519", None),
   At("address", "piv", AUTH, "secp256k1", None),
   At("ethereum", "openpgp", AUT, "secp256k1", "tx"),
   At("bitcoin", "openpgp", AUT, "secp256k1", "tx"),
   At("sui", "piv", AUTH, "ed25519", "tx"),
   At("sui", "piv", AUTH, "ed25519", None),
   At("solana", "piv", AUTH, "ed25519", "blob")}

\* Both cards have one PIN, so that a swapped card signs too.
ToolPins == {"pin1"}
ToolPinLen == [x \in ToolPins |-> 6]
ToolPinOf == [c \in Cards |-> [a \in Applets |-> "pin1"]]

\* The library calls that any of these needs.
MCToolRequests ==
  {Detect(SIG), Detect(AUT), ListPiv} \cup {PubkeyOf(d) : d \in MCCommands}
  \cup {SignatureOf(d) : d \in {d \in MCCommands : d.msg # None}}
=============================================================================
