---------------------------- MODULE MCNativeHost ----------------------------
(***************************************************************************)
(* Small instances of NativeHost: one host, two cards that may be swapped, *)
(* or one card that another process uses too.                              *)
(***************************************************************************)
EXTENDS NativeHost, MCCardSession

Acc(applet, slot, curve) == [applet |-> applet, slot |-> slot, curve |-> curve]
Request(method, account, msg) == [method |-> method, account |-> account, msg |-> msg]
Evm == Acc("openpgp", AUT, "secp256k1")   \* k1 on card 1, a P-256 key on card 2
Sol == Acc("openpgp", SIG, "ed25519")

\* The requests of a browser that only looks.
MCListRequests ==
  {Request("list_accounts", None, None), Request("get_info", None, None),
   Request("other", None, None)}

\* A request of each kind that reaches a card, one answered without, one refused.
MCHostRequests ==
  {Request("list_accounts", None, None), Request("get_info", None, None),
   Request("sign_secp256k1", Evm, "tx"),
   Request("sign_ed25519", Sol, "tx"), Request("sign_secp256k1", Evm, "blob")}

MCCrossRequests ==
  {Request("sign_ed25519", Evm, "tx"), Request("sign_ed25519", Sol, "tx")}

\* A slot that both cards have a certificate for, and one of card 2 only.
TwoSlots == <<AUTH, RETIRED_FIRST>>

\* The library calls that any of these needs.
MCRequests ==
  {Detect(SIG), Detect(AUT), ListPiv}
  \cup {Ask(op, a.applet, a.slot, a.curve, "tx", x) :
          op \in {"get_pubkey", "sign"}, x \in MCPins \cup {Prompt},
          a \in {Evm, Sol}}
=============================================================================
