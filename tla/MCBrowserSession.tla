-------------------------- MODULE MCBrowserSession --------------------------
(***************************************************************************)
(* One card and one host, with two calls: two in flight together, or one   *)
(* after the other.                                                        *)
(***************************************************************************)
EXTENDS BrowserSession, MCNativeHost

SessionPins == {"pin1", "pin2"}
SessionPinLen == [x \in SessionPins |-> 6]

\* A signature, a listing, and a request that is refused at once.
SessionRequests ==
  {Request("sign_ed25519", Sol, "tx"), Request("get_status", None, None),
   Request("sign_secp256k1", Unknown, "tx")}
SessionCalls ==
  {Detect(SIG), Detect(AUT), ListPiv}
  \cup {Ask(op, Sol.applet, Sol.slot, Sol.curve, "tx", x) :
          op \in {"get_pubkey", "sign"}, x \in SessionPins \cup {Prompt}}

\* One slot is enough for the listing to have a step of its own.
OneSlot == <<AUTH>>
=============================================================================
