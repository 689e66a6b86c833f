----------------------------- MODULE SmartCard -----------------------------
(***************************************************************************)
(* The hardware and the PC/SC service under the library: none of it is     *)
(* under src/.  It is modelled from how yubiwallet uses it (the pcsc crate *)
(* at the version of Cargo.lock, the APDUs of openpgp.rs and piv.rs and    *)
(* the status words of error.rs), as liberally as the standards allow:     *)
(* where cards differ the model lets the card choose.                      *)
(*                                                                         *)
(* A card has two applets.  At most one is selected, each has its own PIN  *)
(* with a counter of tries, and a verified PIN stays verified for one PIN  *)
(* reference until the card is reset or another applet is selected.        *)
(* Sessions share a card: nothing stops the APDUs of two processes from    *)
(* interleaving, since apdu::connect asks for ShareMode::Shared and no     *)
(* caller opens a transaction.                                             *)
(***************************************************************************)
EXTENDS Account, FiniteSets

CONSTANTS
  Procs,      \* processes that call the library: the CLI, native hosts, ...
  Cards,      \* YubiKeys
  Keys,       \* key pairs; a key stands for its public half too
  Pins,       \* what a caller or a user may give as a PIN
  None,       \* no card, no key, no owner, no request, no signature
  Scdaemon,   \* the other program that opens the card
  MaxTries,   \* wrong PINs in a row before an applet's PIN is blocked
  PinOf,      \* PinOf[card][applet]: the right PIN
  CurveOf,    \* CurveOf[key]
  KeyIn,      \* KeyIn[card][applet][slot]: the key the slot signs with
  CertIn,     \* CertIn[card][slot]: the key in a PIV slot's certificate
  NoPinKeys   \* keys whose PIN policy is "never"

\* A slot may also hold a key the library does not know: P-256 has public
\* keys of the shape of secp256k1's, RSA has not.
KeyCurves == Curves \cup {"p256", "rsa"}

ASSUME CardAssumption ==
  /\ None \notin Cards \cup Keys \cup Procs \cup {Scdaemon}
  /\ Scdaemon \notin Procs
  /\ MaxTries \in Nat \ {0}
  /\ PinOf \in [Cards -> [Applets -> Pins]]
  /\ CurveOf \in [Keys -> KeyCurves]
  /\ KeyIn \in [Cards -> [Applets -> [Slots -> Keys \cup {None}]]]
  /\ CertIn \in [Cards -> [Slots -> Keys \cup {None}]]
  /\ NoPinKeys \subseteq Keys

\* PIN references: P2 of VERIFY.  The two OpenPGP ones share PW1 and its tries.
P2_PW1_SIGN  == 129
P2_PW1_OTHER == 130
P2_PIV_PIN   == 128
PinRefs == {P2_PW1_SIGN, P2_PW1_OTHER, P2_PIV_PIN}
Owners  == Procs \cup {None, Scdaemon}

VARIABLES
  plugged,    \* the cards in a reader
  first,      \* the card of the reader PC/SC lists first, or None
  exclusive,  \* the cards scdaemon holds in exclusive mode
  handle,     \* handle[p]: p's card handle, as PC/SC sees it
  from,       \* from[p]: the card of p's current or last session, or None
  selected,   \* selected[c]: the applet selected, or "none"
  auth,       \* auth[c][ref]: who had the PIN verified, or None
  tries       \* tries[c][applet]: wrong PINs left; survives a reset

readerVars == <<plugged, first, exclusive>>
cardVars   == <<selected, auth, tries>>

\* A handle is closed, open, or open but of no use: since another session
\* reset the card, or since the card was pulled out ("gone").
HandleStates == {"closed", "open", "reset", "gone"}
NobodyVerified == [ref \in PinRefs |-> None]

CardTypeOK ==
  /\ plugged \subseteq Cards
  /\ first \in plugged \cup {None}
  /\ exclusive \subseteq plugged
  /\ handle \in [Procs -> HandleStates]
  /\ from \in [Procs -> Cards \cup {None}]
  /\ \A p \in Procs : handle[p] # "closed" => from[p] \in Cards
  /\ selected \in [Cards -> Applets \cup {"none"}]
  /\ auth \in [Cards -> [PinRefs -> Owners]]
  /\ tries \in [Cards -> [Applets -> 0 .. MaxTries]]

CardInit ==
  /\ plugged \in SUBSET Cards
  /\ first \in IF plugged = {} THEN {None} ELSE plugged
  /\ exclusive = {}
  /\ handle = [p \in Procs |-> "closed"]
  /\ from = [p \in Procs |-> None]
  /\ selected = [c \in Cards |-> "none"]
  /\ auth = [c \in Cards |-> NobodyVerified]
  /\ tries = [c \in Cards |-> [a \in Applets |-> MaxTries]]

-----------------------------------------------------------------------------
(* Handles.  Context::connect and the Drop of pcsc::Card, which disconnects *)
(* with the disposition ResetCard.                                          *)

\* Mutant: the first reader is taken without looking whether there is one.
CanConnectUnchecked == first \notin exclusive

CanConnect == first # None /\ first \notin exclusive

OpenHandle(p) ==
  /\ handle' = [handle EXCEPT ![p] = "open"]
  /\ from' = [from EXCEPT ![p] = first]
  /\ UNCHANGED <<readerVars, cardVars>>

\* The card forgets its applet and its verified PINs, and every other session
\* on it finds SCARD_W_RESET_CARD at its next APDU, for good: no caller
\* reconnects.
ResetBy(p) ==
  LET c == from[p] IN
  /\ selected' = [selected EXCEPT ![c] = "none"]
  /\ auth' = [auth EXCEPT ![c] = NobodyVerified]
  /\ handle' = [q \in Procs |->
                  IF q = p THEN "closed"
                  ELSE IF from[q] = c /\ handle[q] = "open" THEN "reset"
                  ELSE handle[q]]
  /\ UNCHANGED <<readerVars, from, tries>>

LeaveBy(p) ==
  /\ handle' = [handle EXCEPT ![p] = "closed"]
  /\ UNCHANGED <<readerVars, from, cardVars>>

\* A session whose own handle was reset may or may not reset the card again.
CloseHandle(p) ==
  \/ handle[p] \in {"open", "reset"} /\ ResetBy(p)
  \/ handle[p] \in {"closed", "reset", "gone"} /\ LeaveBy(p)

\* When a process dies PC/SC resets the card if the handle was still good.
ReapHandle(p) == IF handle[p] = "open" THEN ResetBy(p) ELSE LeaveBy(p)

-----------------------------------------------------------------------------
(* What a card does with a command of p, on the card c its session opened.  *)

\* SELECT of an applet keeps verified PINs only if the applet was selected,
\* and not on every card.
SelectApplet(c, a) ==
  /\ selected' = [selected EXCEPT ![c] = a]
  /\ \E kept \in SUBSET {ref \in PinRefs : selected[c] = a /\ auth[c][ref] # None} :
       auth' = [auth EXCEPT ![c] =
                  [ref \in PinRefs |-> IF ref \in kept THEN auth[c][ref] ELSE None]]
  /\ UNCHANGED tries

\* VERIFY with the right PIN.
AcceptPin(p, c, a, ref) ==
  /\ auth' = [auth EXCEPT ![c][ref] = p]
  /\ tries' = [tries EXCEPT ![c][a] = MaxTries]
  /\ UNCHANGED selected

\* VERIFY with a wrong one: the reference is no longer verified, and the other
\* reference to the same PIN may go with it.
RejectPin(c, a, ref) ==
  /\ \E kept \in SUBSET {r \in PinRefs \ {ref} : auth[c][r] # None} :
       auth' = [auth EXCEPT ![c] =
                  [r \in PinRefs |-> IF r \in kept THEN auth[c][r] ELSE None]]
  /\ tries' = [tries EXCEPT ![c][a] = @ - 1]
  /\ UNCHANGED selected

PinListens(c, a) == selected[c] = a /\ tries[c][a] > 0

\* The reference a slot's signing command wants verified: PSO (slot SIG) the
\* first of PW1, INTERNAL AUTHENTICATE (AUT) the other one, and GENERAL
\* AUTHENTICATE the PIV PIN.
WantedRef(a, slot) ==
  IF a = "piv" THEN P2_PIV_PIN ELSE IF slot = SIG THEN P2_PW1_SIGN ELSE P2_PW1_OTHER

CanSign(c, a, slot) ==
  /\ selected[c] = a
  /\ KeyIn[c][a][slot] # None
  /\ auth[c][WantedRef(a, slot)] # None \/ KeyIn[c][a][slot] \in NoPinKeys

\* A PIN verified for one signature only is used up by it.
UsePin(c, ref) ==
  /\ \/ UNCHANGED auth
     \/ auth' = [auth EXCEPT ![c][ref] = None]
  /\ UNCHANGED <<selected, tries>>

-----------------------------------------------------------------------------
(* The world around the sessions.                                           *)

\* A card is plugged in; PC/SC may list its reader before the others.
Plug(c) ==
  /\ c \notin plugged
  /\ plugged' = plugged \cup {c}
  /\ first' \in IF first = None THEN {c} ELSE {first, c}
  /\ UNCHANGED <<exclusive, handle, from, cardVars>>

\* A card is pulled out, whatever was going on.
Unplug(c) ==
  /\ c \in plugged
  /\ plugged' = plugged \ {c}
  /\ first' \in IF first # c THEN {first}
                ELSE IF plugged = {c} THEN {None} ELSE plugged \ {c}
  /\ exclusive' = exclusive \ {c}
  /\ handle' = [q \in Procs |-> IF from[q] = c /\ handle[q] # "closed"
                                THEN "gone" ELSE handle[q]]
  /\ selected' = [selected EXCEPT ![c] = "none"]
  /\ auth' = [auth EXCEPT ![c] = NobodyVerified]
  /\ UNCHANGED <<from, tries>>

\* scdaemon opens a card in exclusive mode: only when no session has it.
ScdaemonOpens(c) ==
  /\ c \in plugged \ exclusive
  /\ \A q \in Procs : from[q] = c => handle[q] \in {"closed", "gone"}
  /\ exclusive' = exclusive \cup {c}
  /\ UNCHANGED <<plugged, first, handle, from, cardVars>>

\* It leaves the card as it used it: an applet selected, PINs verified.
ScdaemonCloses(c) ==
  /\ c \in exclusive
  /\ exclusive' = exclusive \ {c}
  /\ selected' = [selected EXCEPT ![c] = "openpgp"]
  /\ \E refs \in SUBSET {P2_PW1_SIGN, P2_PW1_OTHER} :
       auth' = [auth EXCEPT ![c] =
                  [ref \in PinRefs |-> IF ref \in refs THEN Scdaemon ELSE None]]
  /\ UNCHANGED <<plugged, first, handle, from, tries>>
=============================================================================
