---------------------------- MODULE CardSession ----------------------------
(***************************************************************************)
(* The library calls of yubiwallet that talk to a card: get_pubkey, sign,  *)
(* openpgp::detect_account and piv::list_accounts, as run by several       *)
(* processes at once (yubiwallet/src/{lib,openpgp,piv,pin,apdu}.rs).       *)
(*                                                                         *)
(* A call is a session: connect, SELECT, one or more commands, and the     *)
(* drop of the card handle.  Every APDU is one step, because the code      *)
(* holds no PC/SC transaction: between two APDUs of a session any step of  *)
(* another process, of scdaemon or of the user's hand may come.  The `?`   *)
(* of the code is the step to "drop": every error after connect leaves     *)
(* through the destructor of the handle.                                   *)
(***************************************************************************)
EXTENDS SmartCard, Sequences

CONSTANTS
  Msgs, MsgLen,   \* messages to sign and their lengths in bytes
  PinLen,         \* PinLen[pin]: its length in bytes
  Prompt,         \* the PIN argument of a caller that gives none
  PivSlots,       \* what piv_slot::all() lists
  Requests,       \* the calls the processes may make
  Faults          \* what may fail on its own: see below

Ops == {"get_pubkey", "sign", "detect_account", "list_accounts"}

\* detect_account takes an OpenPGP slot, list_accounts takes nothing.
RequestType ==
  {r \in [op : Ops, applet : Applets, slot : Slots, curve : Curves,
          msg : Msgs, pin : Pins \cup {Prompt}] :
     /\ r.op = "detect_account" => r.applet = "openpgp"
     /\ r.op = "list_accounts" => r.applet = "piv"}

\* "refuse": the card answers a command with an error and does nothing;
\* "lose": it obeys and the answer is lost;
\* "pull": cards are pulled out and plugged in while sessions run;
\* "kill": a process is killed.
FaultKinds == {"refuse", "lose", "pull", "kill"}

\* A public key as a call reports it, and the curve it reports it for.
Entries    == [key : Keys, as : Curves]
Signatures == [key : Keys, msg : Msgs]

ASSUME SessionAssumption ==
  /\ MsgLen \in [Msgs -> Nat] /\ PinLen \in [Pins -> Nat]
  /\ Prompt \notin Pins
  /\ PivSlots \in Seq({s \in Slots : IsValid(s)}) /\ PivSlots # << >>
  /\ Requests \subseteq RequestType
  /\ None \notin RequestType \cup Entries \cup Signatures
  /\ Faults \subseteq FaultKinds

Errors == {"no_readers", "pcsc", "card", "unsupported", "parse", "too_long",
           "not_found", "io"}
Outcomes == Errors \cup {"none", "running", "ok", "killed"}
Steps == {"idle", "connect", "select", "read", "scan", "pin", "verify", "sign", "drop"}

VARIABLES
  pc,      \* the step a process is at
  req,     \* its current or last call, or None
  pin,     \* the PIN of the call, Prompt until the user has given one
  out,     \* how the call ends
  found,   \* the public keys it has read, slot by slot for list_accounts
  sig,     \* the signature it returns, or None
  proved,  \* history: the <<card, reference>>s whose PIN the call has proved
  spent    \* history: spent[p][c], the tries the call has cost card c

busVars      == <<readerVars, handle, from>>
worldVars    == <<busVars, cardVars>>
progressVars == <<pc, out>>
callVars     == <<req, pin>>
resultVars   == <<found, sig>>
historyVars  == <<proved, spent>>
localVars    == <<progressVars, callVars, resultVars, historyVars>>
vars         == <<worldVars, localVars>>

TypeOK ==
  /\ CardTypeOK
  /\ pc \in [Procs -> Steps]
  /\ req \in [Procs -> RequestType \cup {None}]
  /\ pin \in [Procs -> Pins \cup {Prompt}]
  /\ out \in [Procs -> Outcomes]
  /\ found \in [Procs -> Seq(Entries \cup {None})]
  /\ sig \in [Procs -> Signatures \cup {None}]
  /\ proved \in [Procs -> SUBSET (Cards \X PinRefs)]
  /\ spent \in [Procs -> [Cards -> Nat]]

Init ==
  /\ CardInit
  /\ pc = [p \in Procs |-> "idle"]
  /\ req = [p \in Procs |-> None]
  /\ pin = [p \in Procs |-> Prompt]
  /\ out = [p \in Procs |-> "none"]
  /\ found = [p \in Procs |-> << >>]
  /\ sig = [p \in Procs |-> None]
  /\ proved = [p \in Procs |-> {}]
  /\ spent = [p \in Procs |-> [c \in Cards |-> 0]]

-----------------------------------------------------------------------------
(* Ways a step ends.                                                        *)

Goto(p, step) ==
  /\ pc' = [pc EXCEPT ![p] = step]
  /\ UNCHANGED out

\* The call's outcome is known; what is left is the drop of the handle.
Leave(p, outcome) ==
  /\ pc' = [pc EXCEPT ![p] = "drop"]
  /\ out' = [out EXCEPT ![p] = outcome]

\* Mutant: a broken handle is tried again and again.
NotServedRetried(p, served) ==
  \/ handle[p] # "open" /\ Goto(p, pc[p])
  \/ handle[p] = "open" /\ (~served \/ "refuse" \in Faults) /\ Leave(p, "card")

\* apdu::transmit gives an error and the card has done nothing.
NotServed(p, served) ==
  \/ handle[p] # "open" /\ Leave(p, "pcsc")
  \/ handle[p] = "open" /\ (~served \/ "refuse" \in Faults) /\ Leave(p, "card")

\* The card has obeyed, and transmit gives an error all the same.
AnswerLost(p) == "lose" \in Faults /\ Leave(p, "pcsc")

-----------------------------------------------------------------------------
(* What a request asks for.                                                 *)

\* ensure_ed25519 and piv_slot::is_valid, checked before a card is touched.
Supported(r) ==
  r.applet = "piv" /\ r.op # "list_accounts" => r.curve = "ed25519" /\ IsValid(r.slot)

\* Mutant: every OpenPGP signature verifies PW1 as for PSO.
RefOfSigOnly(r) == IF r.applet = "piv" THEN P2_PIV_PIN ELSE P2_PW1_SIGN

\* The PIN reference the code's VERIFY names: the match of openpgp::sign, and
\* P2_PIV_PIN.
RefOf(r) ==
  IF r.applet = "piv" THEN P2_PIV_PIN
  ELSE IF r.slot = SIG THEN P2_PW1_SIGN ELSE P2_PW1_OTHER

\* The key whose public half the card gives away for a slot: GET PUBLIC KEY
\* reads the key itself, GET DATA the certificate stored beside it.
Stored(c, applet, slot) ==
  IF applet = "piv" THEN CertIn[c][slot] ELSE KeyIn[c]["openpgp"][slot]

\* extract_ed25519_pubkey, extract_secp256k1_pubkey and
\* extract_ed25519_from_cert go by the shape of the key.
ReadsAs(key, curve) ==
  IF curve = "ed25519" THEN CurveOf[key] = "ed25519"
  ELSE CurveOf[key] \in {"secp256k1", "p256"}

Extract(key, r) ==
  LET as == IF r.op = "detect_account"
            THEN IF ReadsAs(key, "ed25519") THEN "ed25519" ELSE "secp256k1"
            ELSE r.curve
  IN IF ReadsAs(key, as) THEN [key |-> key, as |-> as] ELSE None

\* Length limits: build_apdu's one-byte Lc, pin_padded's eight bytes, and the
\* longest message whose GENERAL AUTHENTICATE template fits a two-byte Lc.
PinTooLong(r, x) == r.applet = "openpgp" /\ PinLen[x] > 255
PinNotPadded(r, x) == r.applet = "piv" /\ PinLen[x] > 8
MsgTooLong(r) == r.applet = "openpgp" /\ MsgLen[r.msg] > 255
MaxTemplate == 65525

\* OpenPGP's VERIFY with an empty PIN has no data field (build_apdu's Lc is then
\* an Le), so it only asks whether the reference is verified; a signing command
\* without data is malformed.
PinBlank(r, x) == r.applet = "openpgp" /\ PinLen[x] = 0
MsgEmpty(r) == r.applet = "openpgp" /\ MsgLen[r.msg] = 0

-----------------------------------------------------------------------------
(* The steps of a call.                                                     *)

CallFor(p, r) ==
  /\ pc[p] = "idle"
  /\ req' = [req EXCEPT ![p] = r]
  /\ pin' = [pin EXCEPT ![p] = r.pin]
  /\ pc' = [pc EXCEPT ![p] = IF Supported(r) THEN "connect" ELSE "idle"]
  /\ out' = [out EXCEPT ![p] = IF Supported(r) THEN "running" ELSE "unsupported"]
  /\ found' = [found EXCEPT ![p] = << >>]
  /\ sig' = [sig EXCEPT ![p] = None]
  /\ proved' = [proved EXCEPT ![p] = {}]
  /\ spent' = [spent EXCEPT ![p] = [c \in Cards |-> 0]]
  /\ from' = [from EXCEPT ![p] = None]
  /\ UNCHANGED <<readerVars, handle, cardVars>>

Call(p) == \E r \in Requests : CallFor(p, r)

\* apdu::connect: the first reader, in shared mode.
Connect(p) ==
  /\ pc[p] = "connect"
  /\ \/ CanConnect /\ OpenHandle(p) /\ Goto(p, "select")
     \/ /\ ~CanConnect
        /\ pc' = [pc EXCEPT ![p] = "idle"]
        /\ out' = [out EXCEPT ![p] = IF first = None THEN "no_readers" ELSE "pcsc"]
        /\ UNCHANGED worldVars
  /\ UNCHANGED <<callVars, resultVars, historyVars>>

\* Where a call goes once its applet is selected.  crt_tag, and the match of
\* openpgp::sign, refuse an OpenPGP slot other than SIG and AUT only here.
AfterSelect(p) ==
  LET r == req[p] IN
  IF r.op = "list_accounts" THEN Goto(p, "scan")
  ELSE IF r.applet = "openpgp" /\ r.slot \notin OpenPgpSlots THEN Leave(p, "unsupported")
  ELSE Goto(p, IF r.op = "sign" THEN "pin" ELSE "read")

Select(p) ==
  /\ pc[p] = "select"
  /\ \/ /\ handle[p] = "open"
        /\ SelectApplet(from[p], req[p].applet)
        /\ AfterSelect(p) \/ AnswerLost(p)
     \/ NotServed(p, TRUE) /\ UNCHANGED cardVars
  /\ UNCHANGED <<busVars, callVars, resultVars, historyVars>>

\* get_pubkey and detect_account: one command, and the extraction of the key.
Read(p) ==
  LET r == req[p]
      key == Stored(from[p], r.applet, r.slot)
      readable == selected[from[p]] = r.applet /\ key # None IN
  /\ pc[p] = "read"
  /\ \/ /\ handle[p] = "open" /\ readable /\ Extract(key, r) # None
        /\ found' = [found EXCEPT ![p] = <<Extract(key, r)>>]
        /\ Leave(p, "ok")
     \/ /\ handle[p] = "open" /\ readable /\ Extract(key, r) = None
        /\ Leave(p, "not_found")
        /\ UNCHANGED found
     \/ NotServed(p, readable) /\ UNCHANGED found
  /\ UNCHANGED <<worldVars, callVars, sig, historyVars>>

\* What fetch_ed25519_pubkey gives for the next slot of a listing, and `.ok()`
\* makes of it: the key of the slot's certificate, or None for any error.
Fetched(p) ==
  LET c == from[p]
      key == CertIn[c][PivSlots[Len(found[p]) + 1]]
      readable == /\ handle[p] = "open" /\ selected[c] = "piv"
                  /\ key # None /\ ReadsAs(key, "ed25519") IN
  IF ~readable THEN {None}
  ELSE {[key |-> key, as |-> "ed25519"]} \cup {e \in {None} : "refuse" \in Faults}

\* Mutant: the listing is put together back to front.
CollectReversed(p, entry) == found' = [found EXCEPT ![p] = <<entry>> \o @]

Collect(p, entry) == found' = [found EXCEPT ![p] = Append(@, entry)]

\* Mutant: a listing whose card went away goes on with the card that is there.
ScanReconnecting(p) ==
  /\ pc[p] = "scan"
  /\ IF handle[p] # "open" /\ CanConnect
     THEN OpenHandle(p) /\ Goto(p, "select") /\ UNCHANGED found
     ELSE /\ \E entry \in Fetched(p) : Collect(p, entry)
          /\ IF Len(found[p]) + 1 < Len(PivSlots) THEN Goto(p, "scan") ELSE Leave(p, "ok")
          /\ UNCHANGED worldVars
  /\ UNCHANGED <<callVars, sig, historyVars>>

\* list_accounts: one GET DATA per slot.
Scan(p) ==
  /\ pc[p] = "scan"
  /\ \E entry \in Fetched(p) : Collect(p, entry)
  /\ IF Len(found[p]) + 1 < Len(PivSlots) THEN Goto(p, "scan") ELSE Leave(p, "ok")
  /\ UNCHANGED <<worldVars, callVars, sig, historyVars>>

\* pin::resolve with a PIN from the caller, and pin_padded.
TakePin(p, x) ==
  /\ pin' = [pin EXCEPT ![p] = x]
  /\ IF PinNotPadded(req[p], x) THEN Leave(p, "parse") ELSE Goto(p, "verify")

ResolvePin(p) ==
  /\ pc[p] = "pin" /\ pin[p] # Prompt
  /\ TakePin(p, pin[p])
  /\ UNCHANGED <<worldVars, req, resultVars, historyVars>>

\* pin::prompt: the user answers, or standard input fails.
AnswerPrompt(p) ==
  /\ pc[p] = "pin" /\ pin[p] = Prompt
  /\ \/ \E x \in Pins : TakePin(p, x)
     \/ Leave(p, "io") /\ UNCHANGED pin
  /\ UNCHANGED <<worldVars, req, resultVars, historyVars>>

\* Mutants: the result of VERIFY is ignored; VERIFY is sent once more.
RejectionIgnored(p) == Goto(p, "sign")
RejectionRetried(p) == Goto(p, "verify")

\* What a card's verdict on the PIN means for the call: the `?` after VERIFY.
PinAccepted(p) == Goto(p, "sign")
PinRejected(p) == Leave(p, "card")

\* VERIFY.
SendVerify(p) ==
  LET r == req[p]
      c == from[p]
      ref == RefOf(r)
      blank == PinBlank(r, pin[p])
      right == pin[p] = PinOf[c][r.applet]
      serves == IF blank THEN selected[c] = r.applet /\ auth[c][ref] # None
                ELSE PinListens(c, r.applet) IN
  /\ pc[p] = "verify"
  /\ \/ PinTooLong(r, pin[p]) /\ Leave(p, "too_long") /\ UNCHANGED <<cardVars, historyVars>>
     \/ /\ ~PinTooLong(r, pin[p])
        /\ handle[p] = "open" /\ serves /\ ~blank /\ right
        /\ AcceptPin(p, c, r.applet, ref)
        /\ proved' = [proved EXCEPT ![p] = @ \cup {<<c, ref>>}]
        /\ PinAccepted(p) \/ AnswerLost(p)
        /\ UNCHANGED spent
     \/ /\ ~PinTooLong(r, pin[p])
        /\ handle[p] = "open" /\ serves /\ ~blank /\ ~right
        /\ RejectPin(c, r.applet, ref)
        /\ spent' = [spent EXCEPT ![p][c] = @ + 1]
        /\ PinRejected(p) \/ AnswerLost(p)
        /\ UNCHANGED proved
     \/ /\ ~PinTooLong(r, pin[p])
        /\ handle[p] = "open" /\ serves /\ blank
        /\ PinAccepted(p) \/ AnswerLost(p)
        /\ UNCHANGED <<cardVars, historyVars>>
     \/ /\ ~PinTooLong(r, pin[p])
        /\ NotServed(p, serves)
        /\ UNCHANGED <<cardVars, historyVars>>
  /\ UNCHANGED <<busVars, callVars, resultVars>>

\* PSO, INTERNAL AUTHENTICATE or GENERAL AUTHENTICATE.  OpenPGP signs with
\* whatever key the slot has, PIV only with an Ed25519 one: the command names
\* the algorithm.  The length of an OpenPGP message is looked at only now.  An
\* answer that does not fit OpenPGP's buffer (a long RSA signature), or that
\* PIV's read_tlv cannot read, is lost like one that never arrives.
SendSign(p) ==
  LET r == req[p]
      c == from[p]
      key == KeyIn[c][r.applet][r.slot]
      signs == /\ CanSign(c, r.applet, r.slot) /\ ~MsgEmpty(r)
               /\ r.applet = "piv" => /\ CurveOf[key] = "ed25519"
                                      /\ MsgLen[r.msg] <= MaxTemplate IN
  /\ pc[p] = "sign"
  /\ \/ MsgTooLong(r) /\ Leave(p, "too_long") /\ UNCHANGED <<cardVars, sig>>
     \/ /\ ~MsgTooLong(r) /\ handle[p] = "open" /\ signs
        /\ UsePin(c, WantedRef(r.applet, r.slot))
        /\ \/ /\ sig' = [sig EXCEPT ![p] = [key |-> key, msg |-> r.msg]]
              /\ Leave(p, "ok")
           \/ AnswerLost(p) /\ UNCHANGED sig
     \/ ~MsgTooLong(r) /\ NotServed(p, signs) /\ UNCHANGED <<cardVars, sig>>
  /\ UNCHANGED <<busVars, callVars, found, historyVars>>

\* Mutant: the handle is closed without a reset of the card.
DropLeavingCard(p) ==
  /\ pc[p] = "drop"
  /\ LeaveBy(p)
  /\ pc' = [pc EXCEPT ![p] = "idle"]
  /\ UNCHANGED <<out, callVars, resultVars, historyVars>>

\* The handle goes out of scope and the call returns.
Drop(p) ==
  /\ pc[p] = "drop"
  /\ CloseHandle(p)
  /\ pc' = [pc EXCEPT ![p] = "idle"]
  /\ UNCHANGED <<out, callVars, resultVars, historyVars>>

\* The process is killed (at the PIN prompt, by the browser, ...): no code of
\* the call runs any more and PC/SC cleans up.
Kill(p) ==
  /\ "kill" \in Faults
  /\ pc[p] # "idle"
  /\ ReapHandle(p)
  /\ pc' = [pc EXCEPT ![p] = "idle"]
  /\ out' = [out EXCEPT ![p] = "killed"]
  /\ found' = [found EXCEPT ![p] = << >>]
  /\ sig' = [sig EXCEPT ![p] = None]
  /\ UNCHANGED <<callVars, historyVars>>

\* A step of the call itself, which the operating system runs sooner or later.
Step(p) ==
  \/ Connect(p) \/ Select(p) \/ Read(p) \/ Scan(p)
  \/ ResolvePin(p) \/ SendVerify(p) \/ SendSign(p) \/ Drop(p)

World ==
  \E c \in Cards : \/ "pull" \in Faults /\ (Plug(c) \/ Unplug(c))
                   \/ ScdaemonOpens(c) \/ ScdaemonCloses(c)

Next ==
  \/ \E p \in Procs : Call(p) \/ Step(p) \/ AnswerPrompt(p) \/ Kill(p)
  \/ World /\ UNCHANGED localVars

SafetySpec == Init /\ [][Next]_vars

\* Nobody has to call, to answer a prompt or to plug a card in.
Spec == SafetySpec /\ \A p \in Procs : WF_vars(Step(p))

-----------------------------------------------------------------------------
(* Properties.                                                              *)

\* p's signature, if it has one, is made by the key of the slot asked for, on
\* p's card and over p's message, after p's own VERIFY for the right reference,
\* unless p was given an empty PIN for OpenPGP.
SignedProperly(p) ==
  sig[p] # None =>
    /\ req[p].op = "sign"
    /\ sig[p].msg = req[p].msg
    /\ sig[p].key = KeyIn[from[p]][req[p].applet][req[p].slot]
    /\ \/ <<from[p], WantedRef(req[p].applet, req[p].slot)>> \in proved[p]
       \/ PinBlank(req[p], pin[p])

\* A call that returns a signature has had it made by the key of the slot it
\* was asked for, on its own card and over its own message, and has itself
\* proved the PIN of that card to the reference the command needs: no
\* verification by another process, by scdaemon or on another card ever
\* stands in for its own (openpgp.rs sign, piv.rs sign).  The exception is an
\* OpenPGP call whose PIN is empty - a blank line, or the end of standard
\* input: it proves nothing, and signs with whatever is verified already.
SignedWithOwnPin == \A p \in Procs : SignedProperly(p)

\* A PIN that a call had verified stays verified on the card only while that
\* call has its handle and a step to come: whatever way calls end - errors,
\* a message found too long after VERIFY, a lost answer, a killed process, a
\* pulled card - none of them leaves the card open to whoever comes next.
NoPinLeftVerified ==
  \A c \in Cards, ref \in PinRefs : auth[c][ref] \in Procs =>
    LET p == auth[c][ref] IN
    /\ handle[p] = "open" /\ from[p] = c
    /\ <<c, ref>> \in proved[p]
    /\ pc[p] \in {"sign", "drop"}

\* p costs no card but its own a try, and that one only for a PIN that is
\* wrong there and of a length the code sends.
SpentAtMostOne(p) ==
  \A c \in Cards : spent[p][c] # 0 =>
    /\ spent[p][c] = 1 /\ c = from[p]
    /\ req[p].op = "sign" /\ sig[p] = None /\ out[p] # "ok"
    /\ pin[p] # PinOf[c][req[p].applet]
    /\ ~PinNotPadded(req[p], pin[p]) /\ ~PinTooLong(req[p], pin[p])
    /\ ~PinBlank(req[p], pin[p])

\* A call costs a card at most one try, and only the card it opened; only a
\* sign call whose PIN is wrong there does, it then returns an error, and a
\* PIN too long for the applet is never sent and an empty one for OpenPGP costs
\* nothing (openpgp.rs sign, piv.rs sign and pin_padded).
OneTryPerCall == \A p \in Procs : SpentAtMostOne(p)

\* The slot the i-th key of p's answer is reported for.
SlotAsked(p, i) ==
  IF req[p].op = "list_accounts" THEN PivSlots[i] ELSE req[p].slot

FoundProperly(p) ==
  \A i \in DOMAIN found[p] :
    /\ i <= IF req[p].op = "list_accounts" THEN Len(PivSlots) ELSE 1
    /\ found[p][i] # None =>
         /\ found[p][i].key = Stored(from[p], req[p].applet, SlotAsked(p, i))
         /\ ReadsAs(found[p][i].key, found[p][i].as)

\* Every public key a call reports is the one its own card has at the slot it
\* is reported for, in the order of piv_slot::all() when it lists them, and is
\* reported for a curve whose keys have its shape (piv.rs list_accounts,
\* openpgp.rs get_pubkey and detect_account).
FoundOnOwnCard == \A p \in Procs : FoundProperly(p)

\* A call's answer, once it has returned.
AnswerOf(p) ==
  IF pc[p] = "idle" /\ out[p] = "ok" THEN [keys |-> found[p], sig |-> sig[p]] ELSE None

\* The card's verdict on the PIN of p's call.
VerdictOf(p) ==
  IF proved[p] # {} THEN "right"
  ELSE IF \E c \in Cards : spent[p][c] # 0 THEN "wrong" ELSE "none"

Contract == INSTANCE WalletContract WITH
  busy    <- {p \in Procs : pc[p] # "idle"},
  asked   <- req,
  given   <- pin,
  card    <- from,
  verdict <- [p \in Procs |-> VerdictOf(p)],
  answer  <- [p \in Procs |-> AnswerOf(p)],
  tries   <- tries

\* The sessions implement the promise of WalletContract: for the caller, a
\* call is one card, one verdict on the PIN at most and one answer, whatever
\* the other processes, scdaemon and the user's hand do to the session.
KeepsContract == Contract!Spec

\* The call waits for the user to type a PIN.
AtPrompt(p) == pc[p] = "pin" /\ pin[p] = Prompt

\* Every call returns, unless it waits for the user: no card, no fault and no
\* other process can keep it going for ever, not even one that sits at its own
\* PIN prompt with the card open.
CallReturns == \A p \in Procs : pc[p] # "idle" ~> pc[p] = "idle" \/ AtPrompt(p)

\* What the comment on SlotInfo says of a listing that succeeds: it holds a key
\* for every slot with a readable Ed25519 certificate (piv.rs:46).
ListingReportsReadableSlots ==
  \A p \in Procs :
    pc[p] = "idle" /\ out[p] = "ok" /\ req[p].op = "list_accounts" =>
      \A i \in DOMAIN PivSlots :
        LET key == CertIn[from[p]][PivSlots[i]] IN
        key # None /\ ReadsAs(key, "ed25519") => found[p][i] # None
=============================================================================
