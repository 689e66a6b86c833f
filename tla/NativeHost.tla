----------------------------- MODULE NativeHost -----------------------------
(***************************************************************************)
(* The handlers of yubiwallet-host (yubiwallet-host/src/main.rs): what a   *)
(* request of the browser makes the host do with the card.  A handler is a *)
(* chain of library calls, each a session of CardSession with its own card *)
(* handle, so between two calls of one request the card may be used by     *)
(* others, pulled out, or swapped.  Frames and ids are in HostPort.        *)
(***************************************************************************)
EXTENDS CardSession

CONSTANTS
  Hosts,         \* the processes that are native hosts
  HostRequests,  \* what the browser may ask of them
  Unknown,       \* an account id that parse_account refuses
  EnvPin         \* $YUBIWALLET_PIN, or Prompt if it is not set or empty

Methods == {"get_info", "list_accounts", "get_status", "sign_secp256k1", "sign_ed25519"}
ListMethods == {"list_accounts", "get_status"}
SignMethods == {"sign_secp256k1", "sign_ed25519"}

\* None for a parameter that is missing, or is not hex.
Jobs == [method  : Methods \cup {"other"},
         account : {a \in Account : NamedSlot(a.applet, a.slot)} \cup {None, Unknown},
         msg     : Msgs \cup {None}]

\* The library calls of the handlers.
AnyMsg == CHOOSE m \in Msgs : TRUE
Detect(slot) == [op |-> "detect_account", applet |-> "openpgp", slot |-> slot,
                 curve |-> "ed25519", msg |-> AnyMsg, pin |-> Prompt]
ListPiv == [op |-> "list_accounts", applet |-> "piv", slot |-> AUTH,
            curve |-> "ed25519", msg |-> AnyMsg, pin |-> Prompt]
For(j, op, x) == [op |-> op, applet |-> j.account.applet, slot |-> j.account.slot,
                  curve |-> j.account.curve, msg |-> j.msg, pin |-> x]

\* main.rs sign_secp256k1, sign_ed25519: what is refused before any card is
\* touched, and with which error code, in the order of the checks.
Refusal(j) ==
  CASE j.method \notin Methods -> "UNSUPPORTED_METHOD"
    [] j.method \in Methods \ SignMethods -> "none"
    [] j.method \in SignMethods /\ j.account = None -> "BAD_REQUEST"
    [] j.method \in SignMethods /\ j.account = Unknown -> "UNKNOWN_ACCOUNT"
    [] OTHER -> IF j.msg = None \/ (j.method = "sign_secp256k1" /\ MsgLen[j.msg] # 32)
                THEN "BAD_REQUEST" ELSE "none"

Accepted == {j \in HostRequests : Refusal(j) = "none"}

ASSUME HostAssumption ==
  /\ Hosts \subseteq Procs
  /\ HostRequests \subseteq Jobs
  /\ Unknown \notin Account \cup {None} /\ None \notin Account \cup Msgs
  /\ EnvPin \in {x \in Pins : PinLen[x] # 0} \cup {Prompt}
  /\ {Detect(SIG), Detect(AUT), ListPiv} \subseteq Requests
  /\ \A j \in Accepted : j.method \in SignMethods =>
       /\ For(j, "get_pubkey", Prompt) \in Requests
       /\ \A x \in Pins : For(j, "sign", x) \in Requests

Stages == {"ready", "detect_sig", "detect_aut", "list_piv", "get_pubkey", "read_pin", "sign"}
Codes  == {"ok", "UNSUPPORTED_METHOD", "BAD_REQUEST", "UNKNOWN_ACCOUNT", "PIN_FAILED",
           "CARD_ERROR"}
Listed  == [applet : Applets, slot : Slots, curve : Curves, key : Keys]
Replies == [code : Codes, accounts : SUBSET Listed, sig : Signatures \cup {None}]

VARIABLES
  stage,     \* where a host's handler is: the library call it waits for
  job,       \* its current or last request, or None
  accounts,  \* the accounts list_accounts has collected
  fetched,   \* the public key sign_secp256k1 has read, or None
  reply,     \* the answer to the last request, or None
  opened,    \* history: the cards the calls of the request have opened
  lost       \* history: the PIN tries the request has cost

hostVars == <<stage, job, accounts, fetched, reply, opened, lost>>

HostTypeOK ==
  /\ stage \in [Hosts -> Stages]
  /\ job \in [Hosts -> HostRequests \cup {None}]
  /\ accounts \in [Hosts -> SUBSET Listed]
  /\ fetched \in [Hosts -> Keys \cup {None}]
  /\ reply \in [Hosts -> Replies \cup {None}]
  /\ opened \in [Hosts -> SUBSET Cards]
  /\ lost \in [Hosts -> Nat]

HostInit ==
  /\ Init
  /\ stage = [p \in Hosts |-> "ready"]
  /\ job = [p \in Hosts |-> None]
  /\ accounts = [p \in Hosts |-> {}]
  /\ fetched = [p \in Hosts |-> None]
  /\ reply = [p \in Hosts |-> None]
  /\ opened = [p \in Hosts |-> {}]
  /\ lost = [p \in Hosts |-> 0]

-----------------------------------------------------------------------------
(* How a step of a handler ends: with a reply, at a library call, or at the *)
(* PIN.                                                                     *)

Reply(code, accs, s) == [code |-> code, accounts |-> accs, sig |-> s]

Respond(p, r) ==
  /\ stage' = [stage EXCEPT ![p] = "ready"]
  /\ reply' = [reply EXCEPT ![p] = r]
  /\ UNCHANGED vars

Fail(p, code) == Respond(p, Reply(code, {}, None))

\* Mutant: the library's own error goes out as the code.
RawErr(p) == out[p]

\* main.rs card_err: one code for every error of the library.
CardErr(p) == "CARD_ERROR"

Begin(p, at, r) ==
  /\ stage' = [stage EXCEPT ![p] = at]
  /\ reply' = [reply EXCEPT ![p] = None]
  /\ CallFor(p, r)

AwaitPin(p) ==
  /\ stage' = [stage EXCEPT ![p] = "read_pin"]
  /\ reply' = [reply EXCEPT ![p] = None]
  /\ UNCHANGED vars

\* The library call of the stage has returned.
Returned(p, at) == stage[p] = at /\ pc[p] = "idle"

Opened(p) == opened' = [opened EXCEPT ![p] = @ \cup ({from[p]} \ {None})]

-----------------------------------------------------------------------------
(* The steps of the handlers.                                               *)

\* dispatch, up to the first library call.
Receive(p) ==
  /\ stage[p] = "ready"
  /\ \E j \in HostRequests :
       /\ job' = [job EXCEPT ![p] = j]
       /\ \/ Refusal(j) # "none" /\ Fail(p, Refusal(j))
          \/ j.method = "get_info" /\ Respond(p, Reply("ok", {}, None))
          \/ j.method \in ListMethods /\ Begin(p, "detect_sig", Detect(SIG))
          \/ /\ j \in Accepted /\ j.method = "sign_secp256k1"
             /\ Begin(p, "get_pubkey", For(j, "get_pubkey", Prompt))
          \/ j \in Accepted /\ j.method = "sign_ed25519" /\ AwaitPin(p)
  /\ accounts' = [accounts EXCEPT ![p] = {}]
  /\ fetched' = [fetched EXCEPT ![p] = None]
  /\ opened' = [opened EXCEPT ![p] = {}]
  /\ lost' = [lost EXCEPT ![p] = 0]

\* Mutant: the second detection is taken for the first slot again.
SlotAtSigOnly(at) == SIG

\* list_accounts: the slot whose detection a stage waits for.
SlotAt(at) == IF at = "detect_sig" THEN SIG ELSE AUT

\* The accounts of a detection, and of a listing, that has returned; an error
\* counts as no account.
Detected(p) ==
  IF out[p] # "ok" THEN {}
  ELSE {[applet |-> "openpgp", slot |-> SlotAt(stage[p]),
         curve |-> found[p][1].as, key |-> found[p][1].key]}
InPiv(p) ==
  IF out[p] # "ok" THEN {}
  ELSE {[applet |-> "piv", slot |-> PivSlots[i], curve |-> "ed25519", key |-> found[p][i].key] :
          i \in {k \in DOMAIN found[p] : found[p][k] # None}}

\* Mutant: an error of a detection is not taken for an answer.
DetectSucceeds(p) ==
  /\ stage[p] \in {"detect_sig", "detect_aut"} /\ pc[p] = "idle" /\ out[p] = "ok"
  /\ accounts' = [accounts EXCEPT ![p] = @ \cup Detected(p)]
  /\ IF stage[p] = "detect_sig" THEN Begin(p, "detect_aut", Detect(AUT))
     ELSE Begin(p, "list_piv", ListPiv)
  /\ Opened(p)
  /\ UNCHANGED <<job, fetched, lost>>

DetectReturns(p) ==
  /\ Returned(p, "detect_sig") \/ Returned(p, "detect_aut")
  /\ accounts' = [accounts EXCEPT ![p] = @ \cup Detected(p)]
  /\ IF stage[p] = "detect_sig" THEN Begin(p, "detect_aut", Detect(AUT))
     ELSE Begin(p, "list_piv", ListPiv)
  /\ Opened(p)
  /\ UNCHANGED <<job, fetched, lost>>

ListReturns(p) ==
  /\ Returned(p, "list_piv")
  /\ accounts' = [accounts EXCEPT ![p] = @ \cup InPiv(p)]
  /\ Respond(p, Reply("ok", accounts[p] \cup InPiv(p), None))
  /\ Opened(p)
  /\ UNCHANGED <<job, fetched, lost>>

\* Mutant: the handler signs in the session that get_pubkey has opened.
PubkeyReturnsInSession(p) ==
  /\ stage[p] = "get_pubkey" /\ pc[p] = "drop" /\ out[p] = "ok"
  /\ fetched' = [fetched EXCEPT ![p] = found[p][1].key]
  /\ stage' = [stage EXCEPT ![p] = "sign"]
  /\ req' = [req EXCEPT ![p] = For(job[p], "sign", EnvPin)]
  /\ pin' = [pin EXCEPT ![p] = EnvPin]
  /\ pc' = [pc EXCEPT ![p] = "pin"]
  /\ UNCHANGED <<worldVars, out, resultVars, historyVars, reply, job, accounts, opened, lost>>

\* sign_secp256k1, after get_pubkey.
PubkeyReturns(p) ==
  /\ Returned(p, "get_pubkey")
  /\ \/ /\ out[p] = "ok"
        /\ fetched' = [fetched EXCEPT ![p] = found[p][1].key]
        /\ AwaitPin(p)
     \/ out[p] # "ok" /\ Fail(p, CardErr(p)) /\ UNCHANGED fetched
  /\ Opened(p)
  /\ UNCHANGED <<job, accounts, lost>>

\* read_pin, and the call of sign_with_pin with what it gives.
SignWith(p, x) ==
  /\ Begin(p, "sign", For(job[p], "sign", x))
  /\ UNCHANGED <<job, accounts, fetched, opened, lost>>

ReadPin(p) ==
  /\ stage[p] = "read_pin"
  /\ \/ \E x \in IF EnvPin = Prompt THEN Pins ELSE {EnvPin} : SignWith(p, x)
     \/ /\ EnvPin = Prompt
        /\ Fail(p, "PIN_FAILED")
        /\ UNCHANGED <<job, accounts, fetched, opened, lost>>

\* Mutant: the signature is taken without a look at whose it is.
RecoversAny(key, s) == TRUE

\* eth::ethereum_signature finds a recovery id: the key is a point of
\* secp256k1, and the (64-byte) signature is one of that key.
Recovers(key, s) == CurveOf[key] = "secp256k1" /\ s.key = key

\* What the handler makes of the signature.
Usable(p) ==
  /\ out[p] = "ok"
  /\ job[p].method = "sign_secp256k1" => Recovers(fetched[p], sig[p])

LostNow(p) == IF from[p] = None THEN 0 ELSE spent[p][from[p]]

\* Mutant: when the card refuses, the handler signs once more.
SignRetried(p) ==
  /\ Returned(p, "sign")
  /\ IF out[p] = "card" THEN Begin(p, "sign", req[p])
     ELSE Respond(p, Reply(IF Usable(p) THEN "ok" ELSE "CARD_ERROR", {}, sig[p]))
  /\ lost' = [lost EXCEPT ![p] = @ + LostNow(p)]
  /\ Opened(p)
  /\ UNCHANGED <<job, accounts, fetched>>

\* Mutant: a signature that cannot be used is not answered.
SignAnswered(p) ==
  /\ Returned(p, "sign") /\ Usable(p)
  /\ Respond(p, Reply("ok", {}, sig[p]))
  /\ lost' = [lost EXCEPT ![p] = @ + LostNow(p)]
  /\ Opened(p)
  /\ UNCHANGED <<job, accounts, fetched>>

\* sign_with_pin has returned: the last step of both signing handlers.
SignReturns(p) ==
  /\ Returned(p, "sign")
  /\ IF Usable(p) THEN Respond(p, Reply("ok", {}, sig[p])) ELSE Fail(p, CardErr(p))
  /\ lost' = [lost EXCEPT ![p] = @ + LostNow(p)]
  /\ Opened(p)
  /\ UNCHANGED <<job, accounts, fetched>>

Renewed(p) ==
  /\ stage' = [stage EXCEPT ![p] = "ready"]
  /\ reply' = [reply EXCEPT ![p] = None]
  /\ job' = [job EXCEPT ![p] = None]
  /\ accounts' = [accounts EXCEPT ![p] = {}]
  /\ fetched' = [fetched EXCEPT ![p] = None]
  /\ UNCHANGED <<opened, lost>>

\* The host is killed in a handler; the next connection starts a new one.
HostDies(p) ==
  /\ "kill" \in Faults /\ stage[p] # "ready"
  /\ IF pc[p] = "idle" THEN UNCHANGED vars ELSE Kill(p)
  /\ Renewed(p)

HostStep(p) == DetectReturns(p) \/ ListReturns(p) \/ PubkeyReturns(p) \/ SignReturns(p)

\* What a handler does of its own: it waits for the user at the tty only.
RunsOn(p) == HostStep(p) \/ (EnvPin # Prompt /\ ReadPin(p))

LibraryStep ==
  \/ \E p \in Procs : Step(p)
  \/ \E p \in Procs \ Hosts : Call(p) \/ AnswerPrompt(p) \/ Kill(p)
  \/ World /\ UNCHANGED localVars

HostNext ==
  \/ \E p \in Hosts : Receive(p) \/ HostStep(p) \/ ReadPin(p) \/ HostDies(p)
  \/ LibraryStep /\ UNCHANGED hostVars

HostSafetySpec == HostInit /\ [][HostNext]_<<vars, hostVars>>

\* The browser need not ask and the user need not type a PIN; the code runs on.
HostSpec ==
  /\ HostSafetySpec
  /\ \A p \in Hosts : WF_<<vars, hostVars>>(RunsOn(p))
  /\ \A p \in Procs : WF_<<vars, hostVars>>(Step(p) /\ UNCHANGED hostVars)

-----------------------------------------------------------------------------
(* Properties.                                                              *)

\* A handler is a client of the library and nothing more: all it does to the
\* card and to its session are steps of the library's calls, one at a time.
UsesLibrary == [][Next]_vars

\* A sign_secp256k1 request that is answered with a signature has one by the
\* very key the handler had read the address from, a secp256k1 key, over the
\* prehash asked for - though the card may have been swapped between the two
\* sessions - and the key is the account's on a card the handler opened
\* (main.rs sign_secp256k1, eth.rs ethereum_signature).
SignsWithFetchedKey ==
  \A p \in Hosts :
    (/\ stage[p] = "ready" /\ reply[p] # None /\ reply[p].code = "ok"
     /\ job[p].method = "sign_secp256k1")
    => /\ reply[p].sig.key = fetched[p] /\ CurveOf[fetched[p]] = "secp256k1"
       /\ reply[p].sig.msg = job[p].msg
       /\ \E c \in opened[p] :
            fetched[p] = KeyIn[c][job[p].account.applet][job[p].account.slot]

\* A request costs one PIN try at most, over all the sessions it opens, and
\* none if it is answered with a signature or a list: a host whose PIN comes
\* from the environment blocks no card by itself (main.rs sign_secp256k1,
\* sign_ed25519, read_pin).
OneTryPerRequest ==
  \A p \in Hosts :
    /\ lost[p] <= 1
    /\ lost[p] # 0 /\ reply[p] # None => reply[p].code = "CARD_ERROR"

\* Every account in an answer is the one of its own slot on a card that was
\* opened for this answer, however cards came and went, and every slot is
\* listed once (main.rs list_accounts).
ListsWhatIsThere ==
  \A p \in Hosts : reply[p] # None =>
    /\ \A a \in reply[p].accounts : \E c \in opened[p] :
         a.key = Stored(c, a.applet, a.slot) /\ ReadsAs(a.key, a.curve)
    /\ \A a, b \in reply[p].accounts : a.applet = b.applet /\ a.slot = b.slot => a = b

\* Every request is answered unless the user is asked for a PIN at the tty
\* or the host is killed: no error of the card keeps a handler from answering.
RequestAnswered ==
  \A p \in Hosts :
    stage[p] # "ready" ~> stage[p] = "ready" \/ (stage[p] = "read_pin" /\ EnvPin = Prompt)

\* What the wire types say of an Account: discovered on the card, a single one
\* (types.ts:10, example.ts:17).
ListsOneCard ==
  \A p \in Hosts : reply[p] # None =>
    \E c \in Cards : \A a \in reply[p].accounts : a.key = Stored(c, a.applet, a.slot)

\* What the wire types say of a sign_ed25519 result: an Ed25519 signature
\* (types.ts:48).
Ed25519Result ==
  \A p \in Hosts :
    (/\ stage[p] = "ready" /\ reply[p] # None /\ reply[p].code = "ok"
     /\ job[p].method = "sign_ed25519")
    => CurveOf[reply[p].sig.key] = "ed25519"
=============================================================================
