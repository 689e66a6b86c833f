-------------------------- MODULE NativeHost_proofs --------------------------
(***************************************************************************)
(* Theorems of NativeHost.  A host's handlers use the library as any other *)
(* process does, so what CardSession_proofs shows of every call holds of   *)
(* the host's calls too, for any requests of the browser.                  *)
(***************************************************************************)
EXTENDS NativeHost, CardSession_proofs

USE HostAssumption

\* A handler that is at a signing stage has a request it has accepted.
SigningShape ==
  \A p \in Hosts : stage[p] \in {"get_pubkey", "read_pin", "sign"} =>
    job[p] \in Accepted /\ job[p].method \in SignMethods

HostShape ==
  /\ stage \in [Hosts -> Stages]
  /\ job \in [Hosts -> HostRequests \cup {None}]
  /\ SigningShape

\* A host starts ready, with no request.
LEMMA InitHostShape == HostInit => HostShape
  BY DEF HostInit, HostShape, SigningShape, Stages

\* The steps that keep the request and move to a stage of the same handler.
LEMMA StageKept ==
  ASSUME HostShape, NEW p \in Hosts, NEW at \in Stages,
         stage' = [stage EXCEPT ![p] = at], job' = job,
         at \in {"get_pubkey", "read_pin", "sign"} =>
           stage[p] \in {"get_pubkey", "read_pin", "sign"}
  PROVE  HostShape'
  BY DEF HostShape, SigningShape

\* A request gets to a signing stage only if it was accepted.
LEMMA ReceiveShape ==
  ASSUME HostShape, NEW p \in Hosts, Receive(p)
  PROVE  HostShape'
<1>1. PICK j \in HostRequests :
        /\ job' = [job EXCEPT ![p] = j]
        /\ \/ Refusal(j) # "none" /\ Fail(p, Refusal(j))
           \/ j.method = "get_info" /\ Respond(p, Reply("ok", {}, None))
           \/ j.method \in ListMethods /\ Begin(p, "detect_sig", Detect(SIG))
           \/ /\ j \in Accepted /\ j.method = "sign_secp256k1"
              /\ Begin(p, "get_pubkey", For(j, "get_pubkey", Prompt))
           \/ j \in Accepted /\ j.method = "sign_ed25519" /\ AwaitPin(p)
  BY DEF Receive
<1>2. CASE stage' = [stage EXCEPT ![p] = "ready"] \/ stage' = [stage EXCEPT ![p] = "detect_sig"]
  BY <1>1, <1>2 DEF HostShape, SigningShape, Stages
<1>3. CASE /\ j \in Accepted /\ j.method \in SignMethods
           /\ \E at \in {"get_pubkey", "read_pin"} : stage' = [stage EXCEPT ![p] = at]
  BY <1>1, <1>3 DEF HostShape, SigningShape, Stages
<1> QED BY <1>1, <1>2, <1>3 DEF Fail, Respond, Begin, AwaitPin, SignMethods

\* The steps of the handlers keep the shape.
LEMMA HandlerShape ==
  ASSUME HostShape, NEW p \in Hosts, HostStep(p) \/ ReadPin(p)
  PROVE  HostShape'
<1>1. CASE DetectReturns(p) \/ ListReturns(p)
  <2>1. job' = job /\ \E at \in {"detect_aut", "list_piv", "ready"} :
                        stage' = [stage EXCEPT ![p] = at]
    BY <1>1 DEF DetectReturns, ListReturns, Begin, Respond
  <2> QED BY <2>1, StageKept DEF Stages
<1>2. CASE PubkeyReturns(p) \/ SignReturns(p)
  <2>1. /\ job' = job /\ stage[p] \in {"get_pubkey", "sign"}
        /\ \E at \in {"read_pin", "ready"} : stage' = [stage EXCEPT ![p] = at]
    BY <1>2 DEF PubkeyReturns, SignReturns, Returned, AwaitPin, Respond, Fail
  <2> QED BY <2>1, StageKept DEF Stages
<1>3. CASE ReadPin(p)
  <2>1. /\ job' = job /\ stage[p] = "read_pin"
        /\ \E at \in {"sign", "ready"} : stage' = [stage EXCEPT ![p] = at]
    BY <1>3 DEF ReadPin, SignWith, Begin, Fail, Respond
  <2> QED BY <2>1, StageKept DEF Stages
<1> QED BY <1>1, <1>2, <1>3 DEF HostStep

\* A host that dies is replaced by a fresh one.
LEMMA HostDiesShape ==
  ASSUME HostShape, NEW p \in Hosts, HostDies(p)
  PROVE  HostShape'
<1>1. /\ stage' = [stage EXCEPT ![p] = "ready"]
      /\ job' = [job EXCEPT ![p] = None]
  BY DEF HostDies, Renewed
<1> QED BY <1>1 DEF HostShape, SigningShape, Stages

\* Every step keeps the shape.
LEMMA NextHostShape ==
  ASSUME HostShape, [HostNext]_<<vars, hostVars>>
  PROVE  HostShape'
<1>1. CASE UNCHANGED hostVars
  BY <1>1 DEF hostVars, HostShape, SigningShape
<1>2. CASE \E p \in Hosts : Receive(p) \/ HostStep(p) \/ ReadPin(p) \/ HostDies(p)
  BY <1>2, ReceiveShape, HandlerShape, HostDiesShape
<1> QED BY <1>1, <1>2 DEF HostNext

-----------------------------------------------------------------------------
(* Every step of a host is a step of the library or leaves it alone.        *)

\* Where a handler begins a call whose request is one of the library's, that
\* is a step of the library.
LEMMA BeginIsCall ==
  ASSUME NEW p \in Hosts, NEW at, NEW r \in Requests, Begin(p, at, r)
  PROVE  Next
<1>1. Call(p)
  BY DEF Begin, Call
<1> QED BY <1>1 DEF Next

\* Answering touches no card and no session.
LEMMA RespondIsStutter ==
  ASSUME NEW p, (\E r : Respond(p, r)) \/ (\E code : Fail(p, code)) \/ AwaitPin(p)
  PROVE  UNCHANGED vars
  BY DEF Respond, Fail, AwaitPin

\* The sign call of an accepted request is one of the library's.
LEMMA SignRequested ==
  ASSUME HostShape, NEW p \in Hosts, NEW x \in Pins, SignWith(p, x), stage[p] = "read_pin"
  PROVE  Next
<1>1. For(job[p], "sign", x) \in Requests
  BY DEF HostShape, SigningShape
<1> QED BY <1>1, BeginIsCall DEF SignWith

\* Every step of a handler is a step of the library or a stutter.
LEMMA HostStepUsesLibrary ==
  ASSUME HostShape, NEW p \in Hosts, HostStep(p) \/ ReadPin(p)
  PROVE  [Next]_vars
<1>1. CASE DetectReturns(p)
  <2>1. Begin(p, "detect_aut", Detect(AUT)) \/ Begin(p, "list_piv", ListPiv)
    BY <1>1 DEF DetectReturns
  <2> QED BY <2>1, BeginIsCall
<1>2. CASE ListReturns(p)
  BY <1>2, RespondIsStutter DEF ListReturns
<1>3. CASE PubkeyReturns(p)
  BY <1>3, RespondIsStutter DEF PubkeyReturns
<1>4. CASE SignReturns(p)
  BY <1>4, RespondIsStutter DEF SignReturns
<1>5. CASE ReadPin(p)
  <2>1. CASE Fail(p, "PIN_FAILED")
    BY <2>1, RespondIsStutter
  <2>2. ASSUME NEW x \in IF EnvPin = Prompt THEN Pins ELSE {EnvPin}, SignWith(p, x)
        PROVE  Next
    BY <1>5, <2>2, SignRequested, HostAssumption DEF ReadPin
  <2> QED BY <1>5, <2>1, <2>2 DEF ReadPin
<1> QED BY <1>1, <1>2, <1>3, <1>4, <1>5 DEF HostStep

\* Every step of the system is.
LEMMA NextUsesLibrary ==
  ASSUME HostShape, [HostNext]_<<vars, hostVars>>
  PROVE  [Next]_vars
<1>1. CASE UNCHANGED vars
  BY <1>1
<1>2. ASSUME NEW p \in Hosts, Receive(p) PROVE [Next]_vars
  <2>1. PICK j \in HostRequests :
          \/ Fail(p, Refusal(j)) \/ Respond(p, Reply("ok", {}, None)) \/ AwaitPin(p)
          \/ Begin(p, "detect_sig", Detect(SIG))
          \/ /\ j \in Accepted /\ j.method = "sign_secp256k1"
             /\ Begin(p, "get_pubkey", For(j, "get_pubkey", Prompt))
    BY <1>2 DEF Receive
  <2>2. j \in Accepted /\ j.method = "sign_secp256k1" =>
          For(j, "get_pubkey", Prompt) \in Requests
    BY DEF SignMethods
  <2> QED BY <2>1, <2>2, BeginIsCall, RespondIsStutter
<1>3. ASSUME NEW p \in Hosts, HostStep(p) \/ ReadPin(p) PROVE [Next]_vars
  BY <1>3, HostStepUsesLibrary
<1>4. ASSUME NEW p \in Hosts, HostDies(p) PROVE [Next]_vars
  BY <1>4 DEF HostDies, Next
<1>5. CASE LibraryStep
  BY <1>5 DEF LibraryStep, Next
<1> QED BY <1>1, <1>2, <1>3, <1>4, <1>5 DEF HostNext

\* The system of hosts implements the library's safety specification.
THEOREM HostRefinesLibrary == HostSafetySpec => SafetySpec
<1>1. HostInit => Init /\ HostShape
  BY InitHostShape DEF HostInit
<1>2. HostShape /\ [HostNext]_<<vars, hostVars>> => HostShape' /\ [Next]_vars
  BY NextHostShape, NextUsesLibrary
<1> QED BY <1>1, <1>2, PTL DEF HostSafetySpec, SafetySpec

\* All a handler does to a card is done by the library's calls, one at a time.
THEOREM UsesLibraryTheorem == HostSpec => UsesLibrary
  BY HostRefinesLibrary, PTL DEF HostSpec, SafetySpec, UsesLibrary

\* So the host's sessions, too, sign with their own PIN only, leave no PIN
\* verified, cost a try at most each, and read keys from their own card.
THEOREM HostSessionsSafe ==
  HostSpec => [](SignedWithOwnPin /\ NoPinLeftVerified /\ OneTryPerCall /\ FoundOnOwnCard)
<1>1. Inv => SignedWithOwnPin /\ OneTryPerCall /\ FoundOnOwnCard
  BY DEF Inv, CallInv, SignedWithOwnPin, OneTryPerCall, FoundOnOwnCard
<1> QED BY <1>1, HostRefinesLibrary, Invariance, OwnersInvariance, PTL DEF HostSpec
-----------------------------------------------------------------------------
(* What a library call that has returned gives its handler.                 *)

\* A detection that succeeds has read the key in its slot of its own card.
LEMMA DetectGives ==
  ASSUME CallsInv, NEW p \in Procs, out[p] = "ok", NEW slot, req[p] = Detect(slot)
  PROVE  LET e == found[p][1] IN
         /\ from[p] \in Cards /\ e \in Entries
         /\ e.key = Stored(from[p], "openpgp", slot) /\ ReadsAs(e.key, e.as)
  BY KeyAnswered DEF Detect

\* A listing that succeeds has read the certificates of its own card.
LEMMA ListGives ==
  ASSUME CallsInv, NEW p \in Procs, out[p] = "ok", req[p] = ListPiv
  PROVE  /\ from[p] \in Cards
         /\ \A i \in DOMAIN found[p] :
              /\ i \in DOMAIN PivSlots
              /\ found[p][i] # None =>
                   /\ found[p][i] \in Entries
                   /\ found[p][i].key = Stored(from[p], "piv", PivSlots[i])
                   /\ ReadsAs(found[p][i].key, "ed25519")
  BY ListAnswered DEF ListPiv

\* get_pubkey has read the key of the account on its own card; and it refuses
\* the applet's other curves.
LEMMA PubkeyGives ==
  ASSUME CallsInv, NEW p \in Procs, out[p] = "ok", NEW j,
         req[p] = For(j, "get_pubkey", Prompt)
  PROVE  LET key == found[p][1].key
             a == j.account IN
         /\ from[p] \in Cards /\ key \in Keys
         /\ key = Stored(from[p], a.applet, a.slot) /\ ReadsAs(key, a.curve)
         /\ a.applet = "piv" => a.curve = "ed25519"
  BY KeyAnswered DEF For, Supported, Entries

\* sign_with_pin gives a signature over the message of the request.
LEMMA SignGives ==
  ASSUME CallsInv, NEW p \in Procs, out[p] = "ok", NEW j, NEW x, req[p] = For(j, "sign", x)
  PROVE  from[p] \in Cards /\ sig[p] \in Signatures /\ sig[p].msg = j.msg
  BY SignatureAnswered DEF For

\* A call costs one try at most, and none if it succeeds.
LEMMA TriesLost ==
  ASSUME CallsInv, NEW p \in Procs
  PROVE  LostNow(p) \in {0, 1} /\ (LostNow(p) # 0 => out[p] # "ok")
<1>1. SpentAtMostOne(p) /\ from[p] \in Cards \cup {None}
  BY DEF CallsInv, Inv, CallInv, TypeInv, TypeOK, CardTypeOK
<1> QED BY <1>1 DEF SpentAtMostOne, LostNow

-----------------------------------------------------------------------------
(* The inductive invariant of a handler: the library call that runs, or has *)
(* just returned, is the one its stage waits for, with its job's            *)
(* parameters; and what it holds from earlier calls is from cards it has    *)
(* opened.                                                                  *)

StageFlow(p) ==
  /\ stage[p] \in {"ready", "read_pin"} => pc[p] = "idle"
  /\ stage[p] = "detect_sig" => req[p] = Detect(SIG)
  /\ stage[p] = "detect_aut" => req[p] = Detect(AUT)
  /\ stage[p] = "list_piv" => req[p] = ListPiv
  /\ stage[p] = "get_pubkey" =>
       req[p] = For(job[p], "get_pubkey", Prompt) /\ job[p].method = "sign_secp256k1"
  /\ stage[p] = "sign" => \E x \in Pins : req[p] = For(job[p], "sign", x)
  /\ stage[p] \in {"detect_sig", "detect_aut", "list_piv"} => job[p].method \in ListMethods
  /\ stage[p] # "ready" => reply[p] = None /\ lost[p] = 0

Genuine(a, cards) ==
  \E c \in cards : a.key = Stored(c, a.applet, a.slot) /\ ReadsAs(a.key, a.curve)
OnePerSlot(accs) ==
  \A a, b \in accs : a.applet = b.applet /\ a.slot = b.slot => a = b

ListFlow(p) ==
  /\ stage[p] = "detect_sig" => accounts[p] = {}
  /\ stage[p] = "detect_aut" => \A a \in accounts[p] : a.applet = "openpgp" /\ a.slot = SIG
  /\ stage[p] = "list_piv" => \A a \in accounts[p] : a.applet = "openpgp"
  /\ \A a \in accounts[p] : Genuine(a, opened[p])
  /\ OnePerSlot(accounts[p])

\* The address that sign_secp256k1 answers for.
KeyFlow(p) ==
  stage[p] \in {"read_pin", "sign"} /\ job[p].method = "sign_secp256k1" =>
    LET a == job[p].account IN
    /\ a.applet = "piv" => a.curve = "ed25519"
    /\ ReadsAs(fetched[p], a.curve)
    /\ \E c \in opened[p] : fetched[p] = Stored(c, a.applet, a.slot)

\* The properties, of one host.
SignsFetched(p) ==
  (/\ stage[p] = "ready" /\ reply[p] # None /\ reply[p].code = "ok"
   /\ job[p].method = "sign_secp256k1")
  => /\ reply[p].sig.key = fetched[p] /\ CurveOf[fetched[p]] = "secp256k1"
     /\ reply[p].sig.msg = job[p].msg
     /\ \E c \in opened[p] :
          fetched[p] = KeyIn[c][job[p].account.applet][job[p].account.slot]
TriesOnce(p) ==
  /\ lost[p] <= 1
  /\ lost[p] # 0 /\ reply[p] # None => reply[p].code = "CARD_ERROR"
ListsGenuine(p) ==
  reply[p] # None =>
    (\A a \in reply[p].accounts : Genuine(a, opened[p])) /\ OnePerSlot(reply[p].accounts)

HandlerInv(p) ==
  /\ StageFlow(p) /\ ListFlow(p) /\ KeyFlow(p)
  /\ SignsFetched(p) /\ TriesOnce(p) /\ ListsGenuine(p)

HostInv == HostTypeOK /\ HostShape /\ \A p \in Hosts : HandlerInv(p)

HostLocal(p) ==
  <<stage[p], job[p], accounts[p], fetched[p], reply[p], opened[p], lost[p]>>

\* It depends on the host's own variables, on the request of its call, and on
\* no call running where none has to.
LEMMA HandlerKept ==
  ASSUME NEW p, HandlerInv(p), HostLocal(p)' = HostLocal(p), req'[p] = req[p],
         pc[p] = "idle" => pc'[p] = "idle"
  PROVE  HandlerInv(p)'
<1>1. /\ stage'[p] = stage[p] /\ job'[p] = job[p] /\ accounts'[p] = accounts[p]
      /\ fetched'[p] = fetched[p] /\ reply'[p] = reply[p] /\ opened'[p] = opened[p]
      /\ lost'[p] = lost[p]
  BY DEF HostLocal
<1>2. StageFlow(p)'
  BY <1>1 DEF HandlerInv, StageFlow
<1>3. ListFlow(p)' /\ KeyFlow(p)'
  BY <1>1 DEF HandlerInv, ListFlow, KeyFlow
<1>4. SignsFetched(p)' /\ TriesOnce(p)' /\ ListsGenuine(p)'
  BY <1>1 DEF HandlerInv, SignsFetched, TriesOnce, ListsGenuine
<1> QED BY <1>2, <1>3, <1>4 DEF HandlerInv

\* A host that has begun a call waits for it at the stage it has moved to, and
\* has not answered.
LEMMA BegunFlow ==
  ASSUME HostTypeOK, TypeInv, NEW p \in Hosts, NEW at \in Stages, NEW r \in Requests,
         Begin(p, at, r), (lost[p] = 0 /\ UNCHANGED lost) \/ lost'[p] = 0,
         at # "ready" /\ at # "read_pin"
  PROVE  /\ stage'[p] = at /\ reply'[p] = None /\ req'[p] = r /\ lost'[p] = 0
         /\ SignsFetched(p)' /\ TriesOnce(p)' /\ ListsGenuine(p)'
<1>1. stage'[p] = at /\ reply'[p] = None /\ req'[p] = r /\ lost'[p] = 0
  BY DEF Begin, CallFor, HostTypeOK, TypeInv, TypeOK
<1> QED BY <1>1 DEF SignsFetched, TriesOnce, ListsGenuine

-----------------------------------------------------------------------------
(* Every step of the system keeps it: the types first.                      *)

\* An answer, a call and a wait at the PIN move the stage and the reply of
\* their host only.
LEMMA StageReplyType ==
  ASSUME HostTypeOK, NEW p \in Hosts,
         \/ \E r \in Replies : Respond(p, r)
         \/ \E at \in Stages : \E r : Begin(p, at, r)
         \/ AwaitPin(p)
  PROVE  stage' \in [Hosts -> Stages] /\ reply' \in [Hosts -> Replies \cup {None}]
  BY DEF HostTypeOK, Respond, Begin, AwaitPin, Stages

\* A failure is an answer.
LEMMA FailReplies ==
  ASSUME NEW code \in Codes PROVE Reply(code, {}, None) \in Replies
  BY DEF Reply, Replies

\* No refusal is a success.
LEMMA RefusalCode == \A j : Refusal(j) \in Codes \cup {"none"} /\ Refusal(j) # "ok"
  BY DEF Refusal, Codes, Methods, SignMethods

\* A request starts a handler with nothing collected.
LEMMA ReceiveTypeOK ==
  ASSUME HostTypeOK, NEW p \in Hosts, Receive(p)
  PROVE  HostTypeOK'
<1>1. PICK j \in HostRequests :
        /\ job' = [job EXCEPT ![p] = j]
        /\ \/ Refusal(j) # "none" /\ Fail(p, Refusal(j))
           \/ Respond(p, Reply("ok", {}, None))
           \/ \E at \in {"detect_sig", "get_pubkey"} : \E r : Begin(p, at, r)
           \/ AwaitPin(p)
  BY DEF Receive
<1>2. stage' \in [Hosts -> Stages] /\ reply' \in [Hosts -> Replies \cup {None}]
  BY <1>1, StageReplyType, FailReplies, RefusalCode DEF Fail, Codes, Stages
<1> QED BY <1>1, <1>2 DEF Receive, HostTypeOK

\* What the calls of list_accounts give are accounts.
LEMMA ListingTypes ==
  ASSUME CallsInv, HostTypeOK, NEW p \in Hosts, StageFlow(p)
  PROVE  /\ Returned(p, "detect_sig") \/ Returned(p, "detect_aut") => Detected(p) \subseteq Listed
         /\ Returned(p, "list_piv") => InPiv(p) \subseteq Listed
<1>1. CASE Returned(p, "detect_sig") \/ Returned(p, "detect_aut")
  <2>1. SUFFICES ASSUME out[p] = "ok" PROVE Detected(p) \subseteq Listed
    BY <1>1 DEF Detected, Returned
  <2>2. found[p][1] \in Entries
    BY <1>1, <2>1, DetectGives DEF StageFlow, Returned
  <2> QED BY <1>1, <2>1, <2>2 DEF Detected, Listed, Entries, SlotAt, SIG, AUT, Slots, Applets, Returned
<1>2. CASE Returned(p, "list_piv")
  <2>1. SUFFICES ASSUME out[p] = "ok" PROVE InPiv(p) \subseteq Listed
    BY <1>2 DEF InPiv, Returned
  <2>2. \A i \in DOMAIN found[p] :
          i \in DOMAIN PivSlots /\ (found[p][i] # None => found[p][i] \in Entries)
    BY <1>2, <2>1, ListGives DEF StageFlow, Returned
  <2>3. \A i \in DOMAIN PivSlots : PivSlots[i] \in Slots
    BY SessionAssumption
  <2> QED BY <2>1, <2>2, <2>3 DEF InPiv, Listed, Entries, Applets, Curves
<1> QED BY <1>1, <1>2 DEF Returned

\* The steps of the handlers keep the types.
LEMMA HandlerTypeOK ==
  ASSUME CallsInv, HostTypeOK, NEW p \in Hosts, StageFlow(p), HostStep(p) \/ ReadPin(p)
  PROVE  HostTypeOK'
<1>1. TypeOK /\ from[p] \in Cards \cup {None}
  BY DEF CallsInv, Inv, TypeInv, TypeOK, CardTypeOK
<1>3. Opened(p) => opened' \in [Hosts -> SUBSET Cards]
  BY <1>1 DEF Opened, HostTypeOK
<1>4. CASE DetectReturns(p)
  <2>1. \E at \in Stages : \E r : Begin(p, at, r)
    BY <1>4 DEF DetectReturns, Stages
  <2>2. accounts' \in [Hosts -> SUBSET Listed]
    BY <1>4, ListingTypes DEF DetectReturns, HostTypeOK
  <2> QED BY <1>3, <1>4, <2>1, <2>2, StageReplyType DEF DetectReturns, HostTypeOK
<1>5. CASE ListReturns(p)
  <2>1. InPiv(p) \subseteq Listed /\ accounts[p] \subseteq Listed
    BY <1>5, ListingTypes DEF ListReturns, HostTypeOK
  <2>2. \E r \in Replies : Respond(p, r)
    BY <1>5, <2>1 DEF ListReturns, Reply, Replies, Codes
  <2>3. accounts' \in [Hosts -> SUBSET Listed]
    BY <1>5, <2>1 DEF ListReturns, HostTypeOK
  <2> QED BY <1>3, <1>5, <2>2, <2>3, StageReplyType DEF ListReturns, HostTypeOK
<1>6. CASE PubkeyReturns(p)
  <2>1. AwaitPin(p) \/ \E r \in Replies : Respond(p, r)
    BY <1>6, FailReplies DEF PubkeyReturns, Fail, CardErr, Codes
  <2>2. fetched' \in [Hosts -> Keys \cup {None}]
    <3>1. CASE out[p] = "ok"
      <4>1. found[p][1].key \in Keys
        BY <1>6, <3>1, PubkeyGives DEF PubkeyReturns, Returned, StageFlow
      <4> QED BY <1>6, <3>1, <4>1 DEF PubkeyReturns, HostTypeOK
    <3>2. CASE out[p] # "ok"
      BY <1>6, <3>2 DEF PubkeyReturns, HostTypeOK
    <3> QED BY <3>1, <3>2
  <2> QED BY <1>3, <1>6, <2>1, <2>2, StageReplyType DEF PubkeyReturns, HostTypeOK
<1>7. CASE SignReturns(p)
  <2>1. \E r \in Replies : Respond(p, r)
    <3>1. CASE Usable(p)
      BY <1>1, <1>7, <3>1 DEF SignReturns, Reply, Replies, Codes, TypeOK
    <3>2. CASE ~Usable(p)
      BY <1>7, <3>2, FailReplies DEF SignReturns, Fail, CardErr, Codes
    <3> QED BY <3>1, <3>2
  <2>2. lost' \in [Hosts -> Nat]
    BY <1>7, TriesLost DEF SignReturns, HostTypeOK
  <2> QED BY <1>3, <1>7, <2>1, <2>2, StageReplyType DEF SignReturns, HostTypeOK
<1>8. CASE ReadPin(p)
  <2>1. /\ UNCHANGED <<job, accounts, fetched, opened, lost>>
        /\ (\E x : Begin(p, "sign", For(job[p], "sign", x))) \/ Fail(p, "PIN_FAILED")
    BY <1>8 DEF ReadPin, SignWith
  <2>2. (\E at \in Stages : \E r : Begin(p, at, r)) \/ \E r \in Replies : Respond(p, r)
    BY <2>1, FailReplies DEF Fail, Stages, Codes
  <2> QED BY <2>1, <2>2, StageReplyType DEF HostTypeOK
<1> QED BY <1>4, <1>5, <1>6, <1>7, <1>8 DEF HostStep

\* So does the end of a host.
LEMMA HostDiesTypeOK ==
  ASSUME HostTypeOK, NEW p \in Hosts, HostDies(p)
  PROVE  HostTypeOK'
  BY DEF HostDies, Renewed, HostTypeOK, Stages

-----------------------------------------------------------------------------
(* A host is disturbed by nobody else.                                      *)

\* What a handler's step does to the sessions: nothing, a call, or the end of
\* its own.
LEMMA HandlerTouches ==
  ASSUME NEW p \in Hosts, Receive(p) \/ HostStep(p) \/ ReadPin(p) \/ HostDies(p)
  PROVE  UNCHANGED vars \/ (\E at, r : Begin(p, at, r)) \/ Kill(p)
<1>1. CASE Receive(p)
  BY <1>1, RespondIsStutter DEF Receive
<1>2. CASE DetectReturns(p)
  <2>1. Begin(p, "detect_aut", Detect(AUT)) \/ Begin(p, "list_piv", ListPiv)
    BY <1>2 DEF DetectReturns
  <2> QED BY <2>1
<1>3. CASE ListReturns(p) \/ PubkeyReturns(p) \/ SignReturns(p)
  BY <1>3, RespondIsStutter DEF ListReturns, PubkeyReturns, SignReturns
<1>4. CASE ReadPin(p)
  <2>1. (\E x : Begin(p, "sign", For(job[p], "sign", x))) \/ Fail(p, "PIN_FAILED")
    BY <1>4 DEF ReadPin, SignWith
  <2> QED BY <2>1, RespondIsStutter
<1>5. CASE HostDies(p)
  BY <1>5 DEF HostDies
<1> QED BY <1>1, <1>2, <1>3, <1>4, <1>5 DEF HostStep

\* A step of a host changes nothing that another's handler depends on.
LEMMA OtherHostsKept ==
  ASSUME HostTypeOK, TypeOK, NEW p \in Hosts, NEW q \in Hosts \ {p},
         Receive(p) \/ HostStep(p) \/ ReadPin(p) \/ HostDies(p)
  PROVE  HostLocal(q)' = HostLocal(q) /\ req'[q] = req[q] /\ pc'[q] = pc[q]
<1>1. req'[q] = req[q] /\ pc'[q] = pc[q]
  <2>1. CASE UNCHANGED vars
    BY <2>1 DEF vars, localVars, progressVars, callVars
  <2>2. CASE (\E at, r : Begin(p, at, r)) \/ Kill(p)
    BY <2>2 DEF Begin, CallFor, Kill, callVars, TypeOK
  <2> QED BY <2>1, <2>2, HandlerTouches
<1>2. stage'[q] = stage[q] /\ reply'[q] = reply[q]
  <2>1. CASE HostDies(p)
    BY <2>1 DEF HostDies, Renewed, HostTypeOK
  <2>2. CASE (\E r : Respond(p, r)) \/ (\E at, r : Begin(p, at, r)) \/ AwaitPin(p)
    BY <2>2 DEF Respond, Begin, AwaitPin, HostTypeOK
  <2>3. CASE Receive(p)
    BY <2>2, <2>3 DEF Receive, Fail
  <2>4. CASE HostStep(p)
    BY <2>2, <2>4 DEF HostStep, DetectReturns, ListReturns, PubkeyReturns, SignReturns, Fail
  <2>5. CASE ReadPin(p)
    BY <2>2, <2>5 DEF ReadPin, SignWith, Fail
  <2> QED BY <2>1, <2>3, <2>4, <2>5
<1>3. /\ job'[q] = job[q] /\ accounts'[q] = accounts[q] /\ fetched'[q] = fetched[q]
      /\ opened'[q] = opened[q] /\ lost'[q] = lost[q]
  <2>1. CASE Receive(p)
    BY <2>1 DEF Receive, HostTypeOK
  <2>2. CASE HostStep(p)
    BY <2>2 DEF HostStep, DetectReturns, ListReturns, PubkeyReturns, SignReturns, Opened, HostTypeOK
  <2>3. CASE ReadPin(p)
    BY <2>3 DEF ReadPin, SignWith
  <2>4. CASE HostDies(p)
    BY <2>4 DEF HostDies, Renewed, HostTypeOK
  <2> QED BY <2>1, <2>2, <2>3, <2>4
<1> QED BY <1>1, <1>2, <1>3 DEF HostLocal

\* A step of a call, or of the world, changes nothing a handler depends on but
\* the step the call is at, and starts no call.
LEMMA StepKeepsHandlers ==
  ASSUME TypeOK, NEW p \in Hosts, LibraryStep
  PROVE  req'[p] = req[p] /\ (pc[p] = "idle" => pc'[p] = "idle")
<1>1. CASE World /\ UNCHANGED localVars
  BY <1>1 DEF localVars, progressVars, callVars
<1>2. ASSUME NEW q \in Procs \ {p}, Call(q) \/ Step(q) \/ AnswerPrompt(q) \/ Kill(q)
      PROVE  req'[p] = req[p] /\ pc'[p] = pc[p]
  BY <1>2, OthersKept DEF LocalOf
<1>3. ASSUME Step(p)
      PROVE  req'[p] = req[p] /\ pc[p] # "idle"
  <2>1. pc[p] # "idle"
    BY <1>3 DEF Step, Connect, Select, Read, Scan, ResolvePin, SendVerify, SendSign, Drop
  <2>2. UNCHANGED req
    BY <1>3 DEF Step, Connect, Select, Read, Scan, ResolvePin, SendVerify, SendSign, Drop, callVars
  <2> QED BY <2>1, <2>2
<1> QED BY <1>1, <1>2, <1>3 DEF LibraryStep

-----------------------------------------------------------------------------
(* The handler's own steps, one by one.                                     *)

\* A request is refused, answered at once, or begins its first call, with
\* nothing collected for it yet.
LEMMA ReceiveStep ==
  ASSUME TypeInv, HostTypeOK, NEW p \in Hosts, HandlerInv(p), Receive(p)
  PROVE  HandlerInv(p)'
<1>1. PICK j \in HostRequests :
        /\ job' = [job EXCEPT ![p] = j]
        /\ \/ Refusal(j) # "none" /\ Fail(p, Refusal(j))
           \/ j.method = "get_info" /\ Respond(p, Reply("ok", {}, None))
           \/ j.method \in ListMethods /\ Begin(p, "detect_sig", Detect(SIG))
           \/ /\ j \in Accepted /\ j.method = "sign_secp256k1"
              /\ Begin(p, "get_pubkey", For(j, "get_pubkey", Prompt))
           \/ j \in Accepted /\ j.method = "sign_ed25519" /\ AwaitPin(p)
  BY DEF Receive
<1>2. /\ stage[p] = "ready" /\ pc[p] = "idle"
      /\ job'[p] = j /\ accounts'[p] = {} /\ lost'[p] = 0
  BY <1>1 DEF Receive, HostTypeOK, HandlerInv, StageFlow
<1>3. CASE (Refusal(j) # "none" /\ Fail(p, Refusal(j)))
           \/ (j.method = "get_info" /\ Respond(p, Reply("ok", {}, None)))
  <2>1. /\ stage'[p] = "ready" /\ pc'[p] = "idle"
        /\ \E code \in Codes :
             /\ reply'[p] = Reply(code, {}, None)
             /\ code = "ok" => j.method = "get_info"
    BY <1>2, <1>3, RefusalCode DEF Fail, Respond, HostTypeOK, Codes, vars, localVars, progressVars
  <2> QED
    BY <1>2, <2>1 DEF HandlerInv, StageFlow, ListFlow, KeyFlow, SignsFetched, TriesOnce,
       ListsGenuine, OnePerSlot, Reply
<1>4. CASE j.method \in ListMethods /\ Begin(p, "detect_sig", Detect(SIG))
  BY <1>2, <1>4, BegunFlow DEF HandlerInv, StageFlow, ListFlow, KeyFlow, OnePerSlot, Stages
<1>5. CASE /\ j \in Accepted /\ j.method = "sign_secp256k1"
           /\ Begin(p, "get_pubkey", For(j, "get_pubkey", Prompt))
  <2>1. For(j, "get_pubkey", Prompt) \in Requests
    BY <1>5 DEF SignMethods
  <2> QED
    BY <1>2, <1>5, <2>1, BegunFlow DEF HandlerInv, StageFlow, ListFlow, KeyFlow, OnePerSlot, Stages
<1>6. CASE j.method = "sign_ed25519" /\ AwaitPin(p)
  <2>1. stage'[p] = "read_pin" /\ pc'[p] = "idle" /\ reply'[p] = None
    BY <1>2, <1>6 DEF AwaitPin, HostTypeOK, vars, localVars, progressVars
  <2> QED
    BY <1>2, <1>6, <2>1 DEF HandlerInv, StageFlow, ListFlow, KeyFlow, SignsFetched, TriesOnce,
       ListsGenuine, OnePerSlot
<1> QED BY <1>1, <1>3, <1>4, <1>5, <1>6

\* The cards opened so far stay among those opened.
LEMMA OpenedGrows ==
  ASSUME HostTypeOK, NEW p \in Hosts, Opened(p)
  PROVE  /\ opened[p] \subseteq opened'[p]
         /\ from[p] # None => from[p] \in opened'[p]
  BY DEF HostTypeOK, Opened

\* What was genuine of some cards is so of more.
LEMMA GenuineOfMore ==
  ASSUME NEW more, NEW cards \in SUBSET more, NEW a, Genuine(a, cards)
  PROVE  Genuine(a, more)
  BY DEF Genuine

\* A detection adds the account of its own slot, from the card it opened.
LEMMA DetectStep ==
  ASSUME CallsInv, HostTypeOK, NEW p \in Hosts, HandlerInv(p), DetectReturns(p)
  PROVE  HandlerInv(p)'
<1>1. /\ TypeInv /\ UNCHANGED <<job, fetched, lost>>
      /\ stage[p] \in {"detect_sig", "detect_aut"} /\ lost[p] = 0
      /\ job[p].method \in ListMethods
  BY DEF CallsInv, Inv, DetectReturns, Returned, HandlerInv, StageFlow
<1>2. /\ SignsFetched(p)' /\ TriesOnce(p)' /\ ListsGenuine(p)'
      /\ reply'[p] = None /\ lost'[p] = 0
      /\ IF stage[p] = "detect_sig" THEN stage'[p] = "detect_aut" /\ req'[p] = Detect(AUT)
         ELSE stage'[p] = "list_piv" /\ req'[p] = ListPiv
  BY <1>1, BegunFlow DEF DetectReturns, Stages
<1>3. StageFlow(p)' /\ KeyFlow(p)'
  BY <1>1, <1>2 DEF StageFlow, KeyFlow
<1>4. /\ \A a \in Detected(p) :
           a.applet = "openpgp" /\ a.slot = SlotAt(stage[p]) /\ Genuine(a, opened'[p])
      /\ \A a, b \in Detected(p) : a = b
  <2>1. CASE out[p] # "ok"
    BY <2>1 DEF Detected
  <2>2. CASE out[p] = "ok"
    <3> DEFINE e == found[p][1]
               a == [applet |-> "openpgp", slot |-> SlotAt(stage[p]),
                     curve |-> e.as, key |-> e.key]
    <3>1. /\ from[p] \in Cards /\ e.key = Stored(from[p], "openpgp", SlotAt(stage[p]))
          /\ ReadsAs(e.key, e.as)
      BY <1>1, <2>2, DetectGives DEF HandlerInv, StageFlow, SlotAt
    <3>2. from[p] \in opened'[p]
      BY <3>1, OpenedGrows, CardAssumption DEF DetectReturns
    <3>3. Detected(p) = {a}
      BY <2>2 DEF Detected
    <3>4. Genuine(a, opened'[p])
      BY <3>1, <3>2 DEF Genuine
    <3> QED BY <3>3, <3>4
  <2> QED BY <2>1, <2>2
<1>5. accounts'[p] = accounts[p] \cup Detected(p) /\ opened[p] \subseteq opened'[p]
  BY OpenedGrows DEF DetectReturns, HostTypeOK
<1>6. /\ \A a \in accounts[p] : Genuine(a, opened'[p])
      /\ OnePerSlot(accounts[p])
      /\ IF stage[p] = "detect_sig" THEN accounts[p] = {}
         ELSE \A a \in accounts[p] : a.applet = "openpgp" /\ a.slot = SIG
  BY <1>1, <1>5, GenuineOfMore DEF HandlerInv, ListFlow
<1>7. ListFlow(p)'
  BY <1>1, <1>2, <1>4, <1>5, <1>6 DEF ListFlow, OnePerSlot, SlotAt, SIG, AUT
<1> QED BY <1>2, <1>3, <1>7 DEF HandlerInv

\* A listing adds one account for each of its slots, and the request is
\* answered with all of them.
LEMMA ListStep ==
  ASSUME CallsInv, HostTypeOK, NEW p \in Hosts, HandlerInv(p), ListReturns(p)
  PROVE  HandlerInv(p)'
<1> DEFINE all == accounts[p] \cup InPiv(p)
<1>1. /\ UNCHANGED <<job, fetched, lost>> /\ stage[p] = "list_piv" /\ lost[p] = 0
      /\ job[p].method \in ListMethods /\ pc'[p] = "idle" /\ req[p] = ListPiv
      /\ stage'[p] = "ready" /\ reply'[p] = Reply("ok", all, None)
      /\ accounts'[p] = all /\ opened[p] \subseteq opened'[p]
  BY OpenedGrows
  DEF ListReturns, Returned, Respond, HandlerInv, StageFlow, HostTypeOK, vars, localVars,
      progressVars
<1>2. /\ \A a \in InPiv(p) : a.applet = "piv" /\ Genuine(a, opened'[p])
      /\ OnePerSlot(InPiv(p))
  <2>1. CASE out[p] # "ok"
    BY <2>1 DEF InPiv, OnePerSlot
  <2>2. CASE out[p] = "ok"
    <3> DEFINE entry(i) == [applet |-> "piv", slot |-> PivSlots[i], curve |-> "ed25519",
                            key |-> found[p][i].key]
               read == {i \in DOMAIN found[p] : found[p][i] # None}
    <3>1. /\ from[p] \in Cards
          /\ \A i \in read : /\ found[p][i].key = Stored(from[p], "piv", PivSlots[i])
                             /\ ReadsAs(found[p][i].key, "ed25519")
      BY <1>1, <2>2, ListGives
    <3>2. from[p] \in opened'[p]
      BY <3>1, OpenedGrows, CardAssumption DEF ListReturns
    <3>3. InPiv(p) = {entry(i) : i \in read}
      BY <2>2 DEF InPiv
    <3>4. \A i \in read : Genuine(entry(i), opened'[p])
      BY <3>1, <3>2 DEF Genuine
    <3>5. \A i, k \in read : entry(i).slot = entry(k).slot => entry(i) = entry(k)
      BY <3>1
    <3> HIDE DEF entry, read
    <3>6. \A i \in read : entry(i).applet = "piv"
      BY DEF entry
    <3> QED BY <3>3, <3>4, <3>5, <3>6 DEF OnePerSlot
  <2> QED BY <2>1, <2>2
<1>3. /\ \A a \in accounts[p] : a.applet = "openpgp" /\ Genuine(a, opened'[p])
      /\ OnePerSlot(accounts[p])
  BY <1>1, GenuineOfMore DEF HandlerInv, ListFlow
<1>4. (\A a \in all : Genuine(a, opened'[p])) /\ OnePerSlot(all)
  BY <1>2, <1>3 DEF OnePerSlot
<1>5. StageFlow(p)' /\ ListFlow(p)' /\ KeyFlow(p)'
  BY <1>1, <1>4 DEF StageFlow, ListFlow, KeyFlow
<1>6. SignsFetched(p)' /\ TriesOnce(p)' /\ ListsGenuine(p)'
  BY <1>1, <1>4 DEF SignsFetched, TriesOnce, ListsGenuine, Reply, ListMethods
<1> QED BY <1>5, <1>6 DEF HandlerInv

\* An answer with no list of accounts ends a handler that has lost no try, or
\* fails.
LEMMA AnsweredFlow ==
  ASSUME HostTypeOK, NEW p \in Hosts, HandlerInv(p), pc'[p] = "idle",
         NEW code \in Codes, NEW s, stage'[p] = "ready", reply'[p] = Reply(code, {}, s),
         UNCHANGED <<job, accounts>>, opened[p] \subseteq opened'[p],
         lost'[p] \in {0, 1}, lost'[p] # 0 => code = "CARD_ERROR",
         SignsFetched(p)'
  PROVE  HandlerInv(p)'
<1>1. StageFlow(p)' /\ KeyFlow(p)'
  BY DEF StageFlow, KeyFlow
<1>2. ListFlow(p)'
  BY GenuineOfMore DEF HandlerInv, ListFlow
<1>3. TriesOnce(p)' /\ ListsGenuine(p)'
  BY DEF TriesOnce, ListsGenuine, Reply, OnePerSlot
<1> QED BY <1>1, <1>2, <1>3 DEF HandlerInv

\* A failure is such an answer, with no signature to account for.
LEMMA FailedFlow ==
  ASSUME HostTypeOK, NEW p \in Hosts, HandlerInv(p), pc[p] = "idle",
         NEW code \in Codes \ {"ok"}, Fail(p, code),
         UNCHANGED <<job, accounts>>, opened[p] \subseteq opened'[p],
         lost'[p] \in {0, 1}, lost'[p] # 0 => code = "CARD_ERROR"
  PROVE  HandlerInv(p)'
<1>1. /\ pc'[p] = "idle" /\ stage'[p] = "ready" /\ reply'[p] = Reply(code, {}, None)
  BY DEF Fail, Respond, HostTypeOK, vars, localVars, progressVars
<1>2. SignsFetched(p)'
  BY <1>1 DEF SignsFetched, Reply
<1> QED BY <1>1, <1>2, AnsweredFlow

\* get_pubkey has given the key the address is made of, or the request fails.
LEMMA PubkeyStep ==
  ASSUME CallsInv, HostTypeOK, NEW p \in Hosts, HandlerInv(p), PubkeyReturns(p)
  PROVE  HandlerInv(p)'
<1>1. /\ UNCHANGED <<job, accounts, lost>> /\ stage[p] = "get_pubkey" /\ lost[p] = 0
      /\ pc[p] = "idle" /\ opened[p] \subseteq opened'[p]
      /\ req[p] = For(job[p], "get_pubkey", Prompt)
  BY OpenedGrows DEF PubkeyReturns, Returned, HandlerInv, StageFlow
<1>2. CASE Fail(p, "CARD_ERROR")
  BY <1>1, <1>2, FailedFlow DEF Codes
<1>3. CASE /\ out[p] = "ok" /\ AwaitPin(p)
           /\ fetched' = [fetched EXCEPT ![p] = found[p][1].key]
  <2>1. /\ stage'[p] = "read_pin" /\ pc'[p] = "idle" /\ reply'[p] = None
        /\ fetched'[p] = found[p][1].key
    BY <1>1, <1>3 DEF AwaitPin, HostTypeOK, vars, localVars, progressVars
  <2>2. LET a == job[p].account IN
        /\ from[p] \in Cards /\ fetched'[p] = Stored(from[p], a.applet, a.slot)
        /\ ReadsAs(fetched'[p], a.curve)
        /\ a.applet = "piv" => a.curve = "ed25519"
    BY <1>1, <1>3, <2>1, PubkeyGives
  <2>3. from[p] \in opened'[p]
    BY <2>2, OpenedGrows, CardAssumption DEF PubkeyReturns
  <2>4. KeyFlow(p)'
    BY <1>1, <2>2, <2>3 DEF KeyFlow
  <2>5. ListFlow(p)'
    BY <1>1, <2>1, GenuineOfMore DEF HandlerInv, ListFlow
  <2>6. StageFlow(p)' /\ SignsFetched(p)' /\ TriesOnce(p)' /\ ListsGenuine(p)'
    BY <1>1, <2>1 DEF StageFlow, SignsFetched, TriesOnce, ListsGenuine
  <2> QED BY <2>4, <2>5, <2>6 DEF HandlerInv
<1> QED BY <1>2, <1>3 DEF PubkeyReturns, CardErr

\* The PIN is read, and the call to sign begins with it; or the request fails.
LEMMA ReadPinStep ==
  ASSUME CallsInv, HostTypeOK, HostShape, NEW p \in Hosts, HandlerInv(p), ReadPin(p)
  PROVE  HandlerInv(p)'
<1>1. /\ UNCHANGED <<job, accounts, fetched, opened, lost>> /\ stage[p] = "read_pin"
      /\ lost[p] = 0 /\ pc[p] = "idle" /\ TypeInv
  BY DEF ReadPin, SignWith, HandlerInv, StageFlow, CallsInv, Inv
<1>2. CASE Fail(p, "PIN_FAILED")
  BY <1>1, <1>2, FailedFlow DEF Codes
<1>3. ASSUME NEW x \in Pins, Begin(p, "sign", For(job[p], "sign", x))
      PROVE  HandlerInv(p)'
  <2>1. For(job[p], "sign", x) \in Requests /\ job[p].method \in SignMethods
    BY <1>1 DEF HostShape, SigningShape
  <2>2. /\ stage'[p] = "sign" /\ reply'[p] = None /\ lost'[p] = 0
        /\ req'[p] = For(job[p], "sign", x)
        /\ SignsFetched(p)' /\ TriesOnce(p)' /\ ListsGenuine(p)'
    BY <1>1, <1>3, <2>1, BegunFlow DEF Stages
  <2>3. StageFlow(p)'
    BY <1>1, <2>1, <2>2 DEF StageFlow, SignMethods, ListMethods
  <2>4. ListFlow(p)' /\ KeyFlow(p)'
    BY <1>1, <2>2 DEF HandlerInv, ListFlow, KeyFlow
  <2> QED BY <2>2, <2>3, <2>4 DEF HandlerInv
<1> QED BY <1>2, <1>3, HostAssumption DEF ReadPin, SignWith

\* A key that was read for the account and is a secp256k1 one is the key of
\* the account's OpenPGP slot: PIV reads Ed25519 keys only.
LEMMA EthereumKey ==
  ASSUME HostShape, NEW p \in Hosts, HandlerInv(p), stage[p] = "sign",
         job[p].method = "sign_secp256k1", CurveOf[fetched[p]] = "secp256k1"
  PROVE  \E c \in opened[p] :
           fetched[p] = KeyIn[c][job[p].account.applet][job[p].account.slot]
<1> DEFINE a == job[p].account
<1>1. a \in Account
  BY DEF HostShape, SigningShape, Accepted, Refusal, Jobs, Methods, SignMethods
<1>2. PICK c \in opened[p] :
        /\ a.applet = "piv" => a.curve = "ed25519"
        /\ ReadsAs(fetched[p], a.curve)
        /\ fetched[p] = Stored(c, a.applet, a.slot)
  BY DEF HandlerInv, KeyFlow
<1>3. a.applet = "openpgp"
  BY <1>1, <1>2 DEF ReadsAs, Account, Applets
<1> QED BY <1>2, <1>3 DEF Stored

\* The signature goes out if it is usable: for Ethereum, if it is one by the
\* very key read before.
LEMMA SignStep ==
  ASSUME CallsInv, HostTypeOK, HostShape, NEW p \in Hosts, HandlerInv(p), SignReturns(p)
  PROVE  HandlerInv(p)'
<1>1. /\ UNCHANGED <<job, accounts, fetched>> /\ stage[p] = "sign" /\ pc[p] = "idle"
      /\ opened[p] \subseteq opened'[p] /\ lost'[p] = LostNow(p)
  BY OpenedGrows, TriesLost DEF SignReturns, Returned, HandlerInv, StageFlow, HostTypeOK
<1>2. lost'[p] \in {0, 1} /\ (lost'[p] # 0 => out[p] # "ok")
  BY <1>1, TriesLost
<1>3. CASE ~Usable(p)
  <2>1. Fail(p, "CARD_ERROR")
    BY <1>3 DEF SignReturns, CardErr
  <2> QED BY <1>1, <1>2, <2>1, FailedFlow DEF Codes
<1>4. CASE Usable(p)
  <2>1. /\ stage'[p] = "ready" /\ pc'[p] = "idle" /\ reply'[p] = Reply("ok", {}, sig[p])
        /\ out[p] = "ok" /\ lost'[p] = 0
    BY <1>1, <1>2, <1>4 DEF SignReturns, Respond, Usable, HostTypeOK, vars, localVars, progressVars
  <2>2. sig[p].msg = job[p].msg
    BY <1>1, <2>1, SignGives DEF HandlerInv, StageFlow
  <2>3. job[p].method = "sign_secp256k1" =>
          /\ sig[p].key = fetched[p] /\ CurveOf[fetched[p]] = "secp256k1"
          /\ \E c \in opened'[p] :
               fetched[p] = KeyIn[c][job[p].account.applet][job[p].account.slot]
    BY <1>1, <1>4, EthereumKey DEF Usable, Recovers
  <2>4. SignsFetched(p)'
    BY <1>1, <2>1, <2>2, <2>3 DEF SignsFetched, Reply
  <2> QED BY <1>1, <2>1, <2>4, AnsweredFlow DEF Codes
<1> QED BY <1>3, <1>4

\* A host that dies leaves nothing; it was in a handler, which had lost nothing.
LEMMA DiesStep ==
  ASSUME TypeInv, HostTypeOK, NEW p \in Hosts, HandlerInv(p), HostDies(p)
  PROVE  HandlerInv(p)'
<1>1. /\ stage'[p] = "ready" /\ reply'[p] = None /\ accounts'[p] = {} /\ lost'[p] = 0
  BY DEF HostDies, Renewed, HostTypeOK, HandlerInv, StageFlow
<1>2. pc'[p] = "idle"
  BY DEF HostDies, Kill, TypeInv, TypeOK, vars, localVars, progressVars
<1> QED
  BY <1>1, <1>2 DEF HandlerInv, StageFlow, ListFlow, KeyFlow, SignsFetched, TriesOnce,
     ListsGenuine, OnePerSlot

-----------------------------------------------------------------------------
(* The theorems about requests.                                             *)

\* It holds when the hosts start.
LEMMA InitHostInv == HostInit => HostInv
<1>1. HostInit => HostTypeOK
  BY DEF HostInit, HostTypeOK, Stages
<1>2. ASSUME HostInit, NEW p \in Hosts PROVE HandlerInv(p)
  BY <1>2 DEF HostInit, Init, HandlerInv, StageFlow, ListFlow, KeyFlow, SignsFetched, TriesOnce,
     ListsGenuine, OnePerSlot
<1> QED BY <1>1, <1>2, InitHostShape DEF HostInv

\* A step of a host keeps it.
LEMMA HandlerStepHostInv ==
  ASSUME CallsInv, HostInv, HostShape', NEW p \in Hosts,
         Receive(p) \/ HostStep(p) \/ ReadPin(p) \/ HostDies(p)
  PROVE  HostInv'
<1>1. /\ HostTypeOK /\ HostShape /\ TypeInv /\ TypeOK /\ HandlerInv(p) /\ StageFlow(p)
  BY DEF HostInv, CallsInv, Inv, TypeInv, HandlerInv
<1>2. HostTypeOK'
  BY <1>1, ReceiveTypeOK, HandlerTypeOK, HostDiesTypeOK
<1>3. HandlerInv(p)'
  BY <1>1, ReceiveStep, DetectStep, ListStep, PubkeyStep, ReadPinStep, SignStep, DiesStep
  DEF HostStep
<1>4. ASSUME NEW q \in Hosts \ {p} PROVE HandlerInv(q)'
  BY <1>1, <1>4, OtherHostsKept, HandlerKept DEF HostInv
<1> QED BY <1>2, <1>3, <1>4 DEF HostInv

\* So does a step that no host takes.
LEMMA LibraryStepHostInv ==
  ASSUME CallsInv, HostInv, HostShape', UNCHANGED hostVars, LibraryStep \/ UNCHANGED vars
  PROVE  HostInv'
<1>1. TypeOK /\ HostTypeOK'
  BY DEF HostInv, HostTypeOK, hostVars, CallsInv, Inv, TypeInv
<1>2. ASSUME NEW p \in Hosts PROVE HandlerInv(p)'
  <2>1. HostLocal(p)' = HostLocal(p)
    BY DEF HostLocal, hostVars
  <2>2. req'[p] = req[p] /\ (pc[p] = "idle" => pc'[p] = "idle")
    BY <1>1, StepKeepsHandlers DEF vars, localVars, progressVars, callVars
  <2> QED BY <2>1, <2>2, HandlerKept DEF HostInv
<1> QED BY <1>1, <1>2 DEF HostInv

\* HostInv is an invariant of the hosts, whatever the other processes do.
THEOREM HostInvariance == HostSafetySpec => []HostInv
<1>1. HostInv /\ CallsInv /\ [HostNext]_<<vars, hostVars>> => HostInv'
  <2> SUFFICES ASSUME HostInv, CallsInv, [HostNext]_<<vars, hostVars>> PROVE HostInv'
    OBVIOUS
  <2>1. HostShape'
    BY NextHostShape DEF HostInv
  <2> QED BY <2>1, HandlerStepHostInv, LibraryStepHostInv DEF HostNext
<1> QED BY <1>1, InitHostInv, HostRefinesLibrary, AnswerInvariance, PTL DEF HostSafetySpec

\* Every variable of every host has its type.
THEOREM HostTypeCorrect == HostSpec => []HostTypeOK
<1>1. HostInv => HostTypeOK
  BY DEF HostInv
<1> QED BY <1>1, HostInvariance, PTL DEF HostSpec

\* The signature that answers sign_secp256k1 is by the key read before it, even
\* if the card was swapped between the two sessions.
THEOREM SignsWithFetchedKeyTheorem == HostSpec => []SignsWithFetchedKey
<1>1. HostInv => SignsWithFetchedKey
  BY DEF HostInv, HandlerInv, SignsFetched, SignsWithFetchedKey
<1> QED BY <1>1, HostInvariance, PTL DEF HostSpec

\* A request costs one PIN try at most, and none if it is answered with success.
THEOREM OneTryPerRequestTheorem == HostSpec => []OneTryPerRequest
<1>1. HostInv => OneTryPerRequest
  BY DEF HostInv, HandlerInv, TriesOnce, OneTryPerRequest
<1> QED BY <1>1, HostInvariance, PTL DEF HostSpec

\* Every account in an answer is that of its own slot on a card opened for it.
THEOREM ListsWhatIsThereTheorem == HostSpec => []ListsWhatIsThere
<1>1. HostInv => ListsWhatIsThere
  BY DEF HostInv, HandlerInv, ListsGenuine, Genuine, OnePerSlot, ListsWhatIsThere
<1> QED BY <1>1, HostInvariance, PTL DEF HostSpec

=============================================================================
