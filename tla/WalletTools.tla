---------------------------- MODULE WalletTools ----------------------------
(***************************************************************************)
(* The command line of the wallet and the signing tools beside it, run by  *)
(* a user at a terminal (yubiwallet/src/main.rs, yubiwallet/examples).     *)
(* As in the native host a command is a chain of library calls, each with  *)
(* a card of its own; unlike it, a tool asks for the PIN inside the call,  *)
(* prints as it goes, and stops at most errors.                            *)
(***************************************************************************)
EXTENDS CardSession

CONSTANTS
  Tools,     \* the processes that run a tool
  Commands   \* what the user may run

Chains == {"ethereum", "bitcoin", "sui", "solana"}

\* A command with its account, as parsed, and what it is to sign, if anything:
\* the Bitcoin and Sui tools without a transaction print the address.
CommandType ==
  [tool : {"list", "address"} \cup Chains, account : Account, msg : Msgs \cup {None}]

\* The library calls of a command.
AnyMsg == CHOOSE m \in Msgs : TRUE
Detect(slot) == [op |-> "detect_account", applet |-> "openpgp", slot |-> slot,
                 curve |-> "ed25519", msg |-> AnyMsg, pin |-> Prompt]
ListPiv == [op |-> "list_accounts", applet |-> "piv", slot |-> AUTH,
            curve |-> "ed25519", msg |-> AnyMsg, pin |-> Prompt]
PubkeyOf(d) == [op |-> "get_pubkey", applet |-> d.account.applet, slot |-> d.account.slot,
                curve |-> d.account.curve, msg |-> AnyMsg, pin |-> Prompt]

SignatureOf(d) == [PubkeyOf(d) EXCEPT !.op = "sign", !.msg = d.msg]

\* What the tools accept for an account: to_account, and the fixed applets and
\* curves of the others.
Takes(d) ==
  CASE d.tool \in {"ethereum", "bitcoin"} ->
         d.account.applet = "openpgp" /\ d.account.curve = "secp256k1"
    [] d.tool \in {"sui", "solana"} -> d.account.applet = "piv" /\ d.account.curve = "ed25519"
    [] d.tool = "address" -> ~(d.account.applet = "piv" /\ d.account.curve = "secp256k1")
    [] d.tool = "list" -> TRUE

ASSUME ToolAssumption ==
  /\ Tools \subseteq Procs /\ None \notin CommandType
  /\ Commands \subseteq
       {d \in CommandType : /\ NamedSlot(d.account.applet, d.account.slot)
                            /\ d.tool \in Chains => Takes(d)
                            /\ d.tool \in {"ethereum", "solana"} => d.msg # None
                            /\ d.tool \in {"list", "address"} => d.msg = None}
  /\ {Detect(SIG), Detect(AUT), ListPiv} \subseteq Requests
  /\ \A d \in Commands : Takes(d) =>
       PubkeyOf(d) \in Requests /\ (d.msg # None => SignatureOf(d) \in Requests)

Phases == {"shell", "detect_sig", "detect_aut", "list_piv", "get_pubkey", "prepare", "sign"}
Shown  == [applet : Applets, slot : Slots, curve : Curves, key : Keys]

VARIABLES
  phase,    \* the library call a tool waits for, or the shell
  command,  \* what it runs, or ran last, or None
  shown,    \* the accounts it has printed
  pk,       \* the public key in its hands, or None
  outcome,  \* "none", "done" or "failed"
  made,     \* the signature it has put into a transaction, or None
  met       \* history: the cards its calls have opened

toolVars == <<phase, command, shown, pk, outcome, made, met>>

ToolTypeOK ==
  /\ phase \in [Tools -> Phases]
  /\ command \in [Tools -> Commands \cup {None}]
  /\ shown \in [Tools -> SUBSET Shown]
  /\ pk \in [Tools -> Keys \cup {None}]
  /\ outcome \in [Tools -> {"none", "done", "failed"}]
  /\ made \in [Tools -> Signatures \cup {None}]
  /\ met \in [Tools -> SUBSET Cards]

ToolInit ==
  /\ Init
  /\ phase = [t \in Tools |-> "shell"]
  /\ command = [t \in Tools |-> None]
  /\ shown = [t \in Tools |-> {}]
  /\ pk = [t \in Tools |-> None]
  /\ outcome = [t \in Tools |-> "none"]
  /\ made = [t \in Tools |-> None]
  /\ met = [t \in Tools |-> {}]

-----------------------------------------------------------------------------
(* How a step ends: at a library call, or with the end of the program.      *)

Begin(t, next, r) ==
  /\ phase' = [phase EXCEPT ![t] = next]
  /\ UNCHANGED outcome
  /\ CallFor(t, r)

\* Mutant: the program ends with whatever the last call ended with.
EndRaw(t, how) ==
  /\ phase' = [phase EXCEPT ![t] = "shell"]
  /\ outcome' = [outcome EXCEPT ![t] = out[t]]
  /\ UNCHANGED vars

End(t, how) ==
  /\ phase' = [phase EXCEPT ![t] = "shell"]
  /\ outcome' = [outcome EXCEPT ![t] = how]
  /\ UNCHANGED vars

Show(t, accs) == shown' = [shown EXCEPT ![t] = @ \cup accs]

\* A library call of phase `at` has returned, on the card it opened.
Back(t, at) ==
  /\ phase[t] = at /\ pc[t] = "idle"
  /\ met' = [met EXCEPT ![t] = @ \cup ({from[t]} \ {None})]
  /\ UNCHANGED command

ShownAs(d, key) == [applet |-> d.account.applet, slot |-> d.account.slot,
                    curve |-> d.account.curve, key |-> key]

-----------------------------------------------------------------------------
(* The steps of a command.                                                  *)

Run(t) ==
  /\ phase[t] = "shell"
  /\ \E d \in Commands :
       /\ command' = [command EXCEPT ![t] = d]
       /\ phase' = [phase EXCEPT ![t] = IF ~Takes(d) THEN "shell"
                                        ELSE IF d.tool = "list" THEN "detect_sig"
                                        ELSE "get_pubkey"]
       /\ outcome' = [outcome EXCEPT ![t] = IF Takes(d) THEN "none" ELSE "failed"]
       /\ IF ~Takes(d) THEN UNCHANGED vars
          ELSE CallFor(t, IF d.tool = "list" THEN Detect(SIG) ELSE PubkeyOf(d))
  /\ shown' = [shown EXCEPT ![t] = {}]
  /\ pk' = [pk EXCEPT ![t] = None]
  /\ made' = [made EXCEPT ![t] = None]
  /\ met' = [met EXCEPT ![t] = {}]

\* `list`, after the detection in an OpenPGP slot: an error is printed in the
\* account's place.
DetectReturns(t, at, slot) ==
  /\ Back(t, at)
  /\ Show(t, {[applet |-> "openpgp", slot |-> slot, curve |-> e.as, key |-> e.key] :
                e \in {found[t][i] : i \in {k \in {1} : out[t] = "ok"}}})
  /\ IF slot = SIG THEN Begin(t, "detect_aut", Detect(AUT)) ELSE Begin(t, "list_piv", ListPiv)
  /\ UNCHANGED <<pk, made>>

\* Mutant: the keys are numbered after the empty slots are left out.
PivShownPacked(t) ==
  LET full == SelectSeq(found[t], LAMBDA e : e # None) IN
  {[applet |-> "piv", slot |-> PivSlots[i], curve |-> "ed25519", key |-> full[i].key] :
     i \in DOMAIN full}

PivShown(t) ==
  {[applet |-> "piv", slot |-> PivSlots[i], curve |-> "ed25519", key |-> found[t][i].key] :
     i \in {k \in DOMAIN found[t] : found[t][k] # None}}

\* `list`, at its end: here an error is the program's.
ListReturns(t) ==
  /\ Back(t, "list_piv")
  /\ \/ out[t] = "ok" /\ Show(t, PivShown(t)) /\ End(t, "done")
     \/ out[t] # "ok" /\ UNCHANGED shown /\ End(t, "failed")
  /\ UNCHANGED <<pk, made>>

\* Mutant: the signature is made in the session get_pubkey has opened.
PubkeyReturnsInSession(t) ==
  /\ phase[t] = "get_pubkey" /\ pc[t] = "drop" /\ out[t] = "ok"
  /\ pk' = [pk EXCEPT ![t] = found[t][1].key]
  /\ req' = [req EXCEPT ![t] = SignatureOf(command[t])]
  /\ pc' = [pc EXCEPT ![t] = "pin"]
  /\ phase' = [phase EXCEPT ![t] = "sign"]
  /\ UNCHANGED <<worldVars, out, pin, resultVars, historyVars,
                 command, shown, outcome, made, met>>

\* The public key is there: its address is printed, or kept for the transaction
\* (the Sui and Bitcoin tools never print it then, the Solana tool at the end).
PubkeyReturns(t) ==
  LET d == command[t] IN
  /\ Back(t, "get_pubkey")
  /\ \/ /\ out[t] = "ok"
        /\ pk' = [pk EXCEPT ![t] = found[t][1].key]
        /\ IF d.msg = None \/ d.tool = "ethereum"
           THEN Show(t, {ShownAs(d, found[t][1].key)}) ELSE UNCHANGED shown
        /\ IF d.msg = None THEN End(t, "done")
           ELSE /\ phase' = [phase EXCEPT ![t] = "prepare"]
                /\ UNCHANGED <<outcome, vars>>
     \/ out[t] # "ok" /\ End(t, "failed") /\ UNCHANGED <<pk, shown>>
  /\ UNCHANGED made

\* The transaction is built from what the network, the user or the arguments
\* give, which takes any time and may fail; then it goes to the card.
Prepare(t) ==
  /\ phase[t] = "prepare"
  /\ Begin(t, "sign", SignatureOf(command[t])) \/ End(t, "failed")
  /\ UNCHANGED <<command, shown, pk, made, met>>

\* Mutant: the Ethereum tool takes the signature as it is.
AcceptsAny(t) == {TRUE}

\* What the tools ask of a signature before they print: the Ethereum tool that
\* the key it shows be recovered from it; the Bitcoin tool that R and S be
\* scalars of its curve, which the two halves of another curve's signature may
\* be; Sui nothing.  The Solana tool asks nothing either, but it first sends the
\* transaction, and the network call may fail.
Accepts(t) ==
  LET s == sig[t] IN
  CASE command[t].tool = "ethereum" -> {CurveOf[pk[t]] = "secp256k1" /\ s.key = pk[t]}
    [] command[t].tool = "bitcoin" ->
         IF CurveOf[s.key] = "secp256k1" THEN {TRUE}
         ELSE IF CurveOf[s.key] = "rsa" THEN {FALSE} ELSE BOOLEAN
    [] command[t].tool = "solana" -> BOOLEAN
    [] OTHER -> {TRUE}

\* The transaction is put together from pk and the signature, and printed or
\* sent.
SignReturns(t) ==
  /\ Back(t, "sign")
  /\ \/ /\ out[t] = "ok" /\ TRUE \in Accepts(t)
        /\ made' = [made EXCEPT ![t] = sig[t]]
        /\ IF command[t].tool = "solana" THEN Show(t, {ShownAs(command[t], pk[t])})
           ELSE UNCHANGED shown
        /\ End(t, "done")
     \/ /\ out[t] = "ok" => FALSE \in Accepts(t)
        /\ End(t, "failed") /\ UNCHANGED <<made, shown>>
  /\ UNCHANGED pk

\* Ctrl-C.
Interrupted(t) ==
  /\ "kill" \in Faults /\ phase[t] # "shell"
  /\ IF pc[t] = "idle" THEN UNCHANGED vars ELSE Kill(t)
  /\ phase' = [phase EXCEPT ![t] = "shell"]
  /\ outcome' = [outcome EXCEPT ![t] = "failed"]
  /\ UNCHANGED <<command, shown, pk, made, met>>

ToolNext ==
  \/ \E t \in Tools :
       \/ Run(t) \/ ListReturns(t) \/ PubkeyReturns(t) \/ Prepare(t) \/ SignReturns(t)
       \/ DetectReturns(t, "detect_sig", SIG) \/ DetectReturns(t, "detect_aut", AUT)
       \/ Interrupted(t)
  \/ /\ \/ \E p \in Procs : Step(p) \/ AnswerPrompt(p)
        \/ \E p \in Procs \ Tools : Call(p) \/ Kill(p)
        \/ World /\ UNCHANGED localVars
     /\ UNCHANGED toolVars

ToolSpec == ToolInit /\ [][ToolNext]_<<vars, toolVars>>

-----------------------------------------------------------------------------
(* Properties.                                                              *)

\* A tool is a client of the library: all it does to cards and sessions are
\* steps of the library's calls (main.rs run, the examples' mains).
ToolsUseLibrary == [][Next]_vars

\* Every account a tool prints is the one a card it opened has at that slot,
\* for a curve of the key's shape - across the three sessions of `list`, that
\* may meet different cards or none, and whatever a command failed for later
\* (main.rs run, examples/ethereum.rs, sol_surfpool.rs).
PrintsWhatIsThere ==
  \A t \in Tools : \A a \in shown[t] :
    /\ ReadsAs(a.key, a.curve)
    /\ \E c \in met[t] \cup ({from[t]} \ {None}) : a.key = Stored(c, a.applet, a.slot)

\* The key of a transaction and its signature come from two sessions.  Of the
\* Ethereum tool, the key that has signed is always the one whose address it has
\* printed, and a secp256k1 key.  Of the other tools it is the transaction's key
\* and of the chain's curve, unless the card was swapped in between, its
\* certificate is of another key than the slot's, or, with the Bitcoin tool, the
\* slot holds a P-256 key, whose point looks like a secp256k1 one (examples:
\* ethereum.rs, btc_sign.rs, sui_sign.rs, sol_surfpool.rs).
TransactionsAgree ==
  \A t \in Tools : made[t] # None =>
    LET d == command[t]
        a == d.account
        fits == made[t].key = pk[t] /\ CurveOf[pk[t]] = a.curve IN
    /\ made[t].msg = d.msg /\ outcome[t] = "done"
    /\ d.tool = "ethereum" => fits /\ ShownAs(d, pk[t]) \in shown[t]
    /\ \/ fits
       \/ Cardinality(met[t]) > 1
       \/ \E c \in met[t] : a.applet = "piv" /\ CertIn[c][a.slot] # KeyIn[c]["piv"][a.slot]
       \/ d.tool = "bitcoin" /\ CurveOf[pk[t]] = "p256"
=============================================================================
