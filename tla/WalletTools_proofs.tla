------------------------- MODULE WalletTools_proofs -------------------------
(***************************************************************************)
(* Theorems of WalletTools: a tool's commands use the library as any other *)
(* process does, and what they print and sign is what CardSession_proofs   *)
(* shows the library's calls to give, carried across their sessions.       *)
(***************************************************************************)
EXTENDS WalletTools, CardSession_proofs, FiniteSetTheorems

USE ToolAssumption

\* A tool past its first library call has a command it takes, and one at
\* "prepare" or "sign" has something to sign.
ToolShape ==
  /\ phase \in [Tools -> Phases]
  /\ command \in [Tools -> Commands \cup {None}]
  /\ \A t \in Tools :
       /\ phase[t] \in {"get_pubkey", "prepare", "sign"} =>
            command[t] \in Commands /\ Takes(command[t])
       /\ phase[t] \in {"prepare", "sign"} => command[t].msg # None

\* A tool starts at the shell.
LEMMA InitToolShape == ToolInit => ToolShape
  BY DEF ToolInit, ToolShape, Phases

\* The steps of a tool keep the shape.
LEMMA ToolStepShape ==
  ASSUME ToolShape, NEW t \in Tools,
         \/ Run(t) \/ ListReturns(t) \/ PubkeyReturns(t) \/ Prepare(t) \/ SignReturns(t)
         \/ DetectReturns(t, "detect_sig", SIG) \/ DetectReturns(t, "detect_aut", AUT)
         \/ Interrupted(t)
  PROVE  ToolShape'
<1>1. CASE Run(t)
  BY <1>1 DEF Run, ToolShape, Phases
<1>2. CASE PubkeyReturns(t)
  <2>1. /\ phase[t] = "get_pubkey" /\ UNCHANGED command
        /\ \/ phase' = [phase EXCEPT ![t] = "shell"]
           \/ phase' = [phase EXCEPT ![t] = "prepare"] /\ command[t].msg # None
    BY <1>2 DEF PubkeyReturns, Back, End
  <2> QED BY <2>1 DEF ToolShape, Phases
<1>3. CASE Prepare(t)
  <2>1. /\ phase[t] = "prepare" /\ UNCHANGED command
        /\ \E next \in {"sign", "shell"} : phase' = [phase EXCEPT ![t] = next]
    BY <1>3 DEF Prepare, Begin, End
  <2> QED BY <2>1 DEF ToolShape, Phases
<1>4. CASE ListReturns(t) \/ SignReturns(t) \/ Interrupted(t)
  <2>1. UNCHANGED command /\ phase' = [phase EXCEPT ![t] = "shell"]
    BY <1>4 DEF ListReturns, SignReturns, Interrupted, Back, End
  <2> QED BY <2>1 DEF ToolShape, Phases
<1>5. CASE DetectReturns(t, "detect_sig", SIG) \/ DetectReturns(t, "detect_aut", AUT)
  <2>1. /\ UNCHANGED command
        /\ \E next \in {"detect_aut", "list_piv"} : phase' = [phase EXCEPT ![t] = next]
    BY <1>5 DEF DetectReturns, Back, Begin
  <2> QED BY <2>1 DEF ToolShape, Phases
<1> QED BY <1>1, <1>2, <1>3, <1>4, <1>5

\* Every step keeps it.
LEMMA NextToolShape ==
  ASSUME ToolShape, [ToolNext]_<<vars, toolVars>>
  PROVE  ToolShape'
<1>1. CASE UNCHANGED toolVars
  BY <1>1 DEF toolVars, ToolShape
<1> QED BY <1>1, ToolStepShape DEF ToolNext

-----------------------------------------------------------------------------
(* Every step of a tool is a step of the library or leaves it alone.        *)

\* What a tool's step does to the sessions: nothing, a call of the library, or
\* the end of its own.
LEMMA ToolTouches ==
  ASSUME ToolShape, NEW t \in Tools,
         \/ Run(t) \/ ListReturns(t) \/ PubkeyReturns(t) \/ Prepare(t) \/ SignReturns(t)
         \/ DetectReturns(t, "detect_sig", SIG) \/ DetectReturns(t, "detect_aut", AUT)
         \/ Interrupted(t)
  PROVE  UNCHANGED vars \/ Call(t) \/ Kill(t)
<1>1. CASE Run(t)
  <2>1. PICK d \in Commands :
          IF ~Takes(d) THEN UNCHANGED vars
          ELSE CallFor(t, IF d.tool = "list" THEN Detect(SIG) ELSE PubkeyOf(d))
    BY <1>1 DEF Run
  <2>2. Takes(d) => (IF d.tool = "list" THEN Detect(SIG) ELSE PubkeyOf(d)) \in Requests
    OBVIOUS
  <2> QED BY <2>1, <2>2 DEF Call
<1>2. CASE ListReturns(t) \/ PubkeyReturns(t) \/ SignReturns(t)
  BY <1>2 DEF ListReturns, PubkeyReturns, SignReturns, End
<1>3. CASE Prepare(t)
  <2>1. SignatureOf(command[t]) \in Requests
    BY <1>3 DEF Prepare, ToolShape
  <2> QED BY <1>3, <2>1 DEF Prepare, Begin, End, Call
<1>4. CASE DetectReturns(t, "detect_sig", SIG) \/ DetectReturns(t, "detect_aut", AUT)
  <2>1. CallFor(t, Detect(AUT)) \/ CallFor(t, ListPiv)
    BY <1>4 DEF DetectReturns, Begin
  <2> QED BY <2>1 DEF Call
<1>5. CASE Interrupted(t)
  BY <1>5 DEF Interrupted
<1> QED BY <1>1, <1>2, <1>3, <1>4, <1>5

\* Every step of the system is a step of the library or a stutter.
LEMMA NextUsesLibrary ==
  ASSUME ToolShape, [ToolNext]_<<vars, toolVars>>
  PROVE  [Next]_vars
<1>1. CASE UNCHANGED vars
  BY <1>1
<1>2. ASSUME NEW t \in Tools, Call(t) \/ Kill(t) PROVE Next
  BY <1>2 DEF Next
<1> QED BY <1>1, <1>2, ToolTouches DEF ToolNext, Next

\* The tools implement the library's safety specification.
THEOREM ToolsRefineLibrary == ToolSpec => SafetySpec
<1>1. ToolInit => Init /\ ToolShape
  BY InitToolShape DEF ToolInit
<1>2. ToolShape /\ [ToolNext]_<<vars, toolVars>> => ToolShape' /\ [Next]_vars
  BY NextToolShape, NextUsesLibrary
<1> QED BY <1>1, <1>2, PTL DEF ToolSpec, SafetySpec

\* All a tool does to cards is done by the library's calls, one at a time.
THEOREM ToolsUseLibraryTheorem == ToolSpec => ToolsUseLibrary
  BY ToolsRefineLibrary, PTL DEF SafetySpec, ToolsUseLibrary

-----------------------------------------------------------------------------
(* The inductive invariant of a tool: the library call that runs, or has    *)
(* just returned, is the one its phase waits for, with its command's        *)
(* parameters; and the key it holds, and what it has printed, are from      *)
(* cards it has met.                                                        *)

PhaseFlow(t) ==
  /\ phase[t] \in {"shell", "prepare"} => pc[t] = "idle"
  /\ phase[t] = "detect_sig" => req[t] = Detect(SIG)
  /\ phase[t] = "detect_aut" => req[t] = Detect(AUT)
  /\ phase[t] = "list_piv" => req[t] = ListPiv
  /\ phase[t] = "get_pubkey" => req[t] = PubkeyOf(command[t])
  /\ phase[t] = "sign" => req[t] = SignatureOf(command[t])
  /\ phase[t] # "shell" => made[t] = None

Genuine(a, cards) ==
  ReadsAs(a.key, a.curve) /\ \E c \in cards : a.key = Stored(c, a.applet, a.slot)
ShownFlow(t) == \A a \in shown[t] : Genuine(a, met[t])

\* The key a transaction is built for: Ethereum's has been printed.
KeyFlow(t) ==
  phase[t] \in {"prepare", "sign"} =>
    LET d == command[t] IN
    /\ pk[t] \in Keys /\ Genuine(ShownAs(d, pk[t]), met[t])
    /\ d.tool = "ethereum" => ShownAs(d, pk[t]) \in shown[t]

\* TransactionsAgree, of one tool.
Agree(t) ==
  made[t] # None =>
    LET d == command[t]
        a == d.account
        fits == made[t].key = pk[t] /\ CurveOf[pk[t]] = a.curve IN
    /\ made[t].msg = d.msg /\ outcome[t] = "done"
    /\ d.tool = "ethereum" => fits /\ ShownAs(d, pk[t]) \in shown[t]
    /\ \/ fits
       \/ Cardinality(met[t]) > 1
       \/ \E c \in met[t] : a.applet = "piv" /\ CertIn[c][a.slot] # KeyIn[c]["piv"][a.slot]
       \/ d.tool = "bitcoin" /\ CurveOf[pk[t]] = "p256"

\* Cards need not be finite, but a command meets finitely many of them.
CommandInv(t) ==
  PhaseFlow(t) /\ ShownFlow(t) /\ KeyFlow(t) /\ Agree(t) /\ IsFiniteSet(met[t])

ToolInv == ToolTypeOK /\ ToolShape /\ \A t \in Tools : CommandInv(t)

-----------------------------------------------------------------------------
(* What a library call that has returned gives the tool.                    *)

\* A detection that succeeds has read the key in its slot of its own card.
LEMMA DetectGives ==
  ASSUME CallsInv, NEW t \in Procs, out[t] = "ok", NEW slot, req[t] = Detect(slot)
  PROVE  LET e == found[t][1] IN
         /\ from[t] \in Cards /\ e \in Entries /\ found[t] = <<e>>
         /\ e.key = Stored(from[t], "openpgp", slot) /\ ReadsAs(e.key, e.as)
  BY KeyAnswered DEF Detect

\* A listing that succeeds has read the certificates of its own card.
LEMMA ListGives ==
  ASSUME CallsInv, NEW t \in Procs, out[t] = "ok", req[t] = ListPiv
  PROVE  /\ from[t] \in Cards
         /\ \A i \in DOMAIN found[t] :
              /\ i \in DOMAIN PivSlots
              /\ found[t][i] # None =>
                   /\ found[t][i] \in Entries
                   /\ found[t][i].key = Stored(from[t], "piv", PivSlots[i])
                   /\ ReadsAs(found[t][i].key, "ed25519")
  BY ListAnswered DEF ListPiv

\* get_pubkey has read the key of the command's account on its own card.
LEMMA PubkeyGives ==
  ASSUME CallsInv, NEW t \in Procs, out[t] = "ok", NEW d, req[t] = PubkeyOf(d)
  PROVE  LET key == found[t][1].key
             a == d.account IN
         /\ from[t] \in Cards /\ key \in Keys
         /\ key = Stored(from[t], a.applet, a.slot) /\ ReadsAs(key, a.curve)
  BY KeyAnswered DEF PubkeyOf, Entries

\* sign has made its signature with the key in the account's slot.
LEMMA SignGives ==
  ASSUME CallsInv, NEW t \in Procs, out[t] = "ok", NEW d, req[t] = SignatureOf(d)
  PROVE  /\ from[t] \in Cards /\ sig[t] \in Signatures /\ sig[t].msg = d.msg
         /\ sig[t].key = KeyIn[from[t]][d.account.applet][d.account.slot]
  BY SignatureAnswered DEF SignatureOf, PubkeyOf

\* A command names an account of the library's types.
LEMMA CommandShape ==
  ASSUME NEW d \in Commands
  PROVE  d.account \in Account /\ d.msg \in Msgs \cup {None}
  BY DEF CommandType

-----------------------------------------------------------------------------
(* Every step keeps the types.                                              *)

\* Where a step goes: it ends the program or begins a call.
LEMMA MoveType ==
  ASSUME ToolTypeOK, NEW t \in Tools,
         \/ \E how \in {"done", "failed"} : End(t, how)
         \/ \E at \in Phases : \E r : Begin(t, at, r)
  PROVE  phase' \in [Tools -> Phases] /\ outcome' \in [Tools -> {"none", "done", "failed"}]
  BY DEF ToolTypeOK, End, Begin, Phases

\* The card a call has opened is one of the cards.
LEMMA BackType ==
  ASSUME TypeOK, ToolTypeOK, NEW t \in Tools, NEW at, Back(t, at)
  PROVE  met' \in [Tools -> SUBSET Cards] /\ command' = command
<1>1. from[t] \in Cards \cup {None}
  BY DEF TypeOK, CardTypeOK
<1> QED BY <1>1 DEF Back, ToolTypeOK

\* What a tool prints are accounts.
LEMMA ShowType ==
  ASSUME ToolTypeOK, NEW t \in Tools, NEW accs \in SUBSET Shown, Show(t, accs)
  PROVE  shown' \in [Tools -> SUBSET Shown]
  BY DEF Show, ToolTypeOK

\* What the commands show has the type of an account.
LEMMA ShownAsType ==
  ASSUME NEW d \in Commands, NEW key \in Keys
  PROVE  ShownAs(d, key) \in Shown
  BY CommandShape DEF ShownAs, Shown, Account

\* What a detection has found, as the listing prints it.
DetectedAt(t, slot) ==
  {[applet |-> "openpgp", slot |-> slot, curve |-> e.as, key |-> e.key] :
     e \in {found[t][i] : i \in {k \in {1} : out[t] = "ok"}}}

\* It is an account of that slot, on the card of the call, or nothing.
LEMMA DetectedShown ==
  ASSUME CallsInv, NEW t \in Procs, NEW slot \in Slots, req[t] = Detect(slot),
         NEW a \in DetectedAt(t, slot)
  PROVE  a \in Shown /\ from[t] \in Cards /\ Genuine(a, {from[t]})
<1>1. /\ out[t] = "ok"
      /\ a = [applet |-> "openpgp", slot |-> slot, curve |-> found[t][1].as,
              key |-> found[t][1].key]
  BY DEF DetectedAt
<1>2. /\ from[t] \in Cards /\ found[t][1] \in Entries
      /\ found[t][1].key = Stored(from[t], "openpgp", slot)
      /\ ReadsAs(found[t][1].key, found[t][1].as)
  BY <1>1, DetectGives
<1> QED BY <1>1, <1>2 DEF Genuine, Shown, Entries, Applets

\* What the listing of PIV prints are accounts of the slots it lists.
LEMMA PivShownGenuine ==
  ASSUME CallsInv, NEW t \in Procs, out[t] = "ok", req[t] = ListPiv, NEW a \in PivShown(t)
  PROVE  a \in Shown /\ from[t] \in Cards /\ Genuine(a, {from[t]})
<1>1. PICK i \in DOMAIN found[t] :
        /\ found[t][i] # None
        /\ a = [applet |-> "piv", slot |-> PivSlots[i], curve |-> "ed25519",
                key |-> found[t][i].key]
  BY DEF PivShown
<1>2. /\ from[t] \in Cards /\ i \in DOMAIN PivSlots /\ found[t][i] \in Entries
      /\ found[t][i].key = Stored(from[t], "piv", PivSlots[i])
      /\ ReadsAs(found[t][i].key, "ed25519")
  BY <1>1, ListGives
<1>3. PivSlots[i] \in Slots
  BY <1>2, SessionAssumption
<1> QED BY <1>1, <1>2, <1>3 DEF Genuine, Shown, Entries, Applets, Curves

\* The steps of a tool keep the types.
LEMMA ToolStepType ==
  ASSUME CallsInv, ToolTypeOK, ToolShape, NEW t \in Tools, PhaseFlow(t), KeyFlow(t),
         \/ Run(t) \/ ListReturns(t) \/ PubkeyReturns(t) \/ Prepare(t) \/ SignReturns(t)
         \/ DetectReturns(t, "detect_sig", SIG) \/ DetectReturns(t, "detect_aut", AUT)
         \/ Interrupted(t)
  PROVE  ToolTypeOK'
<1>1. TypeOK /\ t \in Procs
  BY DEF CallsInv, Inv, TypeInv
<1>2. CASE Run(t)
  BY <1>2 DEF Run, ToolTypeOK, Phases
<1>3. ASSUME NEW slot \in {SIG, AUT}, NEW at, DetectReturns(t, at, slot),
             req[t] = Detect(slot)
      PROVE  ToolTypeOK'
  <2>1. slot \in Slots
    BY DEF SIG, AUT, Slots
  <2>2. DetectedAt(t, slot) \subseteq Shown
    BY <1>1, <1>3, <2>1, DetectedShown
  <2>3. \E next \in Phases : \E r : Begin(t, next, r)
    BY <1>3 DEF DetectReturns, Phases
  <2>4. shown' \in [Tools -> SUBSET Shown]
    BY <1>3, <2>2, ShowType DEF DetectReturns, DetectedAt
  <2> QED BY <1>1, <1>3, <2>3, <2>4, BackType, MoveType DEF DetectReturns, ToolTypeOK
<1>4. CASE ListReturns(t)
  <2>1. shown' \in [Tools -> SUBSET Shown]
    <3>1. CASE out[t] = "ok"
      <4>1. PivShown(t) \subseteq Shown
        BY <1>1, <1>4, <3>1, PivShownGenuine DEF ListReturns, Back, PhaseFlow
      <4> QED BY <1>4, <3>1, <4>1, ShowType DEF ListReturns
    <3> QED BY <1>4, <3>1 DEF ListReturns, ToolTypeOK
  <2>2. \E how \in {"done", "failed"} : End(t, how)
    BY <1>4 DEF ListReturns
  <2> QED BY <1>1, <1>4, <2>1, <2>2, BackType, MoveType DEF ListReturns, ToolTypeOK
<1>5. CASE PubkeyReturns(t)
  <2>1. Back(t, "get_pubkey") /\ UNCHANGED made /\ command[t] \in Commands
    BY <1>5 DEF PubkeyReturns, Back, ToolShape
  <2>2. CASE out[t] # "ok"
    <3>1. End(t, "failed") /\ UNCHANGED <<pk, shown>>
      BY <1>5, <2>2 DEF PubkeyReturns
    <3> QED BY <1>1, <2>1, <3>1, BackType, MoveType DEF ToolTypeOK
  <2>3. CASE out[t] = "ok"
    <3> DEFINE key == found[t][1].key
    <3>1. key \in Keys
      BY <1>1, <2>1, <2>3, PubkeyGives DEF Back, PhaseFlow
    <3>2. pk' \in [Tools -> Keys \cup {None}]
      BY <1>5, <2>3, <3>1 DEF PubkeyReturns, ToolTypeOK
    <3>3. ShownAs(command[t], key) \in Shown
      BY <2>1, <3>1, ShownAsType
    <3>4. UNCHANGED shown \/ Show(t, {ShownAs(command[t], key)})
      BY <1>5, <2>3 DEF PubkeyReturns
    <3>5. shown' \in [Tools -> SUBSET Shown]
      BY <3>3, <3>4, ShowType DEF ToolTypeOK
    <3>6. phase' \in [Tools -> Phases] /\ outcome' \in [Tools -> {"none", "done", "failed"}]
      <4>1. End(t, "done") \/ (phase' = [phase EXCEPT ![t] = "prepare"] /\ UNCHANGED outcome)
        BY <1>5, <2>3 DEF PubkeyReturns
      <4> QED BY <4>1, MoveType DEF ToolTypeOK, Phases
    <3> QED BY <1>1, <2>1, <3>2, <3>5, <3>6, BackType DEF ToolTypeOK
  <2> QED BY <2>2, <2>3
<1>6. CASE Prepare(t)
  <2>1. (\E at \in Phases : \E r : Begin(t, at, r)) \/ \E how \in {"done", "failed"} : End(t, how)
    BY <1>6 DEF Prepare, Phases
  <2> QED BY <1>6, <2>1, MoveType DEF Prepare, ToolTypeOK
<1>7. CASE SignReturns(t)
  <2>1. Back(t, "sign") /\ UNCHANGED pk /\ command[t] \in Commands
    BY <1>7 DEF SignReturns, Back, ToolShape
  <2>2. \E how \in {"done", "failed"} : End(t, how)
    BY <1>7 DEF SignReturns
  <2>3. made' \in [Tools -> Signatures \cup {None}]
    <3>1. UNCHANGED made \/ made' = [made EXCEPT ![t] = sig[t]]
      BY <1>7 DEF SignReturns
    <3> QED BY <1>1, <3>1 DEF ToolTypeOK, TypeOK
  <2>4. shown' \in [Tools -> SUBSET Shown]
    <3>1. pk[t] \in Keys
      BY <1>7, <2>1 DEF KeyFlow, Back
    <3>2. UNCHANGED shown \/ Show(t, {ShownAs(command[t], pk[t])})
      BY <1>7 DEF SignReturns
    <3> QED BY <2>1, <3>1, <3>2, ShownAsType, ShowType DEF ToolTypeOK
  <2> QED BY <1>1, <2>1, <2>2, <2>3, <2>4, BackType, MoveType DEF ToolTypeOK
<1>8. CASE Interrupted(t)
  BY <1>8 DEF Interrupted, ToolTypeOK, Phases
<1> QED BY <1>2, <1>3, <1>4, <1>5, <1>6, <1>7, <1>8 DEF DetectReturns, Back, PhaseFlow

-----------------------------------------------------------------------------
(* The steps of a tool, one by one.                                         *)

ToolLocal(t) == <<phase[t], command[t], shown[t], pk[t], outcome[t], made[t], met[t]>>

\* What the invariant of a command depends on: the tool's own variables, the
\* request of its call, and no call running where none has to.
LEMMA CommandKept ==
  ASSUME NEW t, CommandInv(t), ToolLocal(t)' = ToolLocal(t), req'[t] = req[t],
         pc[t] = "idle" => pc'[t] = "idle"
  PROVE  CommandInv(t)'
<1>1. /\ phase'[t] = phase[t] /\ command'[t] = command[t] /\ shown'[t] = shown[t]
      /\ pk'[t] = pk[t] /\ outcome'[t] = outcome[t] /\ made'[t] = made[t] /\ met'[t] = met[t]
  BY DEF ToolLocal
<1>2. PhaseFlow(t)'
  BY <1>1 DEF CommandInv, PhaseFlow
<1>3. ShownFlow(t)' /\ KeyFlow(t)'
  BY <1>1 DEF CommandInv, ShownFlow, KeyFlow
<1>4. Agree(t)' /\ IsFiniteSet(met'[t])
  BY <1>1 DEF CommandInv, Agree
<1> QED BY <1>2, <1>3, <1>4 DEF CommandInv

\* The cards met so far stay among those met, with the one just opened.
LEMMA BackMeets ==
  ASSUME ToolTypeOK, NEW t \in Tools, NEW at, Back(t, at), IsFiniteSet(met[t])
  PROVE  /\ met[t] \subseteq met'[t] /\ IsFiniteSet(met'[t])
         /\ from[t] \in Cards => from[t] \in met'[t]
<1>1. met'[t] = met[t] \cup ({from[t]} \ {None})
  BY DEF Back, ToolTypeOK
<1>2. IsFiniteSet({from[t]} \ {None})
  <2>1. IsFiniteSet({from[t]})
    BY FS_Singleton
  <2> QED BY <2>1, FS_Subset
<1>3. IsFiniteSet(met[t] \cup ({from[t]} \ {None}))
  BY ONLY <1>2, IsFiniteSet(met[t]), FS_Union
<1> QED BY <1>1, <1>3, CardAssumption

\* What was genuine of some cards is so of more.
LEMMA GenuineOfMore ==
  ASSUME NEW more, NEW cards \in SUBSET more, NEW a, Genuine(a, cards)
  PROVE  Genuine(a, more)
  BY DEF Genuine

\* What is printed next to what was printed is genuine with it.
LEMMA ShowsGenuine ==
  ASSUME ToolTypeOK, NEW t \in Tools, ShownFlow(t), met[t] \subseteq met'[t],
         NEW accs, UNCHANGED shown \/ Show(t, accs),
         \A a \in accs : Genuine(a, met'[t])
  PROVE  ShownFlow(t)' /\ shown[t] \subseteq shown'[t]
         /\ (Show(t, accs) => accs \subseteq shown'[t])
<1>1. shown'[t] \in {shown[t], shown[t] \cup accs} /\ shown[t] \subseteq shown'[t]
      /\ (Show(t, accs) => accs \subseteq shown'[t])
  BY DEF Show, ToolTypeOK
<1>2. \A a \in shown[t] : Genuine(a, met'[t])
  BY GenuineOfMore DEF ShownFlow
<1> QED BY <1>1, <1>2 DEF ShownFlow

\* A tool that has begun a call waits for it in the phase it has moved to.
LEMMA BegunFlow ==
  ASSUME ToolTypeOK, TypeOK, NEW t \in Tools, NEW at, NEW r, Begin(t, at, r)
  PROVE  phase'[t] = at /\ req'[t] = r
  BY DEF Begin, CallFor, ToolTypeOK, TypeOK

\* A program that has ended is at the shell.
LEMMA EndedFlow ==
  ASSUME ToolTypeOK, NEW t \in Tools, NEW how, End(t, how)
  PROVE  phase'[t] = "shell" /\ outcome'[t] = how /\ pc' = pc
  BY DEF End, ToolTypeOK, vars, localVars, progressVars

\* It has no signature to account for, unless it has just put one into a
\* transaction.
LEMMA QuietEnd ==
  ASSUME ToolTypeOK, NEW t \in Tools, CommandInv(t), phase[t] # "shell", pc[t] = "idle",
         NEW how, End(t, how), UNCHANGED made, ShownFlow(t)', IsFiniteSet(met'[t])
  PROVE  CommandInv(t)'
<1>1. phase'[t] = "shell" /\ pc'[t] = "idle" /\ made'[t] = None
  BY EndedFlow DEF CommandInv, PhaseFlow
<1> QED BY <1>1 DEF CommandInv, PhaseFlow, KeyFlow, Agree

\* A command that runs has nothing yet, and begins its first call or fails.
LEMMA RunStep ==
  ASSUME ToolTypeOK, TypeOK, NEW t \in Tools, CommandInv(t), Run(t)
  PROVE  CommandInv(t)'
<1>1. PICK d \in Commands :
        /\ command' = [command EXCEPT ![t] = d]
        /\ phase' = [phase EXCEPT ![t] = IF ~Takes(d) THEN "shell"
                                         ELSE IF d.tool = "list" THEN "detect_sig"
                                         ELSE "get_pubkey"]
        /\ IF ~Takes(d) THEN UNCHANGED vars
           ELSE CallFor(t, IF d.tool = "list" THEN Detect(SIG) ELSE PubkeyOf(d))
  BY DEF Run
<1>2. /\ command'[t] = d /\ shown'[t] = {} /\ made'[t] = None /\ met'[t] = {}
      /\ phase'[t] = IF ~Takes(d) THEN "shell"
                     ELSE IF d.tool = "list" THEN "detect_sig" ELSE "get_pubkey"
  BY <1>1 DEF Run, ToolTypeOK
<1>3. CASE ~Takes(d)
  <2>1. pc'[t] = "idle"
    BY <1>1, <1>3 DEF Run, CommandInv, PhaseFlow, vars, localVars, progressVars
  <2> QED BY <1>2, <1>3, <2>1, FS_EmptySet DEF CommandInv, PhaseFlow, ShownFlow, KeyFlow, Agree
<1>4. CASE Takes(d)
  <2>1. req'[t] = IF d.tool = "list" THEN Detect(SIG) ELSE PubkeyOf(d)
    BY <1>1, <1>4 DEF CallFor, TypeOK
  <2> QED BY <1>2, <1>4, <2>1, FS_EmptySet DEF CommandInv, PhaseFlow, ShownFlow, KeyFlow, Agree
<1> QED BY <1>3, <1>4

\* A detection adds the account of its own slot, from the card it opened.
LEMMA DetectStep ==
  ASSUME CallsInv, ToolTypeOK, TypeOK, NEW t \in Tools, CommandInv(t),
         NEW slot \in {SIG, AUT}, NEW at, DetectReturns(t, at, slot),
         req[t] = Detect(slot), at # "shell"
  PROVE  CommandInv(t)'
<1>1. /\ Back(t, at) /\ UNCHANGED made /\ Show(t, DetectedAt(t, slot)) /\ phase[t] = at
  BY DEF DetectReturns, DetectedAt, Back
<1>2. met[t] \subseteq met'[t] /\ IsFiniteSet(met'[t]) /\ (from[t] \in Cards => from[t] \in met'[t])
  BY <1>1, BackMeets DEF CommandInv
<1>3. \A a \in DetectedAt(t, slot) : Genuine(a, met'[t])
  <2>1. slot \in Slots /\ t \in Procs
    BY DEF SIG, AUT, Slots
  <2> QED BY <1>2, <2>1, DetectedShown, GenuineOfMore, ZenonT(30)
<1>4. ShownFlow(t)'
  BY <1>1, <1>2, <1>3, ShowsGenuine DEF CommandInv
<1>5. \/ phase'[t] = "detect_aut" /\ req'[t] = Detect(AUT)
      \/ phase'[t] = "list_piv" /\ req'[t] = ListPiv
  BY BegunFlow DEF DetectReturns
<1>6. made'[t] = None
  BY <1>1 DEF CommandInv, PhaseFlow
<1>7. PhaseFlow(t)' /\ KeyFlow(t)' /\ Agree(t)'
  BY <1>5, <1>6 DEF PhaseFlow, KeyFlow, Agree
<1> QED BY <1>2, <1>4, <1>7 DEF CommandInv

\* The PIV slots come last.
LEMMA ListStep ==
  ASSUME CallsInv, ToolTypeOK, NEW t \in Tools, CommandInv(t), ListReturns(t)
  PROVE  CommandInv(t)'
<1>1. Back(t, "list_piv") /\ UNCHANGED made /\ phase[t] = "list_piv" /\ pc[t] = "idle"
      /\ req[t] = ListPiv
  BY DEF ListReturns, Back, CommandInv, PhaseFlow
<1>2. met[t] \subseteq met'[t] /\ IsFiniteSet(met'[t]) /\ (from[t] \in Cards => from[t] \in met'[t])
  BY <1>1, BackMeets DEF CommandInv
<1>3. ShownFlow(t)'
  <2>1. CASE out[t] = "ok"
    <3>1. \A a \in PivShown(t) : from[t] \in Cards /\ Genuine(a, {from[t]})
      BY <1>1, <2>1, PivShownGenuine
    <3>2. \A a \in PivShown(t) : Genuine(a, met'[t])
      BY <1>2, <3>1 DEF Genuine
    <3> QED BY <1>2, <2>1, <3>2, ShowsGenuine DEF ListReturns, CommandInv
  <2>2. CASE out[t] # "ok"
    <3>1. shown' = shown
      BY <2>2 DEF ListReturns
    <3> QED BY <1>2, <3>1, GenuineOfMore DEF CommandInv, ShownFlow
  <2> QED BY <2>1, <2>2
<1>4. \E how : End(t, how)
  BY DEF ListReturns
<1> QED BY <1>1, <1>2, <1>3, <1>4, QuietEnd

\* get_pubkey has given the key the transaction is for, or the address of
\* which is printed; or the program fails.
LEMMA PubkeyStep ==
  ASSUME CallsInv, ToolTypeOK, ToolShape, NEW t \in Tools, CommandInv(t), PubkeyReturns(t)
  PROVE  CommandInv(t)'
<1> DEFINE d   == command[t]
           key == found[t][1].key
<1>1. /\ Back(t, "get_pubkey") /\ UNCHANGED <<made, command>> /\ phase[t] = "get_pubkey"
      /\ pc[t] = "idle" /\ req[t] = PubkeyOf(d) /\ made[t] = None
  BY DEF PubkeyReturns, Back, CommandInv, PhaseFlow
<1>2. met[t] \subseteq met'[t] /\ IsFiniteSet(met'[t]) /\ (from[t] \in Cards => from[t] \in met'[t])
  BY <1>1, BackMeets DEF CommandInv
<1>3. CASE out[t] # "ok"
  <2>1. shown' = shown /\ End(t, "failed")
    BY <1>3 DEF PubkeyReturns
  <2>2. ShownFlow(t)'
    BY <1>2, <2>1, GenuineOfMore DEF CommandInv, ShownFlow
  <2> QED BY <1>1, <1>2, <2>1, <2>2, QuietEnd
<1>4. CASE out[t] = "ok"
  <2>1. key \in Keys /\ Genuine(ShownAs(d, key), met'[t])
    BY <1>1, <1>2, <1>4, PubkeyGives DEF Genuine, ShownAs
  <2>2. /\ IF d.msg = None \/ d.tool = "ethereum" THEN Show(t, {ShownAs(d, key)})
           ELSE UNCHANGED shown
        /\ pk'[t] = key
    BY <1>4 DEF PubkeyReturns, ToolTypeOK
  <2>3. /\ ShownFlow(t)'
        /\ d.tool = "ethereum" => ShownAs(d, key) \in shown'[t]
    BY <1>2, <2>1, <2>2, ShowsGenuine DEF CommandInv
  <2>4. CASE End(t, "done")
    BY <1>1, <1>2, <2>3, <2>4, QuietEnd
  <2>5. CASE phase' = [phase EXCEPT ![t] = "prepare"] /\ UNCHANGED vars
    <3>1. phase'[t] = "prepare" /\ pc'[t] = "idle" /\ made'[t] = None /\ command'[t] = d
      BY <1>1, <2>5 DEF ToolTypeOK, vars, localVars, progressVars
    <3>2. PhaseFlow(t)' /\ Agree(t)'
      BY <3>1 DEF PhaseFlow, Agree
    <3>3. KeyFlow(t)'
      BY <2>1, <2>2, <2>3, <3>1 DEF KeyFlow, ShownAs
    <3> QED BY <1>2, <2>3, <3>2, <3>3 DEF CommandInv
  <2> QED BY <1>4, <2>4, <2>5 DEF PubkeyReturns
<1> QED BY <1>3, <1>4

\* A transaction is ready to be signed for the key in the tool's hands, or
\* there is none.
LEMMA PrepareStep ==
  ASSUME ToolTypeOK, TypeOK, NEW t \in Tools, CommandInv(t), Prepare(t)
  PROVE  CommandInv(t)'
<1>1. /\ UNCHANGED <<command, shown, pk, made, met>> /\ phase[t] = "prepare"
      /\ pc[t] = "idle" /\ made[t] = None
  BY DEF Prepare, CommandInv, PhaseFlow
<1>2. ShownFlow(t)' /\ IsFiniteSet(met'[t])
  BY <1>1 DEF CommandInv, ShownFlow
<1>3. CASE End(t, "failed")
  BY <1>1, <1>2, <1>3, QuietEnd
<1>4. CASE Begin(t, "sign", SignatureOf(command[t]))
  <2>1. phase'[t] = "sign" /\ req'[t] = SignatureOf(command[t])
    BY <1>4, BegunFlow
  <2>2. PhaseFlow(t)' /\ Agree(t)'
    BY <1>1, <2>1 DEF PhaseFlow, Agree
  <2>3. KeyFlow(t)'
    BY <1>1, <2>1 DEF CommandInv, KeyFlow
  <2> QED BY <1>2, <2>2, <2>3 DEF CommandInv
<1> QED BY <1>3, <1>4 DEF Prepare

\* Two sets of cards met with different cards in them are more than one card.
LEMMA TwoCards ==
  ASSUME NEW S, IsFiniteSet(S), NEW c \in S, NEW e \in S, c # e
  PROVE  Cardinality(S) > 1
<1>1. IsFiniteSet({c}) /\ Cardinality({c}) = 1
  BY FS_Singleton
<1>2. Cardinality({c} \cup {e}) = 2
  <2>1. Cardinality({c} \cup {e}) = IF e \in {c} THEN Cardinality({c}) ELSE Cardinality({c}) + 1
    BY ONLY <1>1, FS_AddElement
  <2> QED BY <1>1, <2>1
<1>3. {c} \cup {e} \in SUBSET S
  OBVIOUS
<1>4. Cardinality({c} \cup {e}) <= Cardinality(S) /\ Cardinality(S) \in Nat
  BY <1>3, FS_Subset, FS_CardinalityType
<1> QED BY <1>2, <1>4

\* The key of a transaction and the key that has signed it are one, unless two
\* cards were met or a certificate is not its slot's.
LEMMA KeysAgree ==
  ASSUME CallsInv, ToolShape, NEW t \in Tools, CommandInv(t), phase[t] = "sign",
         out[t] = "ok", NEW more, met[t] \subseteq more, from[t] \in more, IsFiniteSet(more)
  PROVE  LET a == command[t].account IN
         \/ sig[t].key = pk[t]
         \/ Cardinality(more) > 1
         \/ \E c \in more : a.applet = "piv" /\ CertIn[c][a.slot] # KeyIn[c]["piv"][a.slot]
<1> DEFINE a == command[t].account
<1>1. req[t] = SignatureOf(command[t]) /\ t \in Procs
  BY DEF CommandInv, PhaseFlow
<1>2. sig[t].key = KeyIn[from[t]][a.applet][a.slot]
  BY <1>1, SignGives
<1>3. PICK c \in met[t] : pk[t] = Stored(c, a.applet, a.slot)
  BY DEF CommandInv, KeyFlow, Genuine, ShownAs
<1>4. a.applet \in {"openpgp", "piv"}
  BY CommandShape DEF ToolShape, Account, Applets
<1>5. CASE c # from[t]
  <2>1. Cardinality(more) > 1
    BY <1>5, TwoCards
  <2> QED BY <2>1
<1>6. CASE c = from[t]
  BY <1>2, <1>3, <1>4, <1>6 DEF Stored
<1> QED BY <1>5, <1>6

\* The key a transaction is built for is of the account's curve, but that a
\* P-256 key passes for secp256k1; and such an account is one of the Ethereum or
\* the Bitcoin tool.
LEMMA CurveFits ==
  ASSUME ToolShape, NEW t \in Tools, CommandInv(t), phase[t] = "sign", pc[t] = "idle",
         out[t] = "ok", command[t].tool # "ethereum"
  PROVE  \/ CurveOf[pk[t]] = command[t].account.curve
         \/ command[t].tool = "bitcoin" /\ CurveOf[pk[t]] = "p256"
<1> DEFINE d == command[t]
<1>1. ReadsAs(pk[t], d.account.curve)
  BY DEF CommandInv, KeyFlow, Genuine, ShownAs
<1>2. /\ d \in Commands /\ Takes(d) /\ d.msg # None
  BY DEF ToolShape
<1>3. d.tool \in {"bitcoin", "sui", "solana"}
  <2>1. d.tool \in {"list", "address"} \cup Chains
    BY <1>2 DEF CommandType
  <2>2. d.tool \notin {"list", "address"}
    BY <1>2, ToolAssumption
  <2> QED BY <2>1, <2>2 DEF Chains
<1>4. CASE d.tool = "bitcoin"
  BY <1>1, <1>2, <1>4 DEF Takes, ReadsAs
<1>5. CASE d.tool \in {"sui", "solana"}
  BY <1>1, <1>2, <1>5 DEF Takes, ReadsAs
<1> QED BY <1>3, <1>4, <1>5

\* The signature goes into the transaction if the tool takes it.
LEMMA SignStep ==
  ASSUME CallsInv, ToolTypeOK, ToolShape, NEW t \in Tools, CommandInv(t), SignReturns(t)
  PROVE  CommandInv(t)'
<1> DEFINE d == command[t]
<1>1. /\ Back(t, "sign") /\ UNCHANGED <<pk, command>> /\ phase[t] = "sign"
      /\ pc[t] = "idle" /\ req[t] = SignatureOf(d) /\ made[t] = None
  BY DEF SignReturns, Back, CommandInv, PhaseFlow
<1>2. met[t] \subseteq met'[t] /\ IsFiniteSet(met'[t]) /\ (from[t] \in Cards => from[t] \in met'[t])
  BY <1>1, BackMeets DEF CommandInv
<1>3. CASE End(t, "failed") /\ UNCHANGED <<made, shown>>
  <2>1. ShownFlow(t)'
    BY <1>2, <1>3, GenuineOfMore DEF CommandInv, ShownFlow
  <2> QED BY <1>1, <1>2, <1>3, <2>1, QuietEnd
<1>4. CASE /\ out[t] = "ok" /\ TRUE \in Accepts(t) /\ made' = [made EXCEPT ![t] = sig[t]]
           /\ UNCHANGED shown \/ Show(t, {ShownAs(d, pk[t])})
           /\ End(t, "done")
  <2>1. /\ phase'[t] = "shell" /\ outcome'[t] = "done" /\ pc'[t] = "idle"
        /\ made'[t] = sig[t] /\ command'[t] = d /\ pk'[t] = pk[t]
    BY <1>1, <1>4, EndedFlow DEF ToolTypeOK
  <2>2. from[t] \in Cards /\ sig[t].msg = d.msg
    BY <1>1, <1>4, SignGives
  <2>3. Genuine(ShownAs(d, pk[t]), met'[t]) /\ (d.tool = "ethereum" => ShownAs(d, pk[t]) \in shown[t])
    BY <1>1, <1>2, GenuineOfMore DEF CommandInv, KeyFlow
  <2>4. ShownFlow(t)' /\ shown[t] \subseteq shown'[t]
    <3>1. ShownFlow(t)
      BY DEF CommandInv
    <3>2. CASE shown' = shown
      BY <1>2, <3>1, <3>2, GenuineOfMore DEF ShownFlow
    <3>3. CASE Show(t, {ShownAs(d, pk[t])})
      <4>1. \A a \in {ShownAs(d, pk[t])} : Genuine(a, met'[t])
        BY <2>3
      <4> HIDE DEF d
      <4> QED BY <1>2, <3>1, <3>3, <4>1, ShowsGenuine
    <3> QED BY <1>4, <3>2, <3>3
  <2>5. d.tool = "ethereum" => sig[t].key = pk[t] /\ CurveOf[pk[t]] = d.account.curve
    <3> SUFFICES ASSUME d.tool = "ethereum"
                 PROVE  sig[t].key = pk[t] /\ CurveOf[pk[t]] = d.account.curve
      OBVIOUS
    <3>1. CurveOf[pk[t]] = "secp256k1" /\ sig[t].key = pk[t]
      BY <1>4 DEF Accepts
    <3>2. d.account.curve = "secp256k1"
      BY <1>1 DEF ToolShape, Takes
    <3> QED BY <3>1, <3>2
  <2>6. LET a == d.account IN
        \/ sig[t].key = pk[t] /\ CurveOf[pk[t]] = a.curve
        \/ Cardinality(met'[t]) > 1
        \/ \E c \in met'[t] : a.applet = "piv" /\ CertIn[c][a.slot] # KeyIn[c]["piv"][a.slot]
        \/ d.tool = "bitcoin" /\ CurveOf[pk[t]] = "p256"
    <3>1. CASE d.tool = "ethereum"
      BY <2>5, <3>1
    <3>2. CASE d.tool # "ethereum"
      <4>1. \/ CurveOf[pk[t]] = d.account.curve
            \/ d.tool = "bitcoin" /\ CurveOf[pk[t]] = "p256"
        BY <1>1, <1>4, <3>2, CurveFits
      <4>2. LET a == d.account IN
            \/ sig[t].key = pk[t]
            \/ Cardinality(met'[t]) > 1
            \/ \E c \in met'[t] : a.applet = "piv" /\ CertIn[c][a.slot] # KeyIn[c]["piv"][a.slot]
        BY <1>1, <1>2, <1>4, <2>2, KeysAgree
      <4> QED BY <4>1, <4>2
    <3> QED BY <3>1, <3>2
  <2>7. Agree(t)'
    BY <2>1, <2>2, <2>3, <2>4, <2>5, <2>6 DEF Agree, ShownAs
  <2>8. PhaseFlow(t)' /\ KeyFlow(t)'
    BY <2>1 DEF PhaseFlow, KeyFlow
  <2> QED BY <1>2, <2>4, <2>7, <2>8 DEF CommandInv
<1> QED BY <1>3, <1>4 DEF SignReturns

\* Ctrl-C leaves what was printed, and no transaction.
LEMMA InterruptStep ==
  ASSUME ToolTypeOK, TypeOK, NEW t \in Tools, CommandInv(t), Interrupted(t)
  PROVE  CommandInv(t)'
<1>1. /\ UNCHANGED <<command, shown, pk, made, met>> /\ phase[t] # "shell"
      /\ phase'[t] = "shell"
  BY DEF Interrupted, ToolTypeOK
<1>2. pc'[t] = "idle"
  BY DEF Interrupted, Kill, TypeOK, vars, localVars, progressVars
<1>3. made'[t] = None /\ ShownFlow(t)' /\ IsFiniteSet(met'[t])
  BY <1>1 DEF CommandInv, PhaseFlow, ShownFlow
<1> QED BY <1>1, <1>2, <1>3 DEF CommandInv, PhaseFlow, KeyFlow, Agree

-----------------------------------------------------------------------------
(* The theorems about commands.                                             *)

\* A step of a tool changes nothing that another's command depends on.
LEMMA OtherToolsKept ==
  ASSUME ToolShape, ToolTypeOK, TypeOK, NEW t \in Tools, NEW u \in Tools \ {t},
         \/ Run(t) \/ ListReturns(t) \/ PubkeyReturns(t) \/ Prepare(t) \/ SignReturns(t)
         \/ DetectReturns(t, "detect_sig", SIG) \/ DetectReturns(t, "detect_aut", AUT)
         \/ Interrupted(t)
  PROVE  ToolLocal(u)' = ToolLocal(u) /\ req'[u] = req[u] /\ pc'[u] = pc[u]
<1>1. req'[u] = req[u] /\ pc'[u] = pc[u]
  <2>1. CASE UNCHANGED vars
    BY <2>1 DEF vars, localVars, progressVars, callVars
  <2>2. CASE Call(t) \/ Kill(t)
    BY <2>2, OthersKept DEF LocalOf
  <2> QED BY <2>1, <2>2, ToolTouches
<1>2. phase'[u] = phase[u] /\ outcome'[u] = outcome[u]
  <2>1. CASE (\E how : End(t, how)) \/ \E at, r : Begin(t, at, r)
    BY <2>1 DEF End, Begin, ToolTypeOK
  <2>2. CASE Run(t) \/ Interrupted(t)
    BY <2>2 DEF Run, Interrupted, ToolTypeOK
  <2>3. CASE PubkeyReturns(t)
    <3>1. CASE phase' = [phase EXCEPT ![t] = "prepare"] /\ UNCHANGED outcome
      BY <3>1 DEF ToolTypeOK
    <3> QED BY <2>1, <2>3, <3>1 DEF PubkeyReturns
  <2> QED BY <2>1, <2>2, <2>3 DEF DetectReturns, ListReturns, Prepare, SignReturns
<1>3. /\ command'[u] = command[u] /\ pk'[u] = pk[u] /\ made'[u] = made[u] /\ met'[u] = met[u]
  BY DEF Run, DetectReturns, ListReturns, PubkeyReturns, Prepare, SignReturns, Interrupted, Back,
     ToolTypeOK
<1>4. shown'[u] = shown[u]
  BY DEF Run, DetectReturns, ListReturns, PubkeyReturns, Prepare, SignReturns, Interrupted, Show,
     ToolTypeOK
<1> QED BY <1>1, <1>2, <1>3, <1>4 DEF ToolLocal

\* A step of a call, or of the world, changes nothing a command depends on but
\* the step the call is at, and starts no call of a tool.
LEMMA StepKeepsCommands ==
  ASSUME TypeOK, NEW t \in Tools,
         \/ \E p \in Procs : Step(p) \/ AnswerPrompt(p)
         \/ \E p \in Procs \ Tools : Call(p) \/ Kill(p)
         \/ World /\ UNCHANGED localVars
  PROVE  req'[t] = req[t] /\ (pc[t] = "idle" => pc'[t] = "idle")
<1>1. CASE World /\ UNCHANGED localVars
  BY <1>1 DEF localVars, progressVars, callVars
<1>2. ASSUME NEW p \in Procs \ {t}, Call(p) \/ Step(p) \/ AnswerPrompt(p) \/ Kill(p)
      PROVE  req'[t] = req[t] /\ pc'[t] = pc[t]
  BY <1>2, OthersKept DEF LocalOf
<1>3. ASSUME Step(t) \/ AnswerPrompt(t)
      PROVE  req'[t] = req[t] /\ pc[t] # "idle"
  <2>1. pc[t] # "idle"
    BY <1>3 DEF Step, AnswerPrompt, Connect, Select, Read, Scan, ResolvePin, SendVerify, SendSign,
       Drop
  <2>2. UNCHANGED req
    BY <1>3 DEF Step, AnswerPrompt, Connect, Select, Read, Scan, ResolvePin, SendVerify, SendSign,
       Drop, callVars
  <2> QED BY <2>1, <2>2
<1> QED BY <1>1, <1>2, <1>3

\* It holds when the user sits down at the terminal.
LEMMA InitToolInv == ToolInit => ToolInv
<1>1. ToolInit => ToolTypeOK
  BY DEF ToolInit, ToolTypeOK, Phases
<1>2. ASSUME ToolInit, NEW t \in Tools PROVE CommandInv(t)
  BY <1>2, FS_EmptySet DEF ToolInit, Init, CommandInv, PhaseFlow, ShownFlow, KeyFlow, Agree
<1> QED BY <1>1, <1>2, InitToolShape DEF ToolInv

\* A step of a tool keeps it.
LEMMA ToolStepInv ==
  ASSUME CallsInv, ToolInv, ToolShape', NEW t \in Tools,
         \/ Run(t) \/ ListReturns(t) \/ PubkeyReturns(t) \/ Prepare(t) \/ SignReturns(t)
         \/ DetectReturns(t, "detect_sig", SIG) \/ DetectReturns(t, "detect_aut", AUT)
         \/ Interrupted(t)
  PROVE  ToolInv'
<1>1. ToolTypeOK /\ ToolShape /\ TypeOK /\ CommandInv(t) /\ PhaseFlow(t) /\ KeyFlow(t)
  BY DEF ToolInv, CallsInv, Inv, TypeInv, CommandInv
<1>2. ToolTypeOK'
  BY <1>1, ToolStepType
<1>3. CommandInv(t)'
  <2>1. CASE DetectReturns(t, "detect_sig", SIG) \/ DetectReturns(t, "detect_aut", AUT)
    BY <1>1, <2>1, DetectStep DEF DetectReturns, Back, PhaseFlow
  <2> QED BY <1>1, <2>1, RunStep, ListStep, PubkeyStep, PrepareStep, SignStep, InterruptStep
<1>4. ASSUME NEW u \in Tools \ {t} PROVE CommandInv(u)'
  BY <1>1, <1>4, OtherToolsKept, CommandKept DEF ToolInv
<1> QED BY <1>2, <1>3, <1>4 DEF ToolInv

\* So does a step that no tool takes.
LEMMA LibraryStepToolInv ==
  ASSUME CallsInv, ToolInv, ToolShape', UNCHANGED toolVars,
         \/ \E p \in Procs : Step(p) \/ AnswerPrompt(p)
         \/ \E p \in Procs \ Tools : Call(p) \/ Kill(p)
         \/ World /\ UNCHANGED localVars
         \/ UNCHANGED vars
  PROVE  ToolInv'
<1>1. TypeOK /\ ToolTypeOK'
  BY DEF ToolInv, ToolTypeOK, toolVars, CallsInv, Inv, TypeInv
<1>2. ASSUME NEW t \in Tools PROVE CommandInv(t)'
  <2>1. ToolLocal(t)' = ToolLocal(t)
    BY DEF ToolLocal, toolVars
  <2>2. req'[t] = req[t] /\ (pc[t] = "idle" => pc'[t] = "idle")
    BY <1>1, StepKeepsCommands DEF vars, localVars, progressVars, callVars
  <2> QED BY <2>1, <2>2, CommandKept DEF ToolInv
<1> QED BY <1>1, <1>2 DEF ToolInv

\* ToolInv is an invariant of the tools, whatever the other processes do.
THEOREM ToolInvariance == ToolSpec => []ToolInv
<1>1. ToolInv /\ CallsInv /\ [ToolNext]_<<vars, toolVars>> => ToolInv'
  <2> SUFFICES ASSUME ToolInv, CallsInv, [ToolNext]_<<vars, toolVars>> PROVE ToolInv'
    OBVIOUS
  <2>1. ToolShape'
    BY NextToolShape DEF ToolInv
  <2> QED BY <2>1, ToolStepInv, LibraryStepToolInv DEF ToolNext
<1> QED BY <1>1, InitToolInv, ToolsRefineLibrary, AnswerInvariance, PTL DEF ToolSpec

\* Every variable of every tool has its type.
THEOREM ToolTypeCorrect == ToolSpec => []ToolTypeOK
<1>1. ToolInv => ToolTypeOK
  BY DEF ToolInv
<1> QED BY <1>1, ToolInvariance, PTL

\* Every account a tool prints is that of its slot on a card it has opened.
THEOREM PrintsWhatIsThereTheorem == ToolSpec => []PrintsWhatIsThere
<1>1. ToolInv => PrintsWhatIsThere
  BY DEF ToolInv, CommandInv, ShownFlow, Genuine, PrintsWhatIsThere
<1> QED BY <1>1, ToolInvariance, PTL

\* The key of a transaction is the one that has signed it, unless the card was
\* swapped or its certificate is of another key; and the Ethereum tool's always.
THEOREM TransactionsAgreeTheorem == ToolSpec => []TransactionsAgree
<1>1. ToolInv => TransactionsAgree
  BY DEF ToolInv, CommandInv, Agree, TransactionsAgree
<1> QED BY <1>1, ToolInvariance, PTL

\* The sessions of the tools, like all others, read keys from their own card.
THEOREM ToolsFoundOnOwnCard == ToolSpec => []FoundOnOwnCard
<1>1. Inv => FoundOnOwnCard
  BY DEF Inv, CallInv, FoundOnOwnCard
<1> QED BY <1>1, ToolsRefineLibrary, Invariance, PTL

=============================================================================
