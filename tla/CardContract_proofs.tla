------------------------- MODULE CardContract_proofs -------------------------
(***************************************************************************)
(* The sessions of CardSession implement WalletContract, the library's     *)
(* promise to its callers: every step of a session maps to a step of the   *)
(* contract or to none, whatever other processes, scdaemon and the user's  *)
(* hand do to the card in between.                                         *)
(***************************************************************************)
EXTENDS CardSession_proofs, SequenceTheorems

USE CardAssumption, SessionAssumption

(* What the mapping needs besides CallsInv: a call meets its card once, has  *)
(* proved no PIN before VERIFY, and sends one only if it was given one.      *)

CallLog(p) ==
  /\ pc[p] = "connect" => from[p] = None
  /\ pc[p] \in {"connect", "select", "read", "scan", "pin", "verify"} => proved[p] = {}
  /\ pc[p] \in {"verify", "sign"} \/ sig[p] # None => pin[p] # Prompt

\* It depends on LocalOf only.
LEMMA LogKept ==
  ASSUME NEW p, CallLog(p), LocalOf(p)' = LocalOf(p)
  PROVE  CallLog(p)'
<1>1. /\ pc'[p] = pc[p] /\ from'[p] = from[p] /\ proved'[p] = proved[p]
      /\ sig'[p] = sig[p] /\ pin'[p] = pin[p]
  BY DEF LocalOf
<1> QED BY <1>1 DEF CallLog

\* A call begins with no card, no PIN proved and no signature; and connects.
LEMMA BeginLog ==
  ASSUME TypeInv, NEW p \in Procs, CallLog(p), Call(p) \/ Connect(p)
  PROVE  CallLog(p)'
<1>1. CASE Call(p)
  <2>1. pc'[p] \in {"idle", "connect"} /\ from'[p] = None /\ proved'[p] = {} /\ sig'[p] = None
    BY <1>1 DEF Call, CallFor, TypeInv, TypeOK, CardTypeOK
  <2> QED BY <2>1 DEF CallLog
<1>2. CASE Connect(p)
  <2>1. /\ pc[p] = "connect" /\ pc'[p] \in {"select", "idle"}
        /\ UNCHANGED <<pin, sig, proved>>
    BY <1>2 DEF Connect, Goto, TypeInv, TypeOK, callVars, resultVars, historyVars
  <2> QED BY <2>1 DEF CallLog
<1> QED BY <1>1, <1>2

\* A command of a session, up to VERIFY, proves nothing; and a PIN goes to
\* VERIFY once there is one.
LEMMA SessionLog ==
  ASSUME TypeInv, NEW p \in Procs, CallLog(p),
         Select(p) \/ Read(p) \/ Scan(p) \/ ResolvePin(p) \/ AnswerPrompt(p)
  PROVE  CallLog(p)'
<1>1. /\ pc[p] \in {"select", "read", "scan", "pin"} /\ UNCHANGED <<proved, sig>>
      /\ proved[p] = {}
  BY DEF Select, Read, Scan, ResolvePin, AnswerPrompt, resultVars, historyVars, CallLog
<1>2. CASE Select(p) \/ Read(p) \/ Scan(p)
  <2>1. UNCHANGED pin /\ pc'[p] \in {"scan", "read", "pin", "drop"}
    BY <1>2 DEF Select, AfterSelect, Read, Scan, NotServed, AnswerLost, Goto, Leave, callVars,
       TypeInv, TypeOK
  <2> QED BY <1>1, <2>1 DEF CallLog
<1>3. CASE ResolvePin(p) \/ AnswerPrompt(p)
  <2>1. \/ pc'[p] = "verify" /\ pin'[p] # Prompt
        \/ pc'[p] = "drop" /\ (pin[p] # Prompt => pin'[p] # Prompt)
    BY <1>3 DEF ResolvePin, AnswerPrompt, TakePin, Goto, Leave, TypeInv, TypeOK
  <2> QED BY <1>1, <2>1 DEF CallLog
<1> QED BY <1>2, <1>3

\* From VERIFY on there is a PIN; the end of a call keeps it.
LEMMA PinLog ==
  ASSUME TypeInv, NEW p \in Procs, CallLog(p),
         SendVerify(p) \/ SendSign(p) \/ Drop(p) \/ Kill(p)
  PROVE  CallLog(p)'
<1>1. CASE SendVerify(p)
  <2>1. pc[p] = "verify" /\ UNCHANGED <<pin, sig>> /\ pc'[p] \in {"sign", "drop"}
    BY <1>1 DEF SendVerify, PinAccepted, PinRejected, AnswerLost, NotServed, Goto, Leave,
       callVars, resultVars, TypeInv, TypeOK
  <2> QED BY <2>1 DEF CallLog
<1>2. CASE SendSign(p)
  <2>1. pc[p] = "sign" /\ UNCHANGED pin /\ pc'[p] = "drop"
    BY <1>2 DEF SendSign, AnswerLost, NotServed, Leave, callVars, TypeInv, TypeOK
  <2> QED BY <2>1 DEF CallLog
<1>3. CASE Drop(p) \/ Kill(p)
  <2>1. pc'[p] = "idle" /\ UNCHANGED pin /\ sig'[p] \in {None, sig[p]}
    BY <1>3 DEF Drop, Kill, callVars, resultVars, TypeInv, TypeOK
  <2> QED BY <2>1 DEF CallLog
<1> QED BY <1>1, <1>2, <1>3

ContractInv == CallsInv /\ \A p \in Procs : CallLog(p)

\* The calls of every process have such a log.
THEOREM ContractInvariance == SafetySpec => []ContractInv
<1>1. Init /\ CallsInv => ContractInv
  BY DEF Init, CallLog, ContractInv
<1>2. ContractInv /\ [Next]_vars => \A q \in Procs : CallLog(q)'
  <2> SUFFICES ASSUME ContractInv, [Next]_vars PROVE \A q \in Procs : CallLog(q)'
    OBVIOUS
  <2>1. TypeInv /\ TypeOK /\ \A p \in Procs : CallLog(p)
    BY DEF ContractInv, CallsInv, Inv, TypeInv
  <2>2. CASE (World /\ UNCHANGED localVars) \/ UNCHANGED vars
    BY <2>1, <2>2, WorldKeepsCalls, LogKept
  <2>3. ASSUME NEW p \in Procs, Call(p) \/ Step(p) \/ AnswerPrompt(p) \/ Kill(p)
        PROVE  \A q \in Procs : CallLog(q)'
    <3>1. CallLog(p)'
      BY <2>1, <2>3, BeginLog, SessionLog, PinLog DEF Step
    <3>2. \A q \in Procs \ {p} : CallLog(q)'
      BY <2>1, <2>3, OthersKept, LogKept
    <3> QED BY <3>1, <3>2
  <2> QED BY <2>2, <2>3 DEF Next
<1>3. ContractInv /\ CallsInv' /\ [Next]_vars => ContractInv'
  BY <1>2 DEF ContractInv
<1> QED BY <1>1, <1>3, AnswerInvariance, PTL DEF SafetySpec

-----------------------------------------------------------------------------
(* What the contract sees of the sessions.                                  *)

Busy      == {p \in Procs : pc[p] # "idle"}
Verdicts  == [p \in Procs |-> VerdictOf(p)]
AnswersOf == [p \in Procs |-> AnswerOf(p)]

\* A step of p leaves the other calls alone.
OthersStand(p) == \A q \in Procs \ {p} : LocalOf(q)' = LocalOf(q)

\* Of a call that does not move it sees no change.
LEMMA SeenKept ==
  ASSUME NEW q, LocalOf(q)' = LocalOf(q)
  PROVE  /\ pc'[q] = pc[q] /\ req'[q] = req[q] /\ pin'[q] = pin[q] /\ from'[q] = from[q]
         /\ VerdictOf(q)' = VerdictOf(q) /\ AnswerOf(q)' = AnswerOf(q)
<1>1. /\ pc'[q] = pc[q] /\ out'[q] = out[q] /\ req'[q] = req[q] /\ pin'[q] = pin[q]
      /\ found'[q] = found[q] /\ sig'[q] = sig[q] /\ proved'[q] = proved[q]
      /\ spent'[q] = spent[q] /\ from'[q] = from[q]
  BY DEF LocalOf
<1> QED BY <1>1 DEF VerdictOf, AnswerOf

\* So a step of one call changes the contract's variables at one place.
LEMMA OneMoves ==
  ASSUME TypeOK, TypeOK', NEW p \in Procs, OthersStand(p)
  PROVE  /\ Busy' = IF pc'[p] = "idle" THEN Busy \ {p} ELSE Busy \cup {p}
         /\ req' = [req EXCEPT ![p] = req'[p]]
         /\ pin' = [pin EXCEPT ![p] = pin'[p]]
         /\ from' = [from EXCEPT ![p] = from'[p]]
         /\ Verdicts' = [Verdicts EXCEPT ![p] = VerdictOf(p)']
         /\ AnswersOf' = [AnswersOf EXCEPT ![p] = AnswerOf(p)']
<1>1. \A q \in Procs \ {p} :
        /\ pc'[q] = pc[q] /\ req'[q] = req[q] /\ pin'[q] = pin[q] /\ from'[q] = from[q]
        /\ VerdictOf(q)' = VerdictOf(q) /\ AnswerOf(q)' = AnswerOf(q)
  BY SeenKept DEF OthersStand
<1>2. Busy' = IF pc'[p] = "idle" THEN Busy \ {p} ELSE Busy \cup {p}
  BY <1>1 DEF Busy
<1>3. /\ req' = [req EXCEPT ![p] = req'[p]]
      /\ pin' = [pin EXCEPT ![p] = pin'[p]]
      /\ from' = [from EXCEPT ![p] = from'[p]]
  BY <1>1 DEF TypeOK, CardTypeOK
<1>4. Verdicts' = [Verdicts EXCEPT ![p] = VerdictOf(p)']
  BY <1>1 DEF Verdicts
<1>5. AnswersOf' = [AnswersOf EXCEPT ![p] = AnswerOf(p)']
  BY <1>1 DEF AnswersOf
<1> QED BY <1>2, <1>3, <1>4, <1>5

\* A step of a call that neither begins nor ends it, gives no PIN, meets no
\* card and has none judged is not seen.
LEMMA Unseen ==
  ASSUME TypeOK, TypeOK', NEW p \in Procs, OthersStand(p),
         pc[p] # "idle", pc'[p] # "idle", req'[p] = req[p], pin'[p] = pin[p],
         from'[p] = from[p], proved'[p] = proved[p], spent'[p] = spent[p], UNCHANGED tries
  PROVE  UNCHANGED Contract!contractVars
<1>1. VerdictOf(p)' = VerdictOf(p) /\ AnswerOf(p)' = AnswerOf(p)
  BY DEF VerdictOf, AnswerOf
<1>2. /\ Busy' = Busy \cup {p}
      /\ req' = [req EXCEPT ![p] = req[p]]
      /\ pin' = [pin EXCEPT ![p] = pin[p]]
      /\ from' = [from EXCEPT ![p] = from[p]]
      /\ Verdicts' = [Verdicts EXCEPT ![p] = VerdictOf(p)]
      /\ AnswersOf' = [AnswersOf EXCEPT ![p] = AnswerOf(p)]
  BY <1>1, OneMoves
<1>3. Busy' = Busy
  BY <1>2 DEF Busy
<1>4. req' = req /\ pin' = pin
  BY <1>2 DEF TypeOK
<1>5. from' = from
  BY <1>2 DEF TypeOK, CardTypeOK
<1>6. Verdicts' = Verdicts /\ AnswersOf' = AnswersOf
  BY <1>2 DEF Verdicts, AnswersOf
<1> QED BY <1>3, <1>4, <1>5, <1>6 DEF Contract!contractVars, Busy, Verdicts, AnswersOf

\* The call begins with the contract's Ask.
LEMMA CallAsks ==
  ASSUME TypeOK, TypeOK', NEW p \in Procs, OthersStand(p),
         Call(p)
  PROVE  Contract!Next
<1>1. PICK r \in Requests : CallFor(p, r)
  BY DEF Call
<1>2. /\ pc[p] = "idle" /\ req'[p] = r /\ pin'[p] = r.pin /\ from'[p] = None
      /\ proved'[p] = {} /\ spent'[p] = [c \in Cards |-> 0]
      /\ \/ pc'[p] = "idle" /\ out'[p] = "unsupported"
         \/ pc'[p] # "idle"
      /\ UNCHANGED tries
  BY <1>1 DEF CallFor, TypeOK, CardTypeOK, cardVars
<1>3. VerdictOf(p)' = "none" /\ AnswerOf(p)' = None
  BY <1>2 DEF VerdictOf, AnswerOf
<1>4. p \notin Busy /\ Busy' \in {Busy, Busy \cup {p}}
  BY <1>2, OneMoves DEF Busy
<1>5. Contract!Ask(p, r)
  BY <1>2, <1>3, <1>4, OneMoves DEF Contract!Ask, Busy, Verdicts, AnswersOf
<1> QED BY <1>5 DEF Contract!Next

\* A call that ends gives one of the contract's answers, or none.
LEMMA EndReturns ==
  ASSUME TypeOK, TypeOK', NEW p \in Procs, OthersStand(p),
         pc[p] # "idle", pc'[p] = "idle", req'[p] = req[p], pin'[p] = pin[p],
         from'[p] = from[p], proved'[p] = proved[p], spent'[p] = spent[p], UNCHANGED tries,
         AnswerOf(p)' # None => from[p] \in Cards /\ AnswerOf(p)' \in Contract!Answers(p, from[p])
  PROVE  Contract!Next
<1>1. VerdictOf(p)' = VerdictOf(p)
  BY DEF VerdictOf
<1>2. /\ p \in Busy /\ Busy' = Busy \ {p}
      /\ req' = [req EXCEPT ![p] = req[p]]
      /\ pin' = [pin EXCEPT ![p] = pin[p]]
      /\ from' = [from EXCEPT ![p] = from[p]]
      /\ Verdicts' = [Verdicts EXCEPT ![p] = VerdictOf(p)]
      /\ AnswersOf' = [AnswersOf EXCEPT ![p] = AnswerOf(p)']
  BY <1>1, OneMoves DEF Busy
<1>3. req' = req /\ pin' = pin
  BY <1>2 DEF TypeOK
<1>4. from' = from
  BY <1>2 DEF TypeOK, CardTypeOK
<1>5. Verdicts' = Verdicts
  BY <1>2 DEF Verdicts
<1>6. AnswerOf(p)' \in
        {None} \cup UNION {Contract!Answers(p, c) : c \in {from[p]} \ {None}}
  OBVIOUS
<1>7. AnswersOf' \in
        {[AnswersOf EXCEPT ![p] = a] :
           a \in {None} \cup UNION {Contract!Answers(p, c) : c \in {from[p]} \ {None}}}
  BY <1>2, <1>6
<1>8. p \in Busy /\ Busy' = Busy \ {p} /\ UNCHANGED <<req, pin, from, Verdicts, tries>>
  BY <1>2, <1>3, <1>4, <1>5
<1>9. Contract!Return(p)
  BY <1>7, <1>8, Zenon DEF Contract!Return, Busy, Verdicts, AnswersOf
<1> QED BY <1>9 DEF Contract!Next

\* Connecting is the meeting with the card, or the end of the call.
LEMMA ConnectMeets ==
  ASSUME ContractInv, TypeOK', NEW p \in Procs, OthersStand(p), Connect(p)
  PROVE  Contract!Next
<1>1. /\ TypeOK /\ pc[p] = "connect" /\ from[p] = None
      /\ req'[p] = req[p] /\ pin'[p] = pin[p]
      /\ proved'[p] = proved[p] /\ spent'[p] = spent[p] /\ UNCHANGED tries
  BY DEF ContractInv, CallsInv, Inv, TypeInv, CallLog, Connect, OpenHandle, callVars,
     historyVars, worldVars, cardVars
<1>2. CASE pc'[p] = "select" /\ from'[p] = first /\ first \in Cards
  <2>1. VerdictOf(p)' = VerdictOf(p) /\ AnswerOf(p)' = AnswerOf(p)
    BY <1>1, <1>2 DEF VerdictOf, AnswerOf
  <2>2. /\ p \in Busy /\ Busy' = Busy \cup {p}
        /\ req' = [req EXCEPT ![p] = req[p]]
        /\ pin' = [pin EXCEPT ![p] = pin[p]]
        /\ from' = [from EXCEPT ![p] = first]
        /\ Verdicts' = [Verdicts EXCEPT ![p] = VerdictOf(p)]
        /\ AnswersOf' = [AnswersOf EXCEPT ![p] = AnswerOf(p)]
    BY <1>1, <1>2, <2>1, OneMoves DEF Busy
  <2>3. Busy' = Busy
    BY <2>2
  <2>4. req' = req /\ pin' = pin
    BY <1>1, <2>2 DEF TypeOK
  <2>5. Verdicts' = Verdicts /\ AnswersOf' = AnswersOf
    BY <2>2 DEF Verdicts, AnswersOf
  <2>6. Contract!Meet(p, first)
    BY <1>1, <2>2, <2>3, <2>4, <2>5 DEF Contract!Meet, Busy, Verdicts, AnswersOf
  <2> QED BY <1>2, <2>6 DEF Contract!Next
<1>3. CASE pc'[p] = "idle" /\ from'[p] = from[p] /\ out'[p] # "ok"
  <2>1. AnswerOf(p)' = None
    BY <1>3 DEF AnswerOf
  <2> QED BY <1>1, <1>3, <2>1, EndReturns
<1>4. \/ pc'[p] = "select" /\ from'[p] = first /\ first \in Cards
      \/ pc'[p] = "idle" /\ from'[p] = from[p] /\ out'[p] # "ok"
  BY <1>1 DEF Connect, OpenHandle, CanConnect, Goto, worldVars, busVars, TypeOK, CardTypeOK
<1> QED BY <1>2, <1>3, <1>4

\* The commands of a session but VERIFY show the caller nothing before the end.
LEMMA CommandUnseen ==
  ASSUME ContractInv, TypeOK', NEW p \in Procs, OthersStand(p),
         Select(p) \/ Read(p) \/ Scan(p) \/ ResolvePin(p) \/ SendSign(p)
  PROVE  UNCHANGED Contract!contractVars
<1>1. TypeOK
  BY DEF ContractInv, CallsInv, Inv, TypeInv
<1>2. pc[p] # "idle" /\ UNCHANGED <<req, from, historyVars, tries>>
  BY DEF Select, Read, Scan, ResolvePin, SendSign, SelectApplet, UsePin, callVars, worldVars,
     busVars, cardVars
<1>3. pc'[p] # "idle"
  BY <1>1 DEF Select, AfterSelect, Read, Scan, ResolvePin, TakePin, SendSign, AnswerLost,
     NotServed, Goto, Leave, TypeOK
<1>4. pin'[p] = pin[p]
  BY <1>1 DEF Select, Read, Scan, ResolvePin, TakePin, SendSign, callVars, TypeOK
<1> QED BY <1>1, <1>2, <1>3, <1>4, Unseen DEF historyVars

\* The user's answer at the prompt is the contract's Give, or is not seen.
LEMMA PromptGives ==
  ASSUME ContractInv, TypeOK', NEW p \in Procs, OthersStand(p), AnswerPrompt(p)
  PROVE  Contract!Next \/ UNCHANGED Contract!contractVars
<1>1. TypeOK /\ pc[p] = "pin" /\ pin[p] = Prompt /\ req[p].op = "sign"
  BY DEF ContractInv, CallsInv, Inv, TypeInv, CallInv, PinFlow, AnswerPrompt
<1>2. /\ pc'[p] # "idle" /\ req'[p] = req[p] /\ from'[p] = from[p]
      /\ proved'[p] = proved[p] /\ spent'[p] = spent[p] /\ UNCHANGED tries
  BY <1>1 DEF AnswerPrompt, TakePin, Goto, Leave, worldVars, busVars, cardVars, historyVars,
     TypeOK
<1>3. CASE pin'[p] = pin[p]
  BY <1>1, <1>2, <1>3, Unseen
<1>4. ASSUME NEW x \in Pins, pin'[p] = x PROVE Contract!Next
  <2>1. VerdictOf(p)' = VerdictOf(p) /\ AnswerOf(p)' = AnswerOf(p)
    BY <1>1, <1>2 DEF VerdictOf, AnswerOf
  <2>2. /\ p \in Busy /\ Busy' = Busy \cup {p}
        /\ req' = [req EXCEPT ![p] = req[p]]
        /\ pin' = [pin EXCEPT ![p] = x]
        /\ from' = [from EXCEPT ![p] = from[p]]
        /\ Verdicts' = [Verdicts EXCEPT ![p] = VerdictOf(p)]
        /\ AnswersOf' = [AnswersOf EXCEPT ![p] = AnswerOf(p)]
    BY <1>1, <1>2, <1>4, <2>1, OneMoves DEF Busy
  <2>3. Busy' = Busy
    BY <2>2
  <2>4. req' = req /\ from' = from
    BY <1>1, <2>2 DEF TypeOK, CardTypeOK
  <2>5. Verdicts' = Verdicts /\ AnswersOf' = AnswersOf
    BY <2>2 DEF Verdicts, AnswersOf
  <2>6. Contract!Give(p, x)
    BY <1>1, <1>2, <2>2, <2>3, <2>4, <2>5 DEF Contract!Give, Busy, Verdicts, AnswersOf
  <2> QED BY <2>6 DEF Contract!Next
<1>5. pin'[p] = pin[p] \/ \E x \in Pins : pin'[p] = x
  BY <1>1 DEF AnswerPrompt, TakePin, TypeOK
<1> QED BY <1>3, <1>4, <1>5

\* VERIFY is the contract's one judgement of the PIN, when it gets to the card.
LEMMA VerifyJudges ==
  ASSUME ContractInv, TypeOK', NEW p \in Procs, OthersStand(p), SendVerify(p)
  PROVE  Contract!Next \/ UNCHANGED Contract!contractVars
<1> DEFINE c == from[p]
           a == req[p].applet
           ref == RefOf(req[p])
           right == pin[p] = PinOf[c][a]
<1>1. /\ TypeOK /\ pc[p] = "verify" /\ proved[p] = {} /\ pin[p] # Prompt
      /\ req[p].op = "sign" /\ \A d \in Cards : spent[p][d] = 0
      /\ c \in Cards /\ a \in Applets
  BY InSession DEF ContractInv, CallsInv, Inv, TypeInv, CallLog, CallInv, PinFlow, SendVerify
<1>2. /\ req'[p] = req[p] /\ pin'[p] = pin[p] /\ from'[p] = from[p] /\ pc'[p] # "idle"
  BY <1>1 DEF SendVerify, PinAccepted, PinRejected, AnswerLost, NotServed, Goto, Leave,
     callVars, busVars, TypeOK
<1>3. CASE UNCHANGED <<cardVars, historyVars>>
  BY <1>1, <1>2, <1>3, Unseen DEF cardVars, historyVars
<1>4. CASE /\ tries[c][a] > 0
           /\ \/ /\ right /\ AcceptPin(p, c, a, ref) /\ UNCHANGED spent
                 /\ proved' = [proved EXCEPT ![p] = @ \cup {<<c, ref>>}]
              \/ /\ ~right /\ RejectPin(c, a, ref) /\ UNCHANGED proved
                 /\ spent' = [spent EXCEPT ![p][c] = @ + 1]
  <2>1. VerdictOf(p) = "none" /\ AnswerOf(p) = None /\ AnswerOf(p)' = None
    BY <1>1, <1>2 DEF VerdictOf, AnswerOf
  <2>2. VerdictOf(p)' = IF right THEN "right" ELSE "wrong"
    <3>1. CASE right
      <4>1. proved'[p] = proved[p] \cup {<<c, ref>>}
        BY <1>4, <3>1, <1>1 DEF TypeOK
      <4> QED BY <3>1, <4>1 DEF VerdictOf
    <3>2. CASE ~right
      <4>1. proved'[p] = {} /\ spent'[p][c] = 0 + 1
        BY <1>1, <1>4, <3>2 DEF TypeOK
      <4> QED BY <1>1, <3>2, <4>1 DEF VerdictOf
    <3> QED BY <3>1, <3>2
  <2>3. tries' = [tries EXCEPT ![c][a] = IF right THEN MaxTries ELSE @ - 1]
    BY <1>4 DEF AcceptPin, RejectPin
  <2>4. /\ p \in Busy /\ Busy' = Busy \cup {p}
        /\ req' = [req EXCEPT ![p] = req[p]]
        /\ pin' = [pin EXCEPT ![p] = pin[p]]
        /\ from' = [from EXCEPT ![p] = from[p]]
        /\ Verdicts' = [Verdicts EXCEPT ![p] = VerdictOf(p)']
        /\ AnswersOf' = [AnswersOf EXCEPT ![p] = AnswerOf(p)]
    BY <1>1, <1>2, <2>1, OneMoves DEF Busy
  <2>5. Busy' = Busy
    BY <2>4
  <2>6. req' = req /\ pin' = pin
    BY <1>1, <2>4 DEF TypeOK
  <2>7. from' = from
    BY <1>1, <2>4 DEF TypeOK, CardTypeOK
  <2>8. AnswersOf' = AnswersOf
    BY <2>4 DEF AnswersOf
  <2>9. Verdicts[p] = "none" /\ Verdicts' = [Verdicts EXCEPT ![p] = IF right THEN "right" ELSE "wrong"]
    BY <2>1, <2>2, <2>4 DEF Verdicts
  <2>10. Contract!Judge(p, c)
    BY <1>1, <1>4, <2>3, <2>4, <2>5, <2>6, <2>7, <2>8, <2>9
    DEF Contract!Judge, Busy, Verdicts, AnswersOf
  <2> QED BY <1>1, <2>10 DEF Contract!Next
<1>5. \/ UNCHANGED <<cardVars, historyVars>>
      \/ /\ tries[c][a] > 0
         /\ \/ /\ right /\ AcceptPin(p, c, a, ref) /\ UNCHANGED spent
               /\ proved' = [proved EXCEPT ![p] = @ \cup {<<c, ref>>}]
            \/ /\ ~right /\ RejectPin(c, a, ref) /\ UNCHANGED proved
               /\ spent' = [spent EXCEPT ![p][c] = @ + 1]
  BY DEF SendVerify, PinListens
<1> QED BY <1>3, <1>4, <1>5

-----------------------------------------------------------------------------
(* The end of a call: what it has found is an answer of the contract.       *)

\* A sign call's answer.
LEMMA SignatureIsAnswer ==
  ASSUME ContractInv, NEW p \in Procs, out[p] = "ok", req[p].op = "sign"
  PROVE  [keys |-> found[p], sig |-> sig[p]] \in Contract!Answers(p, from[p])
<1> DEFINE r == req[p]
           k == KeyIn[from[p]][r.applet][r.slot]
<1>1. /\ TypeOK /\ Complete(p) /\ SignedProperly(p) /\ CallLog(p)
  BY DEF ContractInv, CallsInv, Inv, TypeInv, CallInv, AnswerFlow
<1>2. found[p] = << >> /\ sig[p] # None /\ sig[p] \in Signatures
  BY <1>1 DEF Complete, TypeOK
<1>3. sig[p] = [key |-> k, msg |-> r.msg] /\ pin[p] # Prompt
  BY <1>1, <1>2 DEF SignedProperly, Signatures, CallLog
<1>4. \/ Verdicts[p] = "right"
      \/ r.applet = "openpgp" /\ PinLen[pin[p]] = 0
  BY <1>1, <1>2 DEF SignedProperly, Verdicts, VerdictOf, PinBlank
<1>5. [keys |-> found[p], sig |-> sig[p]] \in Contract!SignatureAnswers(r, from[p], p)
  BY <1>2, <1>3, <1>4 DEF Contract!SignatureAnswers, Verdicts
<1> QED BY <1>5 DEF Contract!Answers

\* The answer of get_pubkey and detect_account.
LEMMA KeyIsAnswer ==
  ASSUME ContractInv, NEW p \in Procs, out[p] = "ok",
         req[p].op \in {"get_pubkey", "detect_account"}
  PROVE  [keys |-> found[p], sig |-> sig[p]] \in Contract!Answers(p, from[p])
<1> DEFINE r == req[p]
           e == found[p][1]
           curves == IF r.op = "detect_account" THEN Curves ELSE {r.curve}
           as(curve) == [key |-> IF r.applet = "piv" THEN CertIn[from[p]][r.slot]
                                 ELSE KeyIn[from[p]]["openpgp"][r.slot], as |-> curve]
<1>1. /\ e \in Entries /\ found[p] = <<e>> /\ sig[p] = None
      /\ e.key = Stored(from[p], r.applet, r.slot) /\ (r.op = "get_pubkey" => e.as = r.curve)
  BY KeyAnswered DEF ContractInv
<1>2. e = as(e.as) /\ e.as \in curves
  BY <1>1 DEF Entries, Stored
<1>3. /\ [keys |-> found[p], sig |-> sig[p]] = Contract!Entries(<<as(e.as)>>)
      /\ Contract!Entries(<<as(e.as)>>) \in {Contract!Entries(<<as(curve)>>) : curve \in curves}
  BY <1>1, <1>2 DEF Contract!Entries
<1>4. [keys |-> found[p], sig |-> sig[p]] \in Contract!KeyAnswers(r, from[p])
  BY <1>3, Zenon DEF Contract!KeyAnswers, Contract!Curves, Curves
<1> QED BY <1>4 DEF Contract!Answers

\* The answer of list_accounts.
LEMMA ListIsAnswer ==
  ASSUME ContractInv, NEW p \in Procs, pc[p] # "idle", out[p] = "ok",
         req[p].op = "list_accounts"
  PROVE  [keys |-> found[p], sig |-> sig[p]] \in Contract!Answers(p, from[p])
<1> DEFINE cert(i) == CertIn[from[p]][PivSlots[i]]
           read == {i \in DOMAIN PivSlots : found[p][i] # None}
           listing == [i \in DOMAIN PivSlots |->
                         IF i \in read THEN [key |-> cert(i), as |-> "ed25519"] ELSE None]
<1>1. req[p].applet = "piv"
  BY DEF ContractInv, CallsInv, Inv, TypeInv, SessionShape, RequestType
<1>2. /\ sig[p] = None /\ found[p] \in Seq(Entries \cup {None})
      /\ DOMAIN found[p] = DOMAIN PivSlots
      /\ \A i \in read : /\ found[p][i] \in Entries /\ found[p][i].as = "ed25519"
                         /\ found[p][i].key = Stored(from[p], "piv", PivSlots[i])
  BY <1>1, ListAnswered DEF ContractInv
<1>3. found[p] = [i \in DOMAIN PivSlots |-> found[p][i]]
  <2>1. found[p] \in [DOMAIN found[p] -> Entries \cup {None}]
    BY <1>2, LenProperties
  <2> QED BY <1>2, <2>1
<1>4. \A i \in read :
        found[p][i] = [key |-> cert(i), as |-> "ed25519"] /\ cert(i) # None
  BY <1>2 DEF Entries, Stored
<1>5. found[p] = listing
  <2>1. \A i \in DOMAIN PivSlots : found[p][i] = listing[i]
    BY <1>4
  <2> HIDE DEF listing
  <2>2. listing = [i \in DOMAIN PivSlots |-> listing[i]]
    BY DEF listing
  <2> QED BY <1>3, <2>1, <2>2
<1>6. read \in SUBSET {i \in DOMAIN PivSlots : CertIn[from[p]][PivSlots[i]] # None}
  BY <1>4
<1>7. [keys |-> found[p], sig |-> sig[p]] \in Contract!ListAnswers(from[p])
  BY <1>2, <1>5, <1>6 DEF Contract!ListAnswers, Contract!Entries
<1> QED BY <1>7 DEF Contract!Answers

\* Drop is the contract's Return, and so is the death of the process.
LEMMA CallReturnsAnswer ==
  ASSUME ContractInv, TypeOK', NEW p \in Procs, OthersStand(p), Drop(p) \/ Kill(p)
  PROVE  Contract!Next
<1>1. TypeOK /\ AnswerFlow(p)
  BY DEF ContractInv, CallsInv, Inv, TypeInv
<1>2. /\ pc[p] # "idle" /\ pc'[p] = "idle" /\ UNCHANGED <<callVars, historyVars, from, tries>>
  BY <1>1 DEF Drop, Kill, CloseHandle, ReapHandle, ResetBy, LeaveBy, cardVars, TypeOK
<1>3. AnswerOf(p)' # None =>
        from[p] \in Cards /\ AnswerOf(p)' \in Contract!Answers(p, from[p])
  <2>1. CASE Kill(p)
    BY <1>1, <2>1 DEF Kill, AnswerOf, TypeOK
  <2>2. CASE Drop(p)
    <3>1. UNCHANGED <<out, found, sig>>
      BY <2>2 DEF Drop, resultVars
    <3>2. SUFFICES ASSUME out[p] = "ok"
                   PROVE  /\ from[p] \in Cards
                          /\ [keys |-> found[p], sig |-> sig[p]] \in Contract!Answers(p, from[p])
      BY <1>2, <3>1 DEF AnswerOf
    <3>3. from[p] \in Cards
      BY <1>1, <3>2 DEF AnswerFlow, Complete
    <3>4. req[p].op \in Ops
      BY <1>1, <1>2 DEF ContractInv, CallsInv, Inv, TypeInv, SessionShape, RequestType
    <3> QED BY <1>2, <3>2, <3>3, <3>4, SignatureIsAnswer, KeyIsAnswer, ListIsAnswer DEF Ops
  <2> QED BY <2>1, <2>2
<1> QED BY <1>1, <1>2, <1>3, EndReturns DEF callVars, historyVars

-----------------------------------------------------------------------------
(* The refinement.                                                          *)

\* Plugging, pulling and scdaemon are not seen.
LEMMA WorldUnseen ==
  ASSUME (World /\ UNCHANGED localVars) \/ UNCHANGED vars
  PROVE  UNCHANGED Contract!contractVars
<1>1. UNCHANGED <<pc, out, req, pin, found, sig, proved, spent, from, tries>>
  BY DEF World, Plug, Unplug, ScdaemonOpens, ScdaemonCloses, vars, worldVars, busVars, cardVars,
     localVars, progressVars, callVars, resultVars, historyVars
<1> QED BY <1>1 DEF Contract!contractVars, VerdictOf, AnswerOf

\* Every step of the sessions is a step of the contract, or is not seen.
LEMMA NextKeepsContract ==
  ASSUME ContractInv, TypeOK', [Next]_vars
  PROVE  [Contract!Next]_(Contract!contractVars)
<1>1. TypeOK
  BY DEF ContractInv, CallsInv, Inv, TypeInv
<1>2. CASE (World /\ UNCHANGED localVars) \/ UNCHANGED vars
  BY <1>2, WorldUnseen
<1>3. ASSUME NEW p \in Procs, Call(p) \/ Step(p) \/ AnswerPrompt(p) \/ Kill(p)
      PROVE  Contract!Next \/ UNCHANGED Contract!contractVars
  <2>1. OthersStand(p)
    BY <1>1, <1>3, OthersKept DEF OthersStand
  <2> QED
    BY <1>1, <1>3, <2>1, CallAsks, ConnectMeets, CommandUnseen, PromptGives, VerifyJudges,
       CallReturnsAnswer DEF Step
<1> QED BY <1>2, <1>3 DEF Next

\* The sessions keep the library's promise to its callers: one card, one
\* verdict on the PIN at most and one answer a call, for any cards, requests,
\* processes and faults.
THEOREM KeepsContractTheorem == Spec => KeepsContract
<1>1. Init => Contract!Init
  <2> SUFFICES ASSUME Init PROVE Contract!Init
    OBVIOUS
  <2>1. \A p \in Procs : pc[p] = "idle" /\ VerdictOf(p) = "none" /\ AnswerOf(p) = None
    BY DEF Init, VerdictOf, AnswerOf
  <2>2. /\ Busy = {} /\ Verdicts = [p \in Procs |-> "none"]
        /\ AnswersOf = [p \in Procs |-> None]
    BY <2>1 DEF Busy, Verdicts, AnswersOf
  <2>3. /\ req = [p \in Procs |-> None] /\ pin = [p \in Procs |-> Prompt]
        /\ from = [p \in Procs |-> None]
        /\ tries = [c \in Cards |-> [a \in Applets |-> MaxTries]]
    BY DEF Init, CardInit
  <2> QED BY <2>2, <2>3, Zenon DEF Contract!Init, Contract!Applets, Applets, Busy, Verdicts, AnswersOf
<1>2. ContractInv /\ TypeInv' /\ [Next]_vars => [Contract!Next]_(Contract!contractVars)
  BY NextKeepsContract DEF TypeInv
<1> QED
  BY <1>1, <1>2, ContractInvariance, TypeInvariance, PTL
  DEF Spec, SafetySpec, KeepsContract, Contract!Spec

=============================================================================
