------------------------- MODULE CardSession_proofs -------------------------
(***************************************************************************)
(* Theorems of CardSession, for any processes, cards, keys, PINs, messages *)
(* and requests, and for every kind of fault.                              *)
(***************************************************************************)
EXTENDS CardSession, TLAPS

USE CardAssumption, SessionAssumption

\* Every initial state is well typed.
LEMMA InitType == Init => TypeOK
  BY DEF Init, CardInit, TypeOK, CardTypeOK, HandleStates, NobodyVerified, Owners,
         PinRefs, Applets, Steps, Outcomes, Errors

\* Whatever a card does with a command, it keeps its type.
LEMMA SelectType ==
  ASSUME CardTypeOK, NEW c \in Cards, NEW a \in Applets, SelectApplet(c, a)
  PROVE  /\ selected' \in [Cards -> Applets \cup {"none"}]
         /\ auth' \in [Cards -> [PinRefs -> Owners]]
         /\ tries' = tries
  BY DEF CardTypeOK, SelectApplet, Owners

\* A PIN accepted: the tries are all there again.
LEMMA AcceptType ==
  ASSUME CardTypeOK, NEW p \in Procs, NEW c \in Cards, NEW a \in Applets,
         NEW ref \in PinRefs, AcceptPin(p, c, a, ref)
  PROVE  /\ selected' = selected
         /\ auth' \in [Cards -> [PinRefs -> Owners]]
         /\ tries' \in [Cards -> [Applets -> 0 .. MaxTries]]
  BY DEF CardTypeOK, AcceptPin, Owners

\* A PIN refused: a card that listens has a try to lose, so the counter
\* stays a natural number.
LEMMA RejectType ==
  ASSUME CardTypeOK, NEW c \in Cards, NEW a \in Applets, NEW ref \in PinRefs,
         PinListens(c, a), RejectPin(c, a, ref)
  PROVE  /\ selected' = selected
         /\ auth' \in [Cards -> [PinRefs -> Owners]]
         /\ tries' \in [Cards -> [Applets -> 0 .. MaxTries]]
  BY DEF CardTypeOK, RejectPin, PinListens, Owners

\* A signature may use up a verification, and changes nothing else.
LEMMA UseType ==
  ASSUME CardTypeOK, NEW c \in Cards, NEW ref \in PinRefs, UsePin(c, ref)
  PROVE  /\ selected' = selected
         /\ auth' \in [Cards -> [PinRefs -> Owners]]
         /\ tries' = tries
<1>1. CASE UNCHANGED auth
  BY <1>1 DEF CardTypeOK, UsePin
<1>2. CASE auth' = [auth EXCEPT ![c][ref] = None]
  BY <1>2 DEF CardTypeOK, UsePin, Owners
<1> QED BY <1>1, <1>2 DEF UsePin

\* A reset of the card by a session that has one keeps the card's type.
LEMMA ResetType ==
  ASSUME CardTypeOK, NEW p \in Procs, from[p] \in Cards, ResetBy(p)
  PROVE  CardTypeOK'
  BY DEF CardTypeOK, ResetBy, NobodyVerified, readerVars, HandleStates, Owners

\* So does a handle closed without a reset.
LEMMA LeaveType ==
  ASSUME CardTypeOK, NEW p \in Procs, LeaveBy(p)
  PROVE  CardTypeOK'
  BY DEF CardTypeOK, LeaveBy, readerVars, cardVars, HandleStates

\* So do the user's hand and scdaemon.
LEMMA WorldType ==
  ASSUME CardTypeOK, World
  PROVE  CardTypeOK'
<1> PICK c \in Cards : Plug(c) \/ Unplug(c) \/ ScdaemonOpens(c) \/ ScdaemonCloses(c)
  BY DEF World
<1>1. CASE Plug(c)
  BY <1>1 DEF CardTypeOK, Plug, cardVars
<1>2. CASE Unplug(c)
  BY <1>2 DEF CardTypeOK, Unplug, HandleStates, NobodyVerified, Owners
<1>3. CASE ScdaemonOpens(c)
  BY <1>3 DEF CardTypeOK, ScdaemonOpens, cardVars
<1>4. CASE ScdaemonCloses(c)
  BY <1>4 DEF CardTypeOK, ScdaemonCloses, Applets, Owners
<1> QED BY <1>1, <1>2, <1>3, <1>4

-----------------------------------------------------------------------------
(* Type correctness.  It needs to know that a handle is open exactly from    *)
(* the end of connect to the drop: then a session has a card to talk to.     *)

SessionShape ==
  \A p \in Procs :
    /\ handle[p] = "closed" <=> pc[p] \in {"idle", "connect"}
    /\ pc[p] # "idle" => req[p] \in RequestType

\* A listing has read fewer slots than there are while it reads one more.
FoundShape ==
  \A p \in Procs :
    /\ pc[p] \in {"connect", "select", "read", "pin", "verify", "sign"} => found[p] = << >>
    /\ pc[p] = "scan" => Len(found[p]) < Len(PivSlots)

TypeInv == TypeOK /\ SessionShape /\ FoundShape

\* No process is in a call at first.
LEMMA InitShape == Init => SessionShape /\ FoundShape
  BY DEF Init, CardInit, SessionShape, FoundShape

\* What a step past connect may rely on.
LEMMA InSession ==
  ASSUME TypeInv, NEW p \in Procs, pc[p] \notin {"idle", "connect"}
  PROVE  /\ from[p] \in Cards
         /\ req[p] \in RequestType
         /\ req[p].applet \in Applets /\ req[p].slot \in Slots
         /\ req[p].curve \in Curves /\ req[p].msg \in Msgs
         /\ RefOf(req[p]) \in PinRefs
         /\ WantedRef(req[p].applet, req[p].slot) \in PinRefs
  BY DEF TypeInv, TypeOK, CardTypeOK, SessionShape, RequestType, RefOf, WantedRef, PinRefs

\* A new call keeps the types.
LEMMA CallType ==
  ASSUME TypeInv, NEW p \in Procs, Call(p)
  PROVE  TypeInv'
<1> USE DEF TypeInv
<1>1. PICK r \in Requests :
        /\ req' = [req EXCEPT ![p] = r]
        /\ pin' = [pin EXCEPT ![p] = r.pin]
        /\ pc' = [pc EXCEPT ![p] = IF Supported(r) THEN "connect" ELSE "idle"]
        /\ out' = [out EXCEPT ![p] = IF Supported(r) THEN "running" ELSE "unsupported"]
  BY DEF Call, CallFor
<1>2. r \in RequestType /\ r.pin \in Pins \cup {Prompt}
  BY DEF RequestType
<1>3. CardTypeOK'
  BY DEF Call, CallFor, TypeOK, CardTypeOK, SessionShape, readerVars, cardVars
<1>4. SessionShape'
  BY <1>1, <1>2 DEF Call, CallFor, TypeOK, SessionShape
<1>6. FoundShape'
  BY <1>1, <1>2 DEF Call, CallFor, TypeOK, FoundShape
<1>5. /\ found' \in [Procs -> Seq(Entries \cup {None})]
      /\ sig' \in [Procs -> Signatures \cup {None}]
      /\ proved' \in [Procs -> SUBSET (Cards \X PinRefs)]
      /\ spent' \in [Procs -> [Cards -> Nat]]
  BY DEF Call, CallFor, TypeOK
<1> QED
  BY <1>1, <1>2, <1>3, <1>4, <1>5, <1>6 DEF TypeOK, Steps, Outcomes, Errors

\* Connecting keeps the types: a handle is open from here on.
LEMMA ConnectType ==
  ASSUME TypeInv, NEW p \in Procs, Connect(p)
  PROVE  TypeInv'
<1> USE DEF TypeInv
<1>1. CASE CanConnect /\ OpenHandle(p) /\ Goto(p, "select")
  <2>1. CardTypeOK'
    BY <1>1 DEF TypeOK, CardTypeOK, CanConnect, OpenHandle, readerVars, cardVars, HandleStates
  <2>2. SessionShape'
    BY <1>1 DEF Connect, TypeOK, CardTypeOK, SessionShape, OpenHandle, Goto, callVars
  <2>3. FoundShape'
    BY <1>1 DEF Connect, TypeOK, FoundShape, Goto, resultVars
  <2> QED
    BY <1>1, <2>1, <2>2, <2>3 DEF Connect, TypeOK, Goto, callVars, resultVars, historyVars, Steps
<1>2. CASE ~CanConnect
  <2>1. CardTypeOK'
    BY <1>2 DEF Connect, TypeOK, CardTypeOK, worldVars, busVars, readerVars, cardVars
  <2>2. SessionShape'
    BY <1>2 DEF Connect, TypeOK, SessionShape, worldVars, busVars, callVars
  <2>3. FoundShape'
    BY <1>2 DEF Connect, TypeOK, FoundShape, resultVars
  <2> QED
    BY <1>2, <2>1, <2>2, <2>3 DEF Connect, TypeOK, callVars, resultVars, historyVars, Steps,
       Outcomes, Errors
<1> QED BY <1>1, <1>2 DEF Connect

\* A step within a session: p goes to another step of it, with or without an
\* outcome, and keeps its handle.
Advances(p) ==
  /\ \E step \in Steps \ {"idle", "connect"} : pc' = [pc EXCEPT ![p] = step]
  /\ out' = out \/ \E o \in Outcomes : out' = [out EXCEPT ![p] = o]

\* The four ways a command ends move pc to a step that has a handle.
LEMMA GotoAdvances ==
  ASSUME NEW p, NEW step \in Steps \ {"idle", "connect"}, Goto(p, step)
  PROVE  Advances(p)
  BY DEF Goto, Advances

\* To the drop, with an outcome.
LEMMA LeaveAdvances ==
  ASSUME NEW p, NEW o \in Outcomes, Leave(p, o)
  PROVE  Advances(p)
<1>1. "drop" \in Steps \ {"idle", "connect"}
  BY DEF Steps
<1> QED BY <1>1 DEF Leave, Advances

\* To the drop, the command not served.
LEMMA NotServedAdvances ==
  ASSUME NEW p, NEW served, NotServed(p, served)
  PROVE  Advances(p)
<1>1. Leave(p, "pcsc") \/ Leave(p, "card")
  BY DEF NotServed
<1> QED BY <1>1, LeaveAdvances DEF Outcomes, Errors

\* To the drop, the answer lost.
LEMMA AnswerLostAdvances ==
  ASSUME NEW p, AnswerLost(p)
  PROVE  Advances(p)
  BY LeaveAdvances DEF AnswerLost, Outcomes, Errors

\* Such a step keeps the types if it keeps those of what it changes besides.
LEMMA AdvanceType ==
  ASSUME TypeInv, NEW p \in Procs, pc[p] \notin {"idle", "connect"}, Advances(p),
         UNCHANGED <<handle, req>>
  PROVE  /\ SessionShape'
         /\ pc' \in [Procs -> Steps]
         /\ out' \in [Procs -> Outcomes]
<1>1. PICK step \in Steps \ {"idle", "connect"} : pc' = [pc EXCEPT ![p] = step]
  BY DEF Advances
<1>2. /\ pc' \in [Procs -> Steps]
      /\ SessionShape'
  BY <1>1 DEF TypeInv, TypeOK, SessionShape
<1>3. out' \in [Procs -> Outcomes]
  BY DEF TypeInv, TypeOK, Advances
<1> QED BY <1>2, <1>3

\* SELECT keeps the types.
LEMMA SelectStepType ==
  ASSUME TypeInv, NEW p \in Procs, Select(p)
  PROVE  TypeInv'
<1>1. /\ pc[p] = "select" /\ from[p] \in Cards /\ req[p].applet \in Applets
      /\ CardTypeOK /\ TypeOK
  BY InSession DEF Select, TypeInv, TypeOK
<1>2. CardTypeOK'
  <2>1. /\ selected' \in [Cards -> Applets \cup {"none"}]
        /\ auth' \in [Cards -> [PinRefs -> Owners]]
        /\ tries' = tries
    <3>1. CASE SelectApplet(from[p], req[p].applet)
      BY <1>1, <3>1, SelectType
    <3>2. CASE UNCHANGED cardVars
      BY <1>1, <3>2 DEF CardTypeOK, cardVars
    <3> QED BY <3>1, <3>2 DEF Select
  <2> QED BY <1>1, <2>1 DEF Select, CardTypeOK, busVars, readerVars
<1>3. Advances(p)
  <2>1. CASE AfterSelect(p)
    <3>1. \/ Leave(p, "unsupported")
          \/ \E step \in {"scan", "pin", "read"} : Goto(p, step)
      BY <2>1 DEF AfterSelect
    <3> QED BY <3>1, GotoAdvances, LeaveAdvances DEF Steps, Outcomes, Errors
  <2> QED BY <2>1, AnswerLostAdvances, NotServedAdvances DEF Select
<1>4. FoundShape'
  BY <1>1 DEF TypeInv, TypeOK, FoundShape, Select, AfterSelect, AnswerLost, NotServed,
     Goto, Leave, resultVars
<1> QED
  BY <1>1, <1>2, <1>3, <1>4, AdvanceType
  DEF TypeInv, TypeOK, Select, busVars, callVars, resultVars, historyVars

\* What is extracted from a key is an entry, or None.
LEMMA ExtractType ==
  ASSUME NEW key \in Keys, NEW r \in RequestType
  PROVE  Extract(key, r) \in Entries \cup {None}
  BY DEF Extract, Entries, RequestType, Curves

\* Reading one public key keeps the types.
LEMMA ReadType ==
  ASSUME TypeInv, NEW p \in Procs, Read(p)
  PROVE  TypeInv'
<1>1. /\ pc[p] = "read" /\ from[p] \in Cards /\ req[p] \in RequestType
      /\ req[p].applet \in Applets /\ req[p].slot \in Slots /\ TypeOK
  BY InSession DEF Read, TypeInv
<1> DEFINE r == req[p]
           key == Stored(from[p], r.applet, r.slot)
<1>2. key \in Keys \cup {None}
  BY <1>1 DEF Stored, Applets
<1>3. Advances(p)
  BY LeaveAdvances, NotServedAdvances DEF Read, Outcomes, Errors
<1>4. found' \in [Procs -> Seq(Entries \cup {None})]
  <2>1. CASE key # None /\ found' = [found EXCEPT ![p] = <<Extract(key, r)>>]
    <3>1. <<Extract(key, r)>> \in Seq(Entries \cup {None})
      BY <1>1, <1>2, <2>1, ExtractType
    <3> QED BY <1>1, <2>1, <3>1 DEF TypeOK
  <2>2. CASE UNCHANGED found
    BY <1>1, <2>2 DEF TypeOK
  <2> QED BY <2>1, <2>2 DEF Read
<1>5. CardTypeOK'
  BY <1>1 DEF Read, TypeOK, CardTypeOK, worldVars, busVars, readerVars, cardVars
<1>6. FoundShape'
  BY <1>1 DEF TypeInv, TypeOK, FoundShape, Read, NotServed, Leave
<1> QED
  BY <1>1, <1>3, <1>4, <1>5, <1>6, AdvanceType
  DEF TypeInv, TypeOK, Read, worldVars, busVars, callVars, historyVars

\* What a listing gets for a slot is an entry, or None.
LEMMA FetchedType ==
  ASSUME TypeInv, NEW p \in Procs, pc[p] = "scan"
  PROVE  Fetched(p) \subseteq Entries \cup {None}
<1> DEFINE n == Len(found[p]) + 1
<1>1. from[p] \in Cards
  BY InSession
<1>2. n \in 1 .. Len(PivSlots)
  BY DEF TypeInv, TypeOK, FoundShape
<1>3. \A i \in 1 .. Len(PivSlots) : PivSlots[i] \in Slots
  <2>1. PivSlots \in Seq({s \in Slots : IsValid(s)})
    OBVIOUS
  <2> HIDE SessionAssumption
  <2> QED BY <2>1
<1>4. CertIn[from[p]][PivSlots[n]] \in Keys \cup {None}
  BY <1>1, <1>2, <1>3
<1> QED BY <1>4 DEF Fetched, Entries, Curves

\* A listing stays shorter than the list of slots while it goes on.
LEMMA ScanType ==
  ASSUME TypeInv, NEW p \in Procs, Scan(p)
  PROVE  TypeInv'
<1>1. /\ pc[p] = "scan" /\ TypeOK /\ Len(found[p]) < Len(PivSlots)
  BY DEF Scan, TypeInv, FoundShape
<1>2. PICK entry \in Entries \cup {None} : found' = [found EXCEPT ![p] = Append(@, entry)]
  BY <1>1, FetchedType DEF Scan, Collect
<1>3. Advances(p)
  BY GotoAdvances, LeaveAdvances DEF Scan, Outcomes, Errors, Steps
<1>4. found' \in [Procs -> Seq(Entries \cup {None})]
  BY <1>1, <1>2 DEF TypeOK
<1>5. CardTypeOK'
  BY <1>1 DEF Scan, TypeOK, CardTypeOK, worldVars, busVars, readerVars, cardVars
<1>6. FoundShape'
  <2>1. Len(found'[p]) = Len(found[p]) + 1
    BY <1>1, <1>2 DEF TypeOK
  <2>2. \A q \in Procs \ {p} : found'[q] = found[q] /\ pc'[q] = pc[q]
    BY <1>1, <1>2 DEF TypeOK, Scan, Goto, Leave
  <2>3. pc'[p] = "drop" \/ (pc'[p] = "scan" /\ Len(found[p]) + 1 < Len(PivSlots))
    BY <1>1 DEF TypeOK, Scan, Goto, Leave
  <2> QED BY <2>1, <2>2, <2>3 DEF TypeInv, FoundShape
<1> QED
  BY <1>1, <1>3, <1>4, <1>5, <1>6, AdvanceType
  DEF TypeInv, TypeOK, Scan, worldVars, busVars, callVars, historyVars

\* A PIN given by the caller or the user keeps the types.
LEMMA TakePinType ==
  ASSUME TypeInv, NEW p \in Procs, ResolvePin(p) \/ AnswerPrompt(p)
  PROVE  TypeInv'
<1>1. pc[p] = "pin" /\ TypeOK
  BY DEF ResolvePin, AnswerPrompt, TypeInv
<1>2. UNCHANGED <<worldVars, req, resultVars, historyVars>>
  BY DEF ResolvePin, AnswerPrompt
<1>3. (\E x \in Pins : TakePin(p, x)) \/ (Leave(p, "io") /\ UNCHANGED pin)
  BY <1>1 DEF ResolvePin, AnswerPrompt, TypeOK
<1>4. Advances(p)
  BY <1>3, GotoAdvances, LeaveAdvances DEF TakePin, Outcomes, Errors, Steps
<1>5. pin' \in [Procs -> Pins \cup {Prompt}]
  BY <1>1, <1>3 DEF TakePin, TypeOK
<1>6. CardTypeOK'
  BY <1>1, <1>2 DEF TypeOK, CardTypeOK, worldVars, busVars, readerVars, cardVars
<1>7. FoundShape'
  BY <1>1, <1>2, <1>3 DEF TypeInv, TypeOK, FoundShape, TakePin, Goto, Leave, resultVars
<1> QED
  BY <1>1, <1>2, <1>4, <1>5, <1>6, <1>7, AdvanceType
  DEF TypeInv, TypeOK, worldVars, busVars, resultVars, historyVars

\* VERIFY keeps the types, whatever the card's verdict.
LEMMA SendVerifyType ==
  ASSUME TypeInv, NEW p \in Procs, SendVerify(p)
  PROVE  TypeInv'
<1> DEFINE c == from[p]
           a == req[p].applet
           ref == RefOf(req[p])
<1>1. /\ pc[p] = "verify" /\ TypeOK /\ CardTypeOK
      /\ c \in Cards /\ a \in Applets /\ ref \in PinRefs
  BY InSession DEF SendVerify, TypeInv, TypeOK
<1>2. UNCHANGED <<busVars, callVars, resultVars>>
  BY DEF SendVerify
<1>3. \/ UNCHANGED <<cardVars, historyVars>>
      \/ /\ AcceptPin(p, c, a, ref)
         /\ proved' = [proved EXCEPT ![p] = @ \cup {<<c, ref>>}]
         /\ UNCHANGED spent
      \/ /\ PinListens(c, a) /\ RejectPin(c, a, ref)
         /\ spent' = [spent EXCEPT ![p][c] = @ + 1]
         /\ UNCHANGED proved
  BY DEF SendVerify
<1>4. Advances(p)
  <2>1. \/ Goto(p, "sign") \/ \E o \in Outcomes : Leave(p, o)
        \/ AnswerLost(p) \/ \E served \in BOOLEAN : NotServed(p, served)
    BY DEF SendVerify, PinAccepted, PinRejected, NotServed, Outcomes, Errors
  <2> QED
    BY <2>1, GotoAdvances, LeaveAdvances, AnswerLostAdvances, NotServedAdvances DEF Steps
<1>5. CardTypeOK'
  <2>1. /\ selected' \in [Cards -> Applets \cup {"none"}]
        /\ auth' \in [Cards -> [PinRefs -> Owners]]
        /\ tries' \in [Cards -> [Applets -> 0 .. MaxTries]]
    <3>1. CASE UNCHANGED cardVars
      BY <1>1, <3>1 DEF CardTypeOK, cardVars
    <3>2. CASE AcceptPin(p, c, a, ref)
      BY <1>1, <3>2, AcceptType DEF CardTypeOK
    <3>3. CASE PinListens(c, a) /\ RejectPin(c, a, ref)
      BY <1>1, <3>3, RejectType DEF CardTypeOK
    <3> QED BY <1>3, <3>1, <3>2, <3>3
  <2> QED BY <1>1, <1>2, <2>1 DEF CardTypeOK, busVars, readerVars
<1>6. /\ proved' \in [Procs -> SUBSET (Cards \X PinRefs)]
      /\ spent' \in [Procs -> [Cards -> Nat]]
  <2>1. CASE UNCHANGED historyVars
    BY <1>1, <2>1 DEF TypeOK, historyVars
  <2>2. CASE /\ proved' = [proved EXCEPT ![p] = @ \cup {<<c, ref>>}]
             /\ UNCHANGED spent
    <3>1. proved[p] \cup {<<c, ref>>} \in SUBSET (Cards \X PinRefs)
      BY <1>1 DEF TypeOK
    <3> QED BY <1>1, <2>2, <3>1 DEF TypeOK
  <2>3. CASE /\ spent' = [spent EXCEPT ![p][c] = @ + 1]
             /\ UNCHANGED proved
    BY <1>1, <2>3 DEF TypeOK
  <2> QED BY <1>3, <2>1, <2>2, <2>3
<1>7. FoundShape'
  BY <1>1, <1>2 DEF TypeInv, TypeOK, FoundShape, SendVerify, PinAccepted, PinRejected,
     AnswerLost, NotServed, Goto, Leave, resultVars
<1> QED
  BY <1>1, <1>2, <1>4, <1>5, <1>6, <1>7, AdvanceType
  DEF TypeInv, TypeOK, busVars, callVars, resultVars

\* The signing command keeps the types.
LEMMA SendSignType ==
  ASSUME TypeInv, NEW p \in Procs, SendSign(p)
  PROVE  TypeInv'
<1> DEFINE r == req[p]
           c == from[p]
           key == KeyIn[c][r.applet][r.slot]
           ref == WantedRef(r.applet, r.slot)
<1>1. /\ pc[p] = "sign" /\ TypeOK /\ CardTypeOK
      /\ c \in Cards /\ ref \in PinRefs
      /\ r.applet \in Applets /\ r.slot \in Slots /\ r.msg \in Msgs
  BY InSession DEF SendSign, TypeInv, TypeOK
<1>2. UNCHANGED <<busVars, callVars, found, historyVars>>
  BY DEF SendSign
<1>3. \/ UNCHANGED <<cardVars, sig>>
      \/ /\ UsePin(c, ref)
         /\ UNCHANGED sig \/ (key # None /\ sig' = [sig EXCEPT ![p] = [key |-> key, msg |-> r.msg]])
  BY DEF SendSign, CanSign
<1>4. Advances(p)
  <2>1. \/ \E o \in Outcomes : Leave(p, o)
        \/ AnswerLost(p) \/ \E served \in BOOLEAN : NotServed(p, served)
    BY DEF SendSign, Outcomes, Errors, NotServed
  <2> QED BY <2>1, LeaveAdvances, AnswerLostAdvances, NotServedAdvances
<1>5. CardTypeOK'
  <2>1. /\ selected' \in [Cards -> Applets \cup {"none"}]
        /\ auth' \in [Cards -> [PinRefs -> Owners]]
        /\ tries' \in [Cards -> [Applets -> 0 .. MaxTries]]
    <3>1. CASE UNCHANGED cardVars
      BY <1>1, <3>1 DEF CardTypeOK, cardVars
    <3>2. CASE UsePin(c, ref)
      BY <1>1, <3>2, UseType DEF CardTypeOK
    <3> QED BY <1>3, <3>1, <3>2
  <2> QED BY <1>1, <1>2, <2>1 DEF CardTypeOK, busVars, readerVars
<1>6. sig' \in [Procs -> Signatures \cup {None}]
  <2>1. key \in Keys \cup {None}
    BY <1>1 DEF Applets
  <2>2. key # None => [key |-> key, msg |-> r.msg] \in Signatures
    BY <1>1, <2>1 DEF Signatures
  <2> QED BY <1>1, <1>3, <2>2 DEF TypeOK
<1>7. FoundShape'
  BY <1>1, <1>2 DEF TypeInv, TypeOK, FoundShape, SendSign, AnswerLost, NotServed, Leave
<1> QED
  BY <1>1, <1>2, <1>4, <1>5, <1>6, <1>7, AdvanceType
  DEF TypeInv, TypeOK, busVars, callVars, historyVars

\* The drop of the handle and the death of the process keep the types.
LEMMA EndType ==
  ASSUME TypeInv, NEW p \in Procs, Drop(p) \/ Kill(p)
  PROVE  TypeInv'
<1>1. TypeOK /\ CardTypeOK /\ pc[p] # "idle"
  BY DEF Drop, Kill, TypeInv, TypeOK
<1>2. (from[p] \in Cards /\ ResetBy(p)) \/ LeaveBy(p)
  BY <1>1 DEF Drop, Kill, CloseHandle, ReapHandle, CardTypeOK
<1>3. /\ pc' = [pc EXCEPT ![p] = "idle"]
      /\ UNCHANGED <<callVars, historyVars>>
  BY DEF Drop, Kill
<1>4. CardTypeOK'
  BY <1>1, <1>2, ResetType, LeaveType
<1>5. SessionShape'
  <2>1. handle'[p] = "closed" /\ \A q \in Procs \ {p} : handle'[q] = "closed" <=> handle[q] = "closed"
    BY <1>1, <1>2 DEF CardTypeOK, ResetBy, LeaveBy
  <2> QED BY <1>1, <1>3, <2>1 DEF TypeInv, TypeOK, SessionShape, callVars
<1>6. /\ out' \in [Procs -> Outcomes]
      /\ found' \in [Procs -> Seq(Entries \cup {None})]
      /\ sig' \in [Procs -> Signatures \cup {None}]
      /\ \A q \in Procs \ {p} : found'[q] = found[q]
  <2>1. CASE Drop(p)
    BY <1>1, <2>1 DEF Drop, TypeOK, resultVars
  <2>2. CASE Kill(p)
    <3>1. << >> \in Seq(Entries \cup {None}) /\ "killed" \in Outcomes
      BY DEF Outcomes
    <3> QED BY <1>1, <2>2, <3>1 DEF Kill, TypeOK
  <2> QED BY <2>1, <2>2
<1>7. FoundShape'
  BY <1>1, <1>3, <1>6 DEF TypeInv, TypeOK, FoundShape
<1> QED
  BY <1>1, <1>3, <1>4, <1>5, <1>6, <1>7
  DEF TypeInv, TypeOK, callVars, historyVars, Steps

\* The world keeps the types and touches no process's own state.
LEMMA AroundType ==
  ASSUME TypeInv, World /\ UNCHANGED localVars
  PROVE  TypeInv'
<1>1. CardTypeOK'
  BY WorldType DEF TypeInv, TypeOK
<1>2. \A q \in Procs : handle'[q] = "closed" <=> handle[q] = "closed"
  <2> PICK c \in Cards : Plug(c) \/ Unplug(c) \/ ScdaemonOpens(c) \/ ScdaemonCloses(c)
    BY DEF World
  <2> QED BY DEF Plug, Unplug, ScdaemonOpens, ScdaemonCloses
<1> QED
  BY <1>1, <1>2
  DEF TypeInv, TypeOK, SessionShape, FoundShape, localVars, progressVars, callVars,
      resultVars, historyVars

\* Every step keeps the types.
LEMMA NextType ==
  ASSUME TypeInv, [Next]_vars
  PROVE  TypeInv'
<1>1. CASE UNCHANGED vars
  BY <1>1
  DEF TypeInv, TypeOK, CardTypeOK, SessionShape, FoundShape, vars, worldVars, busVars,
      readerVars, cardVars, localVars, progressVars, callVars, resultVars, historyVars
<1>2. CASE World /\ UNCHANGED localVars
  BY <1>2, AroundType
<1>3. CASE \E p \in Procs : Call(p) \/ Step(p) \/ AnswerPrompt(p) \/ Kill(p)
  BY <1>3, CallType, ConnectType, SelectStepType, ReadType, ScanType, TakePinType,
     SendVerifyType, SendSignType, EndType DEF Step
<1> QED BY <1>1, <1>2, <1>3 DEF Next

\* TypeInv is an invariant: types, a handle exactly from connect to drop, and
\* listings no longer than the list of slots.
THEOREM TypeInvariance == SafetySpec => []TypeInv
<1>1. Init => TypeInv
  BY InitType, InitShape DEF TypeInv
<1>2. TypeInv /\ [Next]_vars => TypeInv'
  BY NextType
<1> QED BY <1>1, <1>2, PTL DEF SafetySpec

\* Every variable keeps to its type; an open handle is a handle on a card.
THEOREM TypeCorrect == Spec => []TypeOK
<1>1. TypeInv => TypeOK
  BY DEF TypeInv
<1> QED BY <1>1, TypeInvariance, PTL DEF Spec

-----------------------------------------------------------------------------
(* What is true of a call depends on its own state only, and a step of one  *)
(* process or of the world changes no other call.                           *)

LocalOf(p) == <<pc[p], out[p], req[p], pin[p], found[p], sig[p], proved[p], spent[p], from[p]>>

\* A step of one process leaves what the others' calls are about alone.
LEMMA OthersKept ==
  ASSUME TypeOK, NEW p \in Procs, Call(p) \/ Step(p) \/ AnswerPrompt(p) \/ Kill(p)
  PROVE  \A q \in Procs \ {p} : LocalOf(q)' = LocalOf(q)
<1> USE DEF TypeOK, CardTypeOK, LocalOf
<1>1. CASE Call(p)
  BY <1>1 DEF Call, CallFor
<1>2. CASE Connect(p)
  BY <1>2 DEF Connect, OpenHandle, Goto, worldVars, busVars, callVars, resultVars, historyVars
<1>3. CASE Select(p)
  BY <1>3 DEF Select, AfterSelect, AnswerLost, NotServed, Goto, Leave, busVars, callVars,
     resultVars, historyVars
<1>4. CASE Read(p)
  BY <1>4 DEF Read, NotServed, Leave, worldVars, busVars, callVars, historyVars
<1>5. CASE Scan(p)
  BY <1>5 DEF Scan, Collect, Goto, Leave, worldVars, busVars, callVars, historyVars
<1>6. CASE ResolvePin(p) \/ AnswerPrompt(p)
  BY <1>6 DEF ResolvePin, AnswerPrompt, TakePin, Goto, Leave, worldVars, busVars,
     resultVars, historyVars
<1>7. CASE SendVerify(p)
  <2>1. \/ UNCHANGED historyVars
        \/ \E new : proved' = [proved EXCEPT ![p] = new] /\ UNCHANGED spent
        \/ \E new : spent' = [spent EXCEPT ![p] = new] /\ UNCHANGED proved
    BY <1>7 DEF SendVerify
  <2>2. \E step, o : pc' = [pc EXCEPT ![p] = step] /\ out' \in {out, [out EXCEPT ![p] = o]}
    BY <1>7 DEF SendVerify, PinAccepted, PinRejected, AnswerLost, NotServed, Goto, Leave
  <2> QED BY <1>7, <2>1, <2>2 DEF SendVerify, busVars, callVars, resultVars, historyVars
<1>8. CASE SendSign(p)
  <2>1. UNCHANGED sig \/ \E new : sig' = [sig EXCEPT ![p] = new]
    BY <1>8 DEF SendSign
  <2>2. \E step, o : pc' = [pc EXCEPT ![p] = step] /\ out' = [out EXCEPT ![p] = o]
    BY <1>8 DEF SendSign, AnswerLost, NotServed, Leave
  <2> QED BY <1>8, <2>1, <2>2 DEF SendSign, busVars, callVars, historyVars
<1>9. CASE Drop(p) \/ Kill(p)
  BY <1>9 DEF Drop, Kill, CloseHandle, ReapHandle, ResetBy, LeaveBy, callVars, resultVars,
     historyVars
<1> QED BY <1>1, <1>2, <1>3, <1>4, <1>5, <1>6, <1>7, <1>8, <1>9 DEF Step

\* So does a step of the world.
LEMMA WorldKeepsCalls ==
  ASSUME (World /\ UNCHANGED localVars) \/ UNCHANGED vars
  PROVE  \A q \in Procs : LocalOf(q)' = LocalOf(q)
<1>1. UNCHANGED from
  BY DEF World, Plug, Unplug, ScdaemonOpens, ScdaemonCloses, vars, worldVars, busVars
<1> QED
  BY <1>1 DEF LocalOf, vars, localVars, progressVars, callVars, resultVars, historyVars

-----------------------------------------------------------------------------
(* The inductive invariant of a call: it signs only after it has proved its *)
(* PIN (or was given an empty one), and has nothing to show for itself - no signature, no key read, no  *)
(* try lost - before its last command (a listing, before it lists).         *)

PinFlow(p) ==
  /\ pc[p] \in {"pin", "verify", "sign"} => req[p].op = "sign"
  /\ pc[p] = "verify" => ~PinNotPadded(req[p], pin[p])
  /\ pc[p] = "sign" =>
       <<from[p], RefOf(req[p])>> \in proved[p] \/ PinBlank(req[p], pin[p])
  /\ pc[p] \notin {"idle", "drop"} => sig[p] = None /\ \A c \in Cards : spent[p][c] = 0

ReadFlow(p) ==
  /\ pc[p] = "scan" => req[p].op = "list_accounts"
  /\ pc[p] = "read" => req[p].op \notin {"list_accounts", "sign"}

CallInv(p) ==
  PinFlow(p) /\ ReadFlow(p) /\ SignedProperly(p) /\ SpentAtMostOne(p) /\ FoundProperly(p)

\* What is true of a call depends on LocalOf only.
LEMMA CallInvKept ==
  ASSUME NEW p, CallInv(p), LocalOf(p)' = LocalOf(p)
  PROVE  CallInv(p)'
<1>1. /\ pc'[p] = pc[p] /\ out'[p] = out[p] /\ req'[p] = req[p] /\ pin'[p] = pin[p]
      /\ found'[p] = found[p] /\ sig'[p] = sig[p] /\ proved'[p] = proved[p]
      /\ spent'[p] = spent[p] /\ from'[p] = from[p]
  BY DEF LocalOf
<1>2. PinFlow(p)' /\ ReadFlow(p)'
  BY <1>1 DEF CallInv, PinFlow, ReadFlow
<1>3. SignedProperly(p)' /\ SpentAtMostOne(p)'
  BY <1>1 DEF CallInv, SignedProperly, SpentAtMostOne
<1>4. FoundProperly(p)'
  BY <1>1 DEF CallInv, FoundProperly, SlotAsked
<1> QED BY <1>2, <1>3, <1>4 DEF CallInv

\* The steps that end a command, or the call, with no result: they leave the
\* results and the histories of the call as they were.
LEMMA QuietStep ==
  ASSUME TypeInv, NEW p \in Procs, CallInv(p), pc[p] \notin {"idle", "drop"},
         UNCHANGED <<req, pin, found, sig, proved, spent, from>>,
         NEW step \in {"drop", "scan", "read", "pin", "select"},
         pc' = [pc EXCEPT ![p] = step],
         step = "scan" => req[p].op = "list_accounts",
         step = "read" => req[p].op \notin {"list_accounts", "sign"},
         step = "pin" => req[p].op = "sign"
  PROVE  CallInv(p)'
<1>1. pc'[p] = step /\ sig[p] = None /\ \A c \in Cards : spent[p][c] = 0
  BY DEF TypeInv, TypeOK, CallInv, PinFlow
<1>2. PinFlow(p)' /\ ReadFlow(p)'
  BY <1>1 DEF CallInv, PinFlow, ReadFlow
<1>3. SignedProperly(p)' /\ SpentAtMostOne(p)'
  BY <1>1 DEF SignedProperly, SpentAtMostOne
<1>4. FoundProperly(p)'
  BY DEF CallInv, FoundProperly, SlotAsked
<1> QED BY <1>2, <1>3, <1>4 DEF CallInv

\* A new call has nothing to show for itself.
LEMMA CallStep ==
  ASSUME TypeInv, NEW p \in Procs, Call(p)
  PROVE  CallInv(p)'
<1>1. /\ pc'[p] \in {"idle", "connect"} /\ found'[p] = << >> /\ sig'[p] = None
      /\ \A c \in Cards : spent'[p][c] = 0
  BY DEF Call, CallFor, TypeInv, TypeOK
<1> QED
  BY <1>1 DEF CallInv, PinFlow, ReadFlow, SignedProperly, SpentAtMostOne, FoundProperly

\* Connecting gives it nothing yet.
LEMMA ConnectStep ==
  ASSUME TypeInv, NEW p \in Procs, CallInv(p), Connect(p)
  PROVE  CallInv(p)'
<1>1. pc[p] = "connect" /\ found[p] = << >> /\ sig[p] = None
      /\ \A c \in Cards : spent[p][c] = 0
  BY DEF Connect, TypeInv, FoundShape, CallInv, PinFlow
<1>2. pc'[p] \in {"select", "idle"} /\ UNCHANGED <<found, sig, spent>>
  BY DEF Connect, Goto, TypeInv, TypeOK, resultVars, historyVars
<1> QED
  BY <1>1, <1>2 DEF CallInv, PinFlow, ReadFlow, SignedProperly, SpentAtMostOne, FoundProperly

\* SELECT sends a call on to the steps of its own operation.
LEMMA SelectStep ==
  ASSUME TypeInv, NEW p \in Procs, CallInv(p), Select(p)
  PROVE  CallInv(p)'
<1>1. /\ pc[p] = "select"
      /\ UNCHANGED <<req, pin, found, sig, proved, spent, from>>
  BY DEF Select, busVars, callVars, resultVars, historyVars
<1>2. \E step \in {"drop", "scan", "read", "pin"} :
        /\ pc' = [pc EXCEPT ![p] = step]
        /\ step = "scan" => req[p].op = "list_accounts"
        /\ step = "read" => req[p].op \notin {"list_accounts", "sign"}
        /\ step = "pin" => req[p].op = "sign"
  <2>1. CASE AfterSelect(p)
    <3>1. CASE req[p].op = "list_accounts"
      BY <2>1, <3>1 DEF AfterSelect, Goto
    <3>2. CASE req[p].op # "list_accounts" /\ Leave(p, "unsupported")
      BY <3>2 DEF Leave
    <3>3. CASE req[p].op # "list_accounts" /\ Goto(p, IF req[p].op = "sign" THEN "pin" ELSE "read")
      BY <3>3 DEF Goto
    <3> QED BY <2>1, <3>1, <3>2, <3>3 DEF AfterSelect
  <2>2. CASE AnswerLost(p) \/ NotServed(p, TRUE)
    BY <2>2 DEF AnswerLost, NotServed, Leave
  <2> QED BY <2>1, <2>2 DEF Select
<1> QED BY <1>1, <1>2, QuietStep

\* An entry extracted is of a curve its key can be read as.
LEMMA ExtractReads ==
  ASSUME NEW key, NEW r, Extract(key, r) # None
  PROVE  Extract(key, r).key = key /\ ReadsAs(key, Extract(key, r).as)
  BY DEF Extract

\* The key read is the one stored on the session's card.
LEMMA ReadStep ==
  ASSUME TypeInv, NEW p \in Procs, CallInv(p), Read(p)
  PROVE  CallInv(p)'
<1> DEFINE r == req[p]
           key == Stored(from[p], r.applet, r.slot)
<1>1. /\ pc[p] = "read" /\ pc' = [pc EXCEPT ![p] = "drop"]
      /\ UNCHANGED <<req, pin, sig, proved, spent, from>>
  BY DEF Read, NotServed, Leave, worldVars, busVars, callVars, historyVars
<1>2. CASE UNCHANGED found
  BY <1>1, <1>2, QuietStep
<1>3. CASE Extract(key, r) # None /\ found' = [found EXCEPT ![p] = <<Extract(key, r)>>]
  <2>1. /\ pc'[p] = "drop" /\ found'[p] = <<Extract(key, r)>>
        /\ sig[p] = None /\ \A c \in Cards : spent[p][c] = 0
        /\ r.op # "list_accounts"
    BY <1>1, <1>3 DEF TypeInv, TypeOK, CallInv, PinFlow, ReadFlow
  <2>2. FoundProperly(p)'
    <3>1. DOMAIN found'[p] = {1} /\ found'[p][1] = Extract(key, r)
      BY <2>1
    <3>2. found'[p][1].key = key /\ ReadsAs(key, found'[p][1].as)
      BY <1>3, <3>1, ExtractReads
    <3> QED BY <1>1, <2>1, <3>1, <3>2 DEF FoundProperly, SlotAsked
  <2> QED BY <1>1, <2>1, <2>2 DEF CallInv, PinFlow, ReadFlow, SignedProperly, SpentAtMostOne
<1> QED BY <1>2, <1>3 DEF Read

\* A listing grows by the key of its next slot, or None.
LEMMA ScanStep ==
  ASSUME TypeInv, NEW p \in Procs, CallInv(p), Scan(p)
  PROVE  CallInv(p)'
<1> DEFINE n == Len(found[p]) + 1
<1>1. /\ pc[p] = "scan" /\ pc'[p] \in {"scan", "drop"} /\ n \in 1 .. Len(PivSlots)
      /\ UNCHANGED <<req, pin, sig, proved, spent, from>>
  BY DEF Scan, Goto, Leave, TypeInv, TypeOK, FoundShape, worldVars, busVars, callVars, historyVars
<1>2. /\ req[p].op = "list_accounts" /\ req[p].applet = "piv"
      /\ sig[p] = None /\ \A c \in Cards : spent[p][c] = 0
  BY <1>1 DEF CallInv, PinFlow, ReadFlow, TypeInv, SessionShape, RequestType
<1>3. PICK entry \in Fetched(p) : found'[p] = Append(found[p], entry)
  BY DEF Scan, Collect, TypeInv, TypeOK
<1>4. entry # None =>
        /\ entry.key = CertIn[from[p]][PivSlots[n]]
        /\ ReadsAs(entry.key, entry.as)
  BY DEF Fetched
<1>5. FoundProperly(p)'
  <2>1. /\ DOMAIN found'[p] = 1 .. n
        /\ \A i \in 1 .. n : found'[p][i] = IF i < n THEN found[p][i] ELSE entry
        /\ DOMAIN found[p] = 1 .. (n - 1)
    BY <1>1, <1>3, FetchedType DEF TypeInv, TypeOK
  <2>2. SUFFICES ASSUME NEW i \in 1 .. n
                 PROVE  /\ i <= Len(PivSlots)
                        /\ found'[p][i] # None =>
                             /\ found'[p][i].key = CertIn[from[p]][PivSlots[i]]
                             /\ ReadsAs(found'[p][i].key, found'[p][i].as)
    BY <1>1, <1>2, <2>1 DEF FoundProperly, SlotAsked, Stored
  <2>3. n \in Nat /\ i \in Nat /\ i <= Len(PivSlots)
    BY <1>1
  <2>4. CASE i < n
    <3>1. i \in DOMAIN found[p] /\ found'[p][i] = found[p][i]
      BY <1>1, <2>1, <2>3, <2>4
    <3>2. found[p][i] # None =>
            /\ found[p][i].key = CertIn[from[p]][PivSlots[i]]
            /\ ReadsAs(found[p][i].key, found[p][i].as)
      BY <1>2, <3>1 DEF CallInv, FoundProperly, SlotAsked, Stored
    <3> QED BY <2>3, <3>1, <3>2
  <2>5. CASE i = n
    <3>1. found'[p][i] = IF i < n THEN found[p][i] ELSE entry
      BY <2>1
    <3>2. ~(i < n)
      BY <2>3, <2>5
    <3>3. found'[p][i] = entry
      BY <3>1, <3>2, Zenon
    <3> QED BY <1>4, <2>3, <2>5, <3>3
  <2> QED BY <2>3, <2>4, <2>5
<1> QED
  BY <1>1, <1>2, <1>5 DEF CallInv, PinFlow, ReadFlow, SignedProperly, SpentAtMostOne

\* A PIN goes to VERIFY only if it can be padded.
LEMMA TakePinStep ==
  ASSUME TypeInv, NEW p \in Procs, CallInv(p), ResolvePin(p) \/ AnswerPrompt(p)
  PROVE  CallInv(p)'
<1>1. /\ pc[p] = "pin" /\ UNCHANGED <<req, found, sig, proved, spent, from>>
      /\ req[p].op = "sign" /\ sig[p] = None /\ \A c \in Cards : spent[p][c] = 0
      /\ found[p] = << >>
  BY DEF ResolvePin, AnswerPrompt, worldVars, busVars, resultVars, historyVars, CallInv,
     PinFlow, TypeInv, FoundShape
<1>2. pc'[p] = "drop" \/ (pc'[p] = "verify" /\ ~PinNotPadded(req[p], pin'[p]))
  BY DEF ResolvePin, AnswerPrompt, TakePin, Goto, Leave, TypeInv, TypeOK
<1> QED
  BY <1>1, <1>2 DEF CallInv, PinFlow, ReadFlow, SignedProperly, SpentAtMostOne, FoundProperly

\* VERIFY either proves the PIN to the right reference or ends the call, one
\* try the poorer.
LEMMA SendVerifyStep ==
  ASSUME TypeInv, NEW p \in Procs, CallInv(p), SendVerify(p)
  PROVE  CallInv(p)'
<1> DEFINE c == from[p]
           a == req[p].applet
           ref == RefOf(req[p])
<1>1. /\ pc[p] = "verify" /\ UNCHANGED <<req, pin, found, sig, from>>
      /\ req[p].op = "sign" /\ sig[p] = None /\ found[p] = << >>
      /\ ~PinNotPadded(req[p], pin[p])
      /\ \A d \in Cards : spent[p][d] = 0
  BY DEF SendVerify, busVars, callVars, resultVars, CallInv, PinFlow, TypeInv, FoundShape
<1>2. CASE UNCHANGED <<proved, spent>> /\ pc' = [pc EXCEPT ![p] = "drop"]
  BY <1>1, <1>2, QuietStep
<1>3. CASE /\ proved' = [proved EXCEPT ![p] = @ \cup {<<c, ref>>}] /\ UNCHANGED spent
           /\ PinAccepted(p) \/ AnswerLost(p)
  <2>1. <<c, ref>> \in proved'[p] /\ pc'[p] \in {"sign", "drop"}
    BY <1>3 DEF TypeInv, TypeOK, PinAccepted, AnswerLost, Goto, Leave
  <2> QED
    BY <1>1, <1>3, <2>1 DEF CallInv, PinFlow, ReadFlow, SignedProperly, SpentAtMostOne, FoundProperly
<1>4. CASE /\ ~PinTooLong(req[p], pin[p]) /\ ~PinBlank(req[p], pin[p])
           /\ pin[p] # PinOf[c][a]
           /\ spent' = [spent EXCEPT ![p][c] = @ + 1] /\ UNCHANGED proved
           /\ PinRejected(p) \/ AnswerLost(p)
  <2>1. /\ pc'[p] = "drop" /\ out'[p] \in {"card", "pcsc"}
        /\ \A d \in Cards : spent'[p][d] = IF d = c THEN 1 ELSE 0
    BY <1>1, <1>4 DEF TypeInv, TypeOK, PinRejected, AnswerLost, Leave
  <2>2. SpentAtMostOne(p)'
    BY <1>1, <1>4, <2>1 DEF SpentAtMostOne
  <2> QED
    BY <1>1, <2>1, <2>2 DEF CallInv, PinFlow, ReadFlow, SignedProperly, FoundProperly
<1>5. CASE PinBlank(req[p], pin[p]) /\ PinAccepted(p) /\ UNCHANGED historyVars
  <2>1. pc'[p] = "sign" /\ UNCHANGED <<proved, spent>>
    BY <1>5 DEF PinAccepted, Goto, historyVars, TypeInv, TypeOK
  <2> QED
    BY <1>1, <1>5, <2>1 DEF CallInv, PinFlow, ReadFlow, SignedProperly, SpentAtMostOne, FoundProperly
<1> QED
  BY <1>2, <1>3, <1>4, <1>5 DEF SendVerify, NotServed, AnswerLost, Leave, historyVars

\* The signing command is sent with the PIN proved.
LEMMA SendSignStep ==
  ASSUME TypeInv, NEW p \in Procs, CallInv(p), SendSign(p)
  PROVE  CallInv(p)'
<1>1. /\ pc[p] = "sign" /\ pc' = [pc EXCEPT ![p] = "drop"]
      /\ UNCHANGED <<req, pin, found, proved, spent, from>>
  BY DEF SendSign, AnswerLost, NotServed, Leave, busVars, callVars, historyVars
<1>2. CASE UNCHANGED sig
  BY <1>1, <1>2, QuietStep
<1>3. CASE sig' = [sig EXCEPT ![p] =
                     [key |-> KeyIn[from[p]][req[p].applet][req[p].slot], msg |-> req[p].msg]]
  <2>1. /\ pc'[p] = "drop" /\ req[p].op = "sign" /\ found[p] = << >>
        /\ <<from[p], RefOf(req[p])>> \in proved[p] \/ PinBlank(req[p], pin[p])
        /\ \A c \in Cards : spent[p][c] = 0
    BY <1>1 DEF TypeInv, TypeOK, CallInv, PinFlow, FoundShape
  <2>2. SignedProperly(p)'
    BY <1>1, <1>3, <2>1 DEF SignedProperly, TypeInv, TypeOK, RefOf, WantedRef
  <2> QED
    BY <1>1, <2>1, <2>2 DEF CallInv, PinFlow, ReadFlow, SpentAtMostOne, FoundProperly
<1> QED BY <1>2, <1>3 DEF SendSign

\* The end of a call keeps its results, or drops them with the process.
LEMMA EndStep ==
  ASSUME TypeInv, NEW p \in Procs, CallInv(p), Drop(p) \/ Kill(p)
  PROVE  CallInv(p)'
<1>1. pc'[p] = "idle" /\ UNCHANGED <<req, pin, proved, spent, from>>
  BY DEF Drop, Kill, CloseHandle, ReapHandle, ResetBy, LeaveBy, callVars, historyVars,
     TypeInv, TypeOK
<1>2. CASE UNCHANGED <<out, found, sig>>
  BY <1>1, <1>2 DEF CallInv, PinFlow, ReadFlow, SignedProperly, SpentAtMostOne,
     FoundProperly, SlotAsked
<1>3. CASE out'[p] = "killed" /\ found'[p] = << >> /\ sig'[p] = None
  BY <1>1, <1>3 DEF CallInv, PinFlow, ReadFlow, SignedProperly, SpentAtMostOne,
     FoundProperly
<1>4. Drop(p) => UNCHANGED <<out, found, sig>>
  BY DEF Drop, resultVars
<1>5. Kill(p) => out'[p] = "killed" /\ found'[p] = << >> /\ sig'[p] = None
  BY DEF Kill, TypeInv, TypeOK
<1> QED BY <1>2, <1>3, <1>4, <1>5

-----------------------------------------------------------------------------
(* The theorems about calls.                                                *)

Inv == TypeInv /\ \A p \in Procs : CallInv(p)

\* CallInv holds of every process at first.
LEMMA InitCall == ASSUME Init, NEW p \in Procs PROVE CallInv(p)
  BY DEF Init, CallInv, PinFlow, ReadFlow, SignedProperly, SpentAtMostOne, FoundProperly

\* Every step of the system keeps CallInv of every process.
LEMMA NextCall ==
  ASSUME Inv, [Next]_vars
  PROVE  \A q \in Procs : CallInv(q)'
<1>1. TypeInv /\ TypeOK /\ \A p \in Procs : CallInv(p)
  BY DEF Inv, TypeInv
<1>2. CASE (World /\ UNCHANGED localVars) \/ UNCHANGED vars
  BY <1>1, <1>2, WorldKeepsCalls, CallInvKept
<1>3. ASSUME NEW p \in Procs, Call(p) \/ Step(p) \/ AnswerPrompt(p) \/ Kill(p)
      PROVE  \A q \in Procs : CallInv(q)'
  <2>1. CallInv(p)'
    BY <1>1, <1>3, CallStep, ConnectStep, SelectStep, ReadStep, ScanStep, TakePinStep,
       SendVerifyStep, SendSignStep, EndStep DEF Step
  <2>2. \A q \in Procs \ {p} : CallInv(q)'
    BY <1>1, <1>3, OthersKept, CallInvKept
  <2> QED BY <2>1, <2>2
<1> QED BY <1>2, <1>3 DEF Next

\* Inv is an invariant: the types, and CallInv of every process.
THEOREM Invariance == SafetySpec => []Inv
<1>1. Init => Inv
  BY InitType, InitShape, InitCall DEF Inv, TypeInv
<1>2. Inv /\ [Next]_vars => Inv'
  BY NextType, NextCall DEF Inv
<1> QED BY <1>1, <1>2, PTL DEF SafetySpec

\* A signature comes from the key, card and message asked for, and only after
\* the call's own VERIFY of that card's PIN.
THEOREM SignedWithOwnPinTheorem == Spec => []SignedWithOwnPin
<1>1. Inv => SignedWithOwnPin
  BY DEF Inv, CallInv, SignedWithOwnPin
<1> QED BY <1>1, Invariance, PTL DEF Spec

\* A call costs one try at most, of its own card, and only for a wrong PIN.
THEOREM OneTryPerCallTheorem == Spec => []OneTryPerCall
<1>1. Inv => OneTryPerCall
  BY DEF Inv, CallInv, OneTryPerCall
<1> QED BY <1>1, Invariance, PTL DEF Spec

\* The keys a call reports are those of its own card, each at its own slot.
THEOREM FoundOnOwnCardTheorem == Spec => []FoundOnOwnCard
<1>1. Inv => FoundOnOwnCard
  BY DEF Inv, CallInv, FoundOnOwnCard
<1> QED BY <1>1, Invariance, PTL DEF Spec
-----------------------------------------------------------------------------
(* What the answer of a call that ended well is made of: the callers of the *)
(* library - hosts, tools - build on it.                                    *)

Complete(p) ==
  LET r == req[p] IN
  /\ from[p] \in Cards
  /\ IF r.op = "sign" THEN found[p] = << >> /\ sig[p] # None ELSE sig[p] = None
  /\ r.op \in {"get_pubkey", "detect_account"} => Len(found[p]) = 1 /\ found[p][1] # None
  /\ r.op = "get_pubkey" => found[p][1].as = r.curve
  /\ r.op = "list_accounts" => Len(found[p]) = Len(PivSlots)

AnswerFlow(p) ==
  /\ pc[p] \notin {"idle", "drop"} => out[p] = "running"
  /\ out[p] = "ok" => Complete(p)
  /\ pc[p] # "idle" \/ out[p] = "ok" => Supported(req[p])
  /\ req[p].op = "list_accounts" =>
       \A i \in DOMAIN found[p] : found[p][i] # None => found[p][i].as = "ed25519"

\* It depends on LocalOf only.
LEMMA AnswerKept ==
  ASSUME NEW p, AnswerFlow(p), LocalOf(p)' = LocalOf(p)
  PROVE  AnswerFlow(p)'
<1>1. /\ pc'[p] = pc[p] /\ out'[p] = out[p] /\ req'[p] = req[p] /\ found'[p] = found[p]
      /\ sig'[p] = sig[p] /\ from'[p] = from[p]
  BY DEF LocalOf
<1> QED BY <1>1 DEF AnswerFlow, Complete

\* A step to another command, or to a failure, has no answer yet.
LEMMA NoAnswerStep ==
  ASSUME TypeInv, NEW p \in Procs, AnswerFlow(p), pc[p] \notin {"idle", "drop"},
         UNCHANGED <<req, found>>, NEW step \in Steps, NEW o \in Outcomes \ {"ok"},
         pc' = [pc EXCEPT ![p] = step], out' = [out EXCEPT ![p] = o],
         o = "running" \/ step \in {"idle", "drop"}
  PROVE  AnswerFlow(p)'
<1>1. pc'[p] = step /\ out'[p] = o /\ o # "ok"
  BY DEF TypeInv, TypeOK
<1> QED BY <1>1 DEF AnswerFlow

\* A new call has none.
LEMMA CallAnswer ==
  ASSUME TypeInv, NEW p \in Procs, Call(p)
  PROVE  AnswerFlow(p)'
<1>1. PICK r \in Requests : CallFor(p, r)
  BY DEF Call
<1>2. /\ found'[p] = << >> /\ req'[p] = r
      /\ pc'[p] = IF Supported(r) THEN "connect" ELSE "idle"
      /\ out'[p] = IF Supported(r) THEN "running" ELSE "unsupported"
  BY <1>1 DEF CallFor, TypeInv, TypeOK
<1> QED BY <1>2 DEF AnswerFlow

\* Nor has one that connects, selects an applet, or takes and verifies a PIN.
LEMMA OpeningAnswer ==
  ASSUME TypeInv, NEW p \in Procs, AnswerFlow(p),
         Connect(p) \/ Select(p) \/ ResolvePin(p) \/ AnswerPrompt(p) \/ SendVerify(p)
  PROVE  AnswerFlow(p)'
<1>1. pc[p] \in {"connect", "select", "pin", "verify"} /\ UNCHANGED <<req, found>>
  BY DEF Connect, Select, ResolvePin, AnswerPrompt, SendVerify, callVars, resultVars
<1>2. out[p] = "running" /\ out = [out EXCEPT ![p] = "running"]
  BY <1>1 DEF AnswerFlow, TypeInv, TypeOK
<1>3. \E step \in Steps, o \in Outcomes \ {"ok"} :
        /\ pc' = [pc EXCEPT ![p] = step] /\ out' = [out EXCEPT ![p] = o]
        /\ o = "running" \/ step \in {"idle", "drop"}
  <2>1. CASE \E step \in Steps : Goto(p, step)
    BY <1>2, <2>1 DEF Goto, Outcomes
  <2>2. CASE \E o \in Outcomes \ {"ok"} : Leave(p, o)
    BY <2>2 DEF Leave, Steps
  <2>3. CASE Connect(p)
    BY <2>1, <2>3 DEF Connect, Steps, Outcomes, Errors
  <2>4. CASE Select(p)
    BY <2>1, <2>2, <2>4 DEF Select, AfterSelect, AnswerLost, NotServed, Steps, Outcomes, Errors
  <2>5. CASE ResolvePin(p) \/ AnswerPrompt(p)
    BY <2>1, <2>2, <2>5 DEF ResolvePin, AnswerPrompt, TakePin, Steps, Outcomes, Errors
  <2>6. CASE SendVerify(p)
    BY <2>1, <2>2, <2>6 DEF SendVerify, PinAccepted, PinRejected, AnswerLost, NotServed, Steps,
       Outcomes, Errors
  <2> QED BY <2>3, <2>4, <2>5, <2>6
<1> QED BY <1>1, <1>3, NoAnswerStep

\* A key read is an answer of one entry, for the curve asked for.
LEMMA ReadAnswer ==
  ASSUME TypeInv, NEW p \in Procs, CallInv(p), AnswerFlow(p), Read(p)
  PROVE  AnswerFlow(p)'
<1> DEFINE key == Stored(from[p], req[p].applet, req[p].slot)
           e == Extract(key, req[p])
<1>1. pc[p] = "read" /\ UNCHANGED <<req, sig, from>>
  BY DEF Read, worldVars, busVars, callVars
<1>2. CASE UNCHANGED found
  <2>1. \E o \in Outcomes \ {"ok"} : Leave(p, o)
    <3>1. CASE Leave(p, "not_found") \/ NotServed(p, selected[from[p]] = req[p].applet /\ key # None)
      BY <3>1 DEF NotServed, Outcomes, Errors
    <3>2. CASE e # None /\ found' = [found EXCEPT ![p] = <<e>>]
      BY <1>1, <1>2, <3>2 DEF TypeInv, TypeOK, FoundShape
    <3> QED BY <3>1, <3>2 DEF Read
  <2> QED BY <1>1, <1>2, <2>1, NoAnswerStep DEF Leave, Steps
<1>3. CASE e # None /\ found' = [found EXCEPT ![p] = <<e>>] /\ Leave(p, "ok")
  <2>1. pc'[p] = "drop" /\ out'[p] = "ok" /\ found'[p] = <<e>>
    BY <1>3 DEF Leave, TypeInv, TypeOK
  <2>2. /\ sig[p] = None /\ from[p] \in Cards /\ req[p].op # "list_accounts"
        /\ req[p].op # "sign" /\ Supported(req[p])
    BY <1>1, InSession DEF CallInv, PinFlow, ReadFlow, AnswerFlow
  <2>3. req[p].op = "get_pubkey" => e.as = req[p].curve
    BY <1>3 DEF Extract
  <2> QED BY <1>1, <1>3, <2>1, <2>2, <2>3 DEF AnswerFlow, Complete
<1> QED BY <1>2, <1>3 DEF Read

\* A listing is an answer once it has read every slot.
LEMMA ScanAnswer ==
  ASSUME TypeInv, NEW p \in Procs, CallInv(p), AnswerFlow(p), Scan(p)
  PROVE  AnswerFlow(p)'
<1>1. /\ pc[p] = "scan" /\ UNCHANGED <<req, sig, from>>
      /\ found[p] \in Seq(Entries \cup {None}) /\ Len(found[p]) < Len(PivSlots)
  BY DEF Scan, worldVars, busVars, callVars, TypeInv, TypeOK, FoundShape
<1>2. /\ sig[p] = None /\ from[p] \in Cards /\ req[p].op = "list_accounts"
      /\ Supported(req[p]) /\ out[p] = "running"
  BY <1>1, InSession DEF CallInv, PinFlow, ReadFlow, AnswerFlow
<1>3. PICK entry \in Fetched(p) : found'[p] = Append(found[p], entry)
  BY DEF Scan, Collect, TypeInv, TypeOK
<1>4. entry \in Entries \cup {None} /\ (entry # None => entry.as = "ed25519")
  BY <1>1, FetchedType DEF Fetched
<1>5. /\ Len(found'[p]) = Len(found[p]) + 1
      /\ \A i \in DOMAIN found'[p] :
           found'[p][i] # None => found'[p][i].as = "ed25519"
  <2>1. /\ DOMAIN found'[p] = 1 .. Len(found[p]) + 1 /\ DOMAIN found[p] = 1 .. Len(found[p])
        /\ Len(found[p]) \in Nat /\ Len(found'[p]) = Len(found[p]) + 1
        /\ \A i \in 1 .. Len(found[p]) : found'[p][i] = found[p][i]
        /\ found'[p][Len(found[p]) + 1] = entry
    BY <1>1, <1>3, <1>4
  <2>2. \A i \in DOMAIN found[p] : found[p][i] # None => found[p][i].as = "ed25519"
    BY <1>2 DEF AnswerFlow
  <2>3. \A i \in 1 .. Len(found[p]) + 1 : i \in 1 .. Len(found[p]) \/ i = Len(found[p]) + 1
    BY <2>1
  <2> QED BY <1>4, <2>1, <2>2, <2>3
<1>6. \/ Len(found[p]) + 1 < Len(PivSlots) /\ pc'[p] = "scan" /\ out' = out
      \/ Len(found[p]) + 1 = Len(PivSlots) /\ pc'[p] = "drop" /\ out'[p] = "ok"
  BY <1>1 DEF Scan, Goto, Leave, TypeInv, TypeOK
<1> QED BY <1>1, <1>2, <1>5, <1>6 DEF AnswerFlow, Complete

\* A signature is one.
LEMMA SignAnswer ==
  ASSUME TypeInv, NEW p \in Procs, CallInv(p), AnswerFlow(p), SendSign(p)
  PROVE  AnswerFlow(p)'
<1>1. pc[p] = "sign" /\ UNCHANGED <<req, found, from>>
  BY DEF SendSign, busVars, callVars
<1>2. CASE \E o \in Outcomes \ {"ok"} : Leave(p, o)
  BY <1>1, <1>2, NoAnswerStep DEF Leave, Steps
<1>3. CASE /\ Leave(p, "ok")
           /\ \E k \in Keys : sig' = [sig EXCEPT ![p] = [key |-> k, msg |-> req[p].msg]]
  <2>1. /\ from[p] \in Cards /\ found[p] = << >> /\ req[p].op = "sign"
        /\ Supported(req[p]) /\ req[p].msg \in Msgs
    BY <1>1, InSession DEF TypeInv, CallInv, PinFlow, AnswerFlow, FoundShape
  <2>2. pc'[p] = "drop" /\ out'[p] = "ok" /\ sig'[p] # None
    BY <1>3, <2>1 DEF Leave, TypeInv, TypeOK, Signatures
  <2> QED BY <1>1, <2>1, <2>2 DEF AnswerFlow, Complete
<1>4. CanSign(from[p], req[p].applet, req[p].slot) =>
        KeyIn[from[p]][req[p].applet][req[p].slot] \in Keys
  BY <1>1, InSession DEF CanSign
<1> QED BY <1>2, <1>3, <1>4 DEF SendSign, AnswerLost, NotServed, Outcomes, Errors

\* The end of a call keeps its answer, or drops it with the process.
LEMMA EndAnswer ==
  ASSUME TypeInv, NEW p \in Procs, AnswerFlow(p), Drop(p) \/ Kill(p)
  PROVE  AnswerFlow(p)'
<1>1. pc'[p] = "idle" /\ UNCHANGED <<req, from>> /\ pc[p] # "idle"
  BY DEF Drop, Kill, CloseHandle, ReapHandle, ResetBy, LeaveBy, callVars, TypeInv, TypeOK
<1>2. Drop(p) => UNCHANGED <<out, found, sig>>
  BY DEF Drop, resultVars
<1>3. Kill(p) => out'[p] = "killed" /\ found'[p] = << >>
  BY DEF Kill, TypeInv, TypeOK
<1> QED BY <1>1, <1>2, <1>3 DEF AnswerFlow, Complete

\* The calls of every process, with what they may answer.
CallsInv == Inv /\ \A p \in Procs : AnswerFlow(p)

\* A call that ends well has all of what it was asked for, and nothing else.
THEOREM AnswerInvariance == SafetySpec => []CallsInv
<1>1. Init /\ Inv => CallsInv
  BY DEF Init, AnswerFlow, CallsInv
<1>2. CallsInv /\ [Next]_vars => \A q \in Procs : AnswerFlow(q)'
  <2> SUFFICES ASSUME CallsInv, [Next]_vars PROVE \A q \in Procs : AnswerFlow(q)'
    OBVIOUS
  <2>1. TypeInv /\ TypeOK /\ \A p \in Procs : CallInv(p) /\ AnswerFlow(p)
    BY DEF CallsInv, Inv, TypeInv
  <2>2. CASE (World /\ UNCHANGED localVars) \/ UNCHANGED vars
    BY <2>1, <2>2, WorldKeepsCalls, AnswerKept
  <2>3. ASSUME NEW p \in Procs, Call(p) \/ Step(p) \/ AnswerPrompt(p) \/ Kill(p)
        PROVE  \A q \in Procs : AnswerFlow(q)'
    <3>1. AnswerFlow(p)'
      BY <2>1, <2>3, CallAnswer, OpeningAnswer, ReadAnswer, ScanAnswer, SignAnswer, EndAnswer
      DEF Step
    <3>2. \A q \in Procs \ {p} : AnswerFlow(q)'
      BY <2>1, <2>3, OthersKept, AnswerKept
    <3> QED BY <3>1, <3>2
  <2> QED BY <2>2, <2>3 DEF Next
<1>3. CallsInv /\ Inv' /\ [Next]_vars => CallsInv'
  BY <1>2 DEF CallsInv
<1> QED BY <1>1, <1>3, Invariance, PTL DEF SafetySpec

\* A call that has read a key has read it in the slot asked for, on its own
\* card; PIV has refused all curves but one.
LEMMA KeyAnswered ==
  ASSUME CallsInv, NEW p \in Procs, out[p] = "ok",
         req[p].op \in {"get_pubkey", "detect_account"}
  PROVE  LET e == found[p][1] IN
         /\ from[p] \in Cards /\ e \in Entries /\ Supported(req[p])
         /\ found[p] = <<e>> /\ sig[p] = None
         /\ e.key = Stored(from[p], req[p].applet, req[p].slot) /\ ReadsAs(e.key, e.as)
         /\ req[p].op = "get_pubkey" => e.as = req[p].curve
<1>1. TypeOK /\ FoundProperly(p) /\ Complete(p) /\ Supported(req[p])
  BY DEF CallsInv, Inv, TypeInv, CallInv, AnswerFlow
<1>2. /\ from[p] \in Cards /\ Len(found[p]) = 1 /\ found[p][1] # None /\ sig[p] = None
      /\ found[p] \in Seq(Entries \cup {None})
      /\ req[p].op = "get_pubkey" => found[p][1].as = req[p].curve
  BY <1>1 DEF TypeOK, Complete
<1>3. 1 \in DOMAIN found[p] /\ found[p][1] \in Entries /\ found[p] = <<found[p][1]>>
  BY <1>2
<1> QED BY <1>1, <1>2, <1>3 DEF FoundProperly, SlotAsked

\* A call that has listed the slots has read the certificates of its own card.
LEMMA ListAnswered ==
  ASSUME CallsInv, NEW p \in Procs, out[p] = "ok",
         req[p].op = "list_accounts", req[p].applet = "piv"
  PROVE  /\ from[p] \in Cards /\ sig[p] = None
         /\ found[p] \in Seq(Entries \cup {None}) /\ DOMAIN found[p] = DOMAIN PivSlots
         /\ \A i \in DOMAIN found[p] :
              found[p][i] # None =>
                /\ found[p][i] \in Entries /\ found[p][i].as = "ed25519"
                /\ found[p][i].key = Stored(from[p], "piv", PivSlots[i])
                /\ ReadsAs(found[p][i].key, "ed25519")
<1>1. TypeOK /\ FoundProperly(p) /\ Complete(p) /\ AnswerFlow(p)
  BY DEF CallsInv, Inv, TypeInv, CallInv, AnswerFlow
<1>2. /\ from[p] \in Cards /\ sig[p] = None /\ found[p] \in Seq(Entries \cup {None})
      /\ Len(found[p]) = Len(PivSlots)
  BY <1>1 DEF TypeOK, Complete
<1>3. DOMAIN PivSlots = 1 .. Len(PivSlots) /\ DOMAIN found[p] = 1 .. Len(found[p])
  BY <1>2
<1>4. /\ DOMAIN found[p] = DOMAIN PivSlots
      /\ \A i \in DOMAIN found[p] : found[p][i] \in Entries \cup {None}
  BY <1>2, <1>3
<1>5. \A i \in DOMAIN found[p] : found[p][i] # None => found[p][i].as = "ed25519"
  BY <1>1 DEF AnswerFlow
<1> QED BY <1>1, <1>2, <1>4, <1>5 DEF FoundProperly, SlotAsked

\* A call that has signed has a signature over its own message, by the key in
\* the slot asked for of its own card.
LEMMA SignatureAnswered ==
  ASSUME CallsInv, NEW p \in Procs, out[p] = "ok", req[p].op = "sign"
  PROVE  /\ from[p] \in Cards /\ found[p] = << >> /\ sig[p] \in Signatures
         /\ sig[p] # None /\ sig[p].msg = req[p].msg
         /\ sig[p].key = KeyIn[from[p]][req[p].applet][req[p].slot]
<1>1. TypeOK /\ SignedProperly(p) /\ Complete(p)
  BY DEF CallsInv, Inv, TypeInv, CallInv, AnswerFlow
<1> QED BY <1>1 DEF TypeOK, Complete, SignedProperly

-----------------------------------------------------------------------------
(* No PIN is left verified.  This one is about the card and all sessions    *)
(* together: a step of p may reset the card under the others, and the       *)
(* others' claims to a verified PIN must go with it.                        *)

Entitled(p, c, ref) ==
  /\ handle[p] = "open" /\ from[p] = c
  /\ <<c, ref>> \in proved[p]
  /\ pc[p] \in {"sign", "drop"}

OwnersEntitled ==
  \A c \in Cards, ref \in PinRefs, q \in Procs : auth[c][ref] = q => Entitled(q, c, ref)

\* The property, in a form without a choice of the owner.
LEMMA EntitledOwners ==
  /\ NoPinLeftVerified <=> OwnersEntitled
  /\ NoPinLeftVerified' <=> OwnersEntitled'
<1>1. NoPinLeftVerified <=> OwnersEntitled
  BY DEF NoPinLeftVerified, OwnersEntitled, Entitled
<1>2. NoPinLeftVerified' <=> OwnersEntitled'
  BY DEF NoPinLeftVerified, OwnersEntitled, Entitled
<1> QED BY <1>1, <1>2

\* A step of p that leaves the other handles alone may take verified PINs
\* away, or give p one it has proved; and p stays entitled to what it has.
LEMMA OwnersKept ==
  ASSUME NoPinLeftVerified, NEW p \in Procs,
         \A q \in Procs \ {p} : LocalOf(q)' = LocalOf(q) /\ handle'[q] = handle[q],
         \A c \in Cards, ref \in PinRefs :
           \/ auth'[c][ref] \in {auth[c][ref], None, Scdaemon}
           \/ auth'[c][ref] = p /\ Entitled(p, c, ref)',
         \/ pc[p] \notin {"sign", "drop"}
         \/ /\ pc'[p] \in {"sign", "drop"} /\ handle'[p] = handle[p]
            /\ from'[p] = from[p] /\ proved'[p] = proved[p]
  PROVE  NoPinLeftVerified'
<1>1. SUFFICES ASSUME NEW c \in Cards, NEW ref \in PinRefs, NEW q \in Procs,
                      auth'[c][ref] = q
               PROVE  Entitled(q, c, ref)'
  BY EntitledOwners DEF OwnersEntitled
<1>2. CASE auth[c][ref] = q
  <2>1. Entitled(q, c, ref)
    BY <1>2, EntitledOwners DEF OwnersEntitled
  <2>2. CASE q = p
    BY <2>1, <2>2 DEF Entitled
  <2>3. CASE q # p
    BY <2>1, <2>3 DEF Entitled, LocalOf
  <2> QED BY <2>2, <2>3
<1>3. CASE auth[c][ref] # q
  <2>1. q # None /\ q # Scdaemon
    BY CardAssumption
  <2>2. q = p /\ Entitled(p, c, ref)'
    BY <1>1, <1>3, <2>1
  <2> QED BY <2>2
<1> QED BY <1>2, <1>3

\* A card that is reset or pulled out has nobody verified, and the sessions on
\* other cards keep their handles.
LEMMA OwnersOfCardGone ==
  ASSUME TypeOK, NoPinLeftVerified, NEW c \in Cards,
         auth' = [auth EXCEPT ![c] = NobodyVerified],
         \A q \in Procs : from[q] # c =>
           /\ handle'[q] = handle[q] /\ from'[q] = from[q]
           /\ proved'[q] = proved[q] /\ pc'[q] = pc[q]
  PROVE  NoPinLeftVerified'
<1>1. SUFFICES ASSUME NEW d \in Cards, NEW ref \in PinRefs, NEW q \in Procs,
                      auth'[d][ref] = q
               PROVE  Entitled(q, d, ref)'
  BY EntitledOwners DEF OwnersEntitled
<1>2. d # c /\ auth[d][ref] = q
  BY <1>1 DEF TypeOK, CardTypeOK, NobodyVerified
<1>3. Entitled(q, d, ref)
  BY <1>2, EntitledOwners DEF OwnersEntitled
<1> QED BY <1>2, <1>3 DEF Entitled

\* Steps that send no command leave verified PINs and claims as they are.
LEMMA OwnersAtQuietStep ==
  ASSUME TypeOK, NoPinLeftVerified, NEW p \in Procs,
         Call(p) \/ Connect(p) \/ Read(p) \/ Scan(p) \/ ResolvePin(p) \/ AnswerPrompt(p)
  PROVE  NoPinLeftVerified'
<1>1. pc[p] \notin {"sign", "drop"}
  BY DEF Call, CallFor, Connect, Read, Scan, ResolvePin, AnswerPrompt
<1>2. auth' = auth /\ \A q \in Procs \ {p} : handle'[q] = handle[q]
  BY DEF TypeOK, CardTypeOK, Call, CallFor, Connect, OpenHandle, Read, Scan, ResolvePin, AnswerPrompt,
     worldVars, busVars, cardVars
<1> QED BY <1>1, <1>2, OthersKept, OwnersKept DEF Step

\* SELECT only takes verifications away.
LEMMA OwnersAtSelect ==
  ASSUME TypeInv, NoPinLeftVerified, NEW p \in Procs, Select(p)
  PROVE  NoPinLeftVerified'
<1>1. pc[p] = "select" /\ handle' = handle /\ TypeOK /\ from[p] \in Cards
  BY InSession DEF Select, busVars, TypeInv
<1>2. \A c \in Cards, ref \in PinRefs : auth'[c][ref] \in {auth[c][ref], None}
  <2>1. CASE UNCHANGED auth
    BY <2>1
  <2>2. CASE \E kept :
               auth' = [auth EXCEPT ![from[p]] =
                          [ref \in PinRefs |-> IF ref \in kept THEN auth[from[p]][ref] ELSE None]]
    BY <1>1, <2>2 DEF TypeOK, CardTypeOK
  <2> QED BY <2>1, <2>2 DEF Select, SelectApplet, cardVars
<1> QED BY <1>1, <1>2, OthersKept, OwnersKept DEF Step

\* VERIFY gives p a verification only for what it has just proved.
LEMMA OwnersAtVerify ==
  ASSUME TypeInv, NoPinLeftVerified, NEW p \in Procs, SendVerify(p)
  PROVE  NoPinLeftVerified'
<1> DEFINE c == from[p]
           a == req[p].applet
           ref == RefOf(req[p])
<1>1. /\ pc[p] = "verify" /\ UNCHANGED <<handle, from>> /\ TypeOK
      /\ c \in Cards /\ ref \in PinRefs
  BY InSession DEF SendVerify, busVars, TypeInv
<1>2. CASE UNCHANGED cardVars
  BY <1>1, <1>2, OthersKept, OwnersKept DEF Step, cardVars
<1>3. CASE /\ AcceptPin(p, c, a, ref) /\ handle[p] = "open"
           /\ proved' = [proved EXCEPT ![p] = @ \cup {<<c, ref>>}]
           /\ PinAccepted(p) \/ AnswerLost(p)
  <2>1. /\ handle'[p] = "open" /\ from'[p] = c
        /\ <<c, ref>> \in proved'[p] /\ pc'[p] \in {"sign", "drop"}
    BY <1>1, <1>3 DEF PinAccepted, AnswerLost, Goto, Leave, TypeOK
  <2>2. \A d \in Cards, r \in PinRefs :
          auth'[d][r] = auth[d][r] \/ (d = c /\ r = ref /\ auth'[d][r] = p)
    BY <1>1, <1>3 DEF AcceptPin, TypeOK, CardTypeOK
  <2> HIDE DEF c, ref
  <2>3. \A d \in Cards, r \in PinRefs :
          \/ auth'[d][r] \in {auth[d][r], None, Scdaemon}
          \/ auth'[d][r] = p /\ Entitled(p, d, r)'
    BY <2>1, <2>2 DEF Entitled
  <2> QED BY <1>1, <2>3, OthersKept, OwnersKept DEF Step
<1>4. CASE RejectPin(c, a, ref)
  <2>1. \A d \in Cards, r \in PinRefs : auth'[d][r] \in {auth[d][r], None}
    BY <1>1, <1>4 DEF RejectPin, TypeOK, CardTypeOK
  <2> QED BY <1>1, <2>1, OthersKept, OwnersKept DEF Step
<1> QED BY <1>2, <1>3, <1>4 DEF SendVerify

\* A signature only takes a verification away.
LEMMA OwnersAtSign ==
  ASSUME TypeInv, NoPinLeftVerified, NEW p \in Procs, SendSign(p)
  PROVE  NoPinLeftVerified'
<1>1. /\ pc[p] = "sign" /\ pc'[p] = "drop" /\ UNCHANGED <<handle, from, proved>> /\ TypeOK
      /\ from[p] \in Cards /\ WantedRef(req[p].applet, req[p].slot) \in PinRefs
  BY InSession
  DEF SendSign, AnswerLost, NotServed, Leave, busVars, historyVars, TypeInv, TypeOK
<1>2. UNCHANGED auth \/ UsePin(from[p], WantedRef(req[p].applet, req[p].slot))
  BY DEF SendSign, cardVars
<1>3. \A c \in Cards, ref \in PinRefs : auth'[c][ref] \in {auth[c][ref], None}
  <2> DEFINE used == WantedRef(req[p].applet, req[p].slot)
  <2>1. CASE UNCHANGED auth
    BY <2>1
  <2>2. CASE auth' = [auth EXCEPT ![from[p]][used] = None]
    BY <1>1, <2>2 DEF TypeOK, CardTypeOK
  <2> QED BY <1>2, <2>1, <2>2 DEF UsePin
<1> QED BY <1>1, <1>3, OthersKept, OwnersKept DEF Step

\* A session that ends with its handle good takes every verification on the
\* card with it; one whose handle was reset or is gone had none.
LEMMA OwnersAtEnd ==
  ASSUME TypeInv, NoPinLeftVerified, NEW p \in Procs, Drop(p) \/ Kill(p)
  PROVE  NoPinLeftVerified'
<1>1. TypeOK /\ CardTypeOK /\ pc' = [pc EXCEPT ![p] = "idle"] /\ UNCHANGED proved
  BY DEF TypeInv, TypeOK, Drop, Kill, historyVars
<1>2. CASE handle[p] \in {"open", "reset"} /\ ResetBy(p)
  <2>1. from[p] \in Cards
    BY <1>1, <1>2 DEF CardTypeOK
  <2>2. \A q \in Procs : from[q] # from[p] =>
          handle'[q] = handle[q] /\ from'[q] = from[q] /\ pc'[q] = pc[q]
    BY <1>1, <1>2 DEF ResetBy, TypeOK
  <2>3. auth' = [auth EXCEPT ![from[p]] = NobodyVerified]
    BY <1>2 DEF ResetBy
  <2> QED BY <1>1, <2>1, <2>2, <2>3, OwnersOfCardGone
<1>3. CASE handle[p] # "open" /\ LeaveBy(p)
  <2>1. auth' = auth /\ from' = from /\ \A q \in Procs \ {p} : handle'[q] = handle[q] /\ pc'[q] = pc[q]
    BY <1>1, <1>3 DEF LeaveBy, cardVars, TypeOK, CardTypeOK
  <2>2. SUFFICES ASSUME NEW c \in Cards, NEW ref \in PinRefs, NEW q \in Procs,
                        auth'[c][ref] = q
                 PROVE  Entitled(q, c, ref)'
    BY EntitledOwners DEF OwnersEntitled
  <2>3. Entitled(q, c, ref)
    BY <2>1, <2>2, EntitledOwners DEF OwnersEntitled
  <2>4. q # p
    BY <1>3, <2>3 DEF Entitled
  <2> QED BY <1>1, <2>1, <2>3, <2>4 DEF Entitled
<1> QED BY <1>2, <1>3 DEF Drop, Kill, CloseHandle, ReapHandle

\* A card pulled out, or left by scdaemon, holds no verification of a process.
LEMMA OwnersAtWorld ==
  ASSUME TypeOK, NoPinLeftVerified, World /\ UNCHANGED localVars
  PROVE  NoPinLeftVerified'
<1> PICK c \in Cards : Plug(c) \/ Unplug(c) \/ ScdaemonOpens(c) \/ ScdaemonCloses(c)
  BY DEF World
<1>1. UNCHANGED <<pc, from, proved>>
  BY DEF Plug, Unplug, ScdaemonOpens, ScdaemonCloses, localVars, progressVars, historyVars
<1>2. CASE Plug(c) \/ ScdaemonOpens(c)
  BY <1>1, <1>2 DEF Plug, ScdaemonOpens, cardVars, NoPinLeftVerified
<1>3. CASE Unplug(c)
  <2>1. /\ \A q \in Procs : from[q] # c => handle'[q] = handle[q]
        /\ auth' = [auth EXCEPT ![c] = NobodyVerified]
    BY <1>3 DEF Unplug
  <2> QED BY <1>1, <2>1, OwnersOfCardGone
<1>4. CASE ScdaemonCloses(c)
  <2>1. handle' = handle
    BY <1>4 DEF ScdaemonCloses
  <2>2. SUFFICES ASSUME NEW d \in Cards, NEW ref \in PinRefs, NEW q \in Procs,
                        auth'[d][ref] = q
                 PROVE  Entitled(q, d, ref)'
    BY EntitledOwners DEF OwnersEntitled
  <2>3. q # None /\ q # Scdaemon
    BY CardAssumption
  <2>4. auth[d][ref] = q
    BY <1>4, <2>2, <2>3 DEF ScdaemonCloses, TypeOK, CardTypeOK
  <2>5. Entitled(q, d, ref)
    BY <2>4, EntitledOwners DEF OwnersEntitled
  <2> QED BY <1>1, <2>1, <2>5 DEF Entitled
<1> QED BY <1>2, <1>3, <1>4

\* At no time is a PIN verified on a card by a call that has ended: the
\* property is inductive over TypeInv.
THEOREM OwnersInvariance == SafetySpec => []NoPinLeftVerified
<1>1. Init => NoPinLeftVerified
  BY CardAssumption DEF Init, CardInit, NobodyVerified, NoPinLeftVerified
<1>2. TypeInv /\ NoPinLeftVerified /\ [Next]_vars => NoPinLeftVerified'
  <2> SUFFICES ASSUME TypeInv, NoPinLeftVerified, [Next]_vars
               PROVE  NoPinLeftVerified'
    OBVIOUS
  <2>1. TypeOK
    BY DEF TypeInv
  <2>2. CASE UNCHANGED vars
    BY <2>2 DEF vars, worldVars, busVars, cardVars, localVars, progressVars, historyVars,
       NoPinLeftVerified
  <2>3. CASE World /\ UNCHANGED localVars
    BY <2>1, <2>3, OwnersAtWorld
  <2>4. CASE \E p \in Procs : Call(p) \/ Step(p) \/ AnswerPrompt(p) \/ Kill(p)
    BY <2>1, <2>4, OwnersAtQuietStep, OwnersAtSelect, OwnersAtVerify, OwnersAtSign,
       OwnersAtEnd DEF Step
  <2> QED BY <2>2, <2>3, <2>4 DEF Next
<1> QED BY <1>1, <1>2, TypeInvariance, PTL DEF SafetySpec

\* However calls end, no PIN they had verified outlives them on the card.
THEOREM NoPinLeftVerifiedTheorem == Spec => []NoPinLeftVerified
  BY OwnersInvariance, PTL DEF Spec
=============================================================================
