----------------------- MODULE UndisturbedCall_proofs -----------------------
(***************************************************************************)
(* Theorems of UndisturbedCall: a call that nobody touches gets what its   *)
(* card has for it, for any cards, keys, messages and processes.           *)
(***************************************************************************)
EXTENDS UndisturbedCall, CardSession_proofs

USE CardAssumption, SessionAssumption, QuietAssumption

\* Watching the calls changes nothing of them.
THEOREM WatchedRefinesLibrary == WatchedSpec => SafetySpec
<1>1. WatchedInit => Init
  BY DEF WatchedInit
<1>2. [WatchedNext]_<<vars, disturbed>> => [Next]_vars
  BY DEF WatchedNext
<1> QED BY <1>1, <1>2, PTL DEF WatchedSpec, SafetySpec

-----------------------------------------------------------------------------
(* The inductive invariant: the session of a call that was left alone has   *)
(* its card as the call itself has put it, and the call misses nothing.     *)

\* A listing has the readable ones of the slots it has read.
MissesNone(p) ==
  \A i \in DOMAIN found[p] :
    LET key == CertIn[from[p]][PivSlots[i]] IN
    key # None /\ ReadsAs(key, "ed25519") => found[p][i] # None

\* The consequent of the property.
Succeeds(p) ==
  LET r == req[p]
      c == from[p] IN
  /\ out[p] = "ok" \/ (r.op = "sign" /\ tries[c][r.applet] = 0)
  /\ r.op = "list_accounts" =>
       \A i \in DOMAIN PivSlots :
         LET key == CertIn[c][PivSlots[i]] IN
         key # None /\ ReadsAs(key, "ed25519") => found[p][i] # None

InCommand == {"select", "read", "scan", "pin", "verify", "sign"}

SessionQuiet(p) ==
  LET r == req[p]
      c == from[p] IN
  /\ pc[p] \in InCommand => handle[p] = "open"
  /\ pc[p] \in InCommand \ {"select"} => selected[c] = r.applet
  /\ pc[p] = "sign" => auth[c][RefOf(r)] # None
  /\ pc[p] = "scan" => MissesNone(p)
  /\ (/\ pc[p] \in {"drop", "idle"} /\ c # None /\ out[p] \notin {"killed", "io"}
      /\ Served(c, r, pin[p])) => Succeeds(p)

QuietInv(p) ==
  /\ pc[p] = "connect" => from[p] = None
  /\ from[p] # None => req[p] \in RequestType
  /\ ~disturbed[p] => SessionQuiet(p)

WatchedInv ==
  /\ disturbed \in [Procs -> BOOLEAN]
  /\ \A p \in Procs : QuietInv(p)

-----------------------------------------------------------------------------
(* What others do.                                                          *)

\* A call that is undisturbed has been so before, and was not touched.
LEMMA StillUndisturbed ==
  ASSUME Watch, NEW p \in Procs, ~disturbed'[p], pc[p] # "idle" \/ pc'[p] # "connect"
  PROVE  ~disturbed[p] /\ ~Touched(p)
  BY DEF Watch

\* A blocked PIN stays blocked: nothing here resets it.
LEMMA BlockedStays ==
  ASSUME TypeInv, [Next]_vars, NEW c \in Cards, NEW a \in Applets, tries[c][a] = 0
  PROVE  tries'[c][a] = 0
<1>1. CASE UNCHANGED tries
  BY <1>1
<1>2. CASE World
  <2>1. UNCHANGED tries
    BY <1>2 DEF World, Plug, Unplug, ScdaemonOpens, ScdaemonCloses, cardVars
  <2> QED BY <2>1
<1>3. ASSUME NEW p \in Procs,
             \/ Call(p) \/ Connect(p) \/ Select(p) \/ Read(p) \/ Scan(p) \/ ResolvePin(p)
             \/ AnswerPrompt(p) \/ SendSign(p) \/ Drop(p) \/ Kill(p)
      PROVE  UNCHANGED tries
  <2>1. CASE Call(p) \/ Connect(p) \/ Read(p) \/ Scan(p) \/ ResolvePin(p) \/ AnswerPrompt(p)
    BY <2>1 DEF Call, CallFor, Connect, OpenHandle, Read, Scan, ResolvePin, AnswerPrompt, worldVars,
       cardVars
  <2>2. CASE Select(p)
    BY <2>2 DEF Select, SelectApplet, cardVars
  <2>3. CASE SendSign(p)
    BY <2>3 DEF SendSign, UsePin, cardVars
  <2>4. CASE Drop(p) \/ Kill(p)
    BY <2>4 DEF Drop, Kill, CloseHandle, ReapHandle, ResetBy, LeaveBy, cardVars
  <2> QED BY <1>3, <2>1, <2>2, <2>3, <2>4
<1>4. ASSUME NEW p \in Procs, SendVerify(p) PROVE tries'[c][a] = 0
  <2> DEFINE own == from[p]
             x == req[p].applet
  <2>1. own \in Cards /\ x \in Applets /\ tries \in [Cards -> [Applets -> 0 .. MaxTries]]
    BY <1>4, InSession DEF SendVerify, TypeInv, TypeOK, CardTypeOK
  <2>2. CASE UNCHANGED cardVars
    BY <2>2 DEF cardVars
  <2>3. CASE /\ tries[own][x] > 0
             /\ \E n : tries' = [tries EXCEPT ![own][x] = n]
    <3>1. c # own \/ a # x
      BY <2>3
    <3> HIDE DEF own, x
    <3> QED BY <2>1, <2>3, <3>1
  <2>4. \/ UNCHANGED cardVars
        \/ PinListens(own, x) /\ AcceptPin(p, own, x, RefOf(req[p]))
        \/ PinListens(own, x) /\ RejectPin(own, x, RefOf(req[p]))
    BY <1>4 DEF SendVerify
  <2>5. PinListens(own, x) => tries[own][x] > 0
    BY DEF PinListens
  <2>6. AcceptPin(p, own, x, RefOf(req[p])) \/ RejectPin(own, x, RefOf(req[p])) =>
          \E n : tries' = [tries EXCEPT ![own][x] = n]
    BY DEF AcceptPin, RejectPin
  <2> QED BY <2>2, <2>3, <2>4, <2>5, <2>6
<1>5. CASE UNCHANGED vars
  BY <1>5 DEF vars, worldVars, cardVars
<1> QED BY <1>1, <1>2, <1>3, <1>4, <1>5 DEF Next, Step

\* A step of anybody else that does not touch the call leaves its invariant as
\* it was.
LEMMA OthersQuiet ==
  ASSUME TypeInv, [Next]_vars, Watch, NEW p \in Procs, QuietInv(p),
         LocalOf(p)' = LocalOf(p)
  PROVE  QuietInv(p)'
<1>1. /\ pc'[p] = pc[p] /\ out'[p] = out[p] /\ req'[p] = req[p] /\ pin'[p] = pin[p]
      /\ found'[p] = found[p] /\ from'[p] = from[p]
  BY DEF LocalOf
<1>2. SUFFICES ASSUME ~disturbed'[p] PROVE SessionQuiet(p)'
  BY <1>1 DEF QuietInv
<1>3. ~disturbed[p] /\ ~Touched(p) /\ SessionQuiet(p)
  BY <1>1, <1>2, StillUndisturbed DEF QuietInv
<1>4. pc[p] \in InCommand =>
        /\ handle'[p] = handle[p] /\ handle[p] = "open"
        /\ selected'[from[p]] = selected[from[p]] /\ auth'[from[p]] = auth[from[p]]
  BY <1>1, <1>3 DEF Touched, SessionQuiet
<1>5. MissesNone(p) => MissesNone(p)'
  BY <1>1 DEF MissesNone
<1>6. ASSUME from[p] # None, Succeeds(p) PROVE Succeeds(p)'
  <2>1. req[p].applet \in Applets /\ from[p] \in Cards
    BY <1>6 DEF QuietInv, RequestType, TypeInv, TypeOK, CardTypeOK
  <2>2. tries[from[p]][req[p].applet] = 0 => tries'[from[p]][req[p].applet] = 0
    BY <2>1, BlockedStays
  <2> QED BY <1>1, <1>6, <2>2 DEF Succeeds
<1>7. Served(from[p], req[p], pin[p])' => Served(from[p], req[p], pin[p])
  BY <1>1
<1> QED BY <1>1, <1>3, <1>4, <1>5, <1>6, <1>7 DEF SessionQuiet, InCommand

-----------------------------------------------------------------------------
(* The call's own steps.                                                    *)

\* A call whose last step is behind it, with nothing to complain of.
LEMMA EndsQuietly ==
  ASSUME NEW p \in Procs, QuietInv(p), req'[p] \in RequestType, pc'[p] \in {"drop", "idle"},
         (/\ ~disturbed'[p] /\ from'[p] # None /\ out'[p] \notin {"killed", "io"}
          /\ Served(from[p], req[p], pin[p])') => Succeeds(p)'
  PROVE  QuietInv(p)'
  BY DEF QuietInv, SessionQuiet, InCommand

\* A new call has no card yet.
LEMMA CallQuiet ==
  ASSUME TypeInv, NEW p \in Procs, Call(p)
  PROVE  QuietInv(p)'
<1>1. from'[p] = None /\ pc'[p] \in {"idle", "connect"}
  BY DEF Call, CallFor, TypeInv, TypeOK, CardTypeOK
<1> QED BY <1>1 DEF QuietInv, SessionQuiet, InCommand

\* It gets one with a handle that is open.
LEMMA ConnectQuiet ==
  ASSUME TypeInv, NEW p \in Procs, QuietInv(p), Connect(p)
  PROVE  QuietInv(p)'
<1>1. req'[p] = req[p] /\ req[p] \in RequestType /\ pc[p] = "connect" /\ from[p] = None
  BY DEF Connect, callVars, TypeInv, SessionShape, QuietInv
<1>2. \/ pc'[p] = "select" /\ handle'[p] = "open"
      \/ pc'[p] = "idle" /\ from'[p] = None
  BY <1>1 DEF Connect, OpenHandle, Goto, worldVars, busVars, TypeInv, TypeOK, CardTypeOK
<1> QED BY <1>1, <1>2 DEF QuietInv, SessionQuiet, InCommand

\* An undisturbed call in a session has its card served, and its answers come.
LEMMA NotServedOnly ==
  ASSUME NEW p \in Procs, handle[p] = "open", NEW served
  PROVE  (NotServed(p, served) => ~served /\ Leave(p, "card")) /\ ~AnswerLost(p)
  BY DEF NotServed, AnswerLost

\* What an undisturbed call knows of its session.
LEMMA Undisturbed ==
  ASSUME TypeInv, Watch, NEW p \in Procs, QuietInv(p), pc[p] \in InCommand, ~disturbed'[p]
  PROVE  SessionQuiet(p) /\ handle[p] = "open"
<1>1. ~disturbed[p]
  BY StillUndisturbed DEF InCommand
<1> QED BY <1>1 DEF QuietInv, SessionQuiet

\* It selects its applet, whatever was selected before.
LEMMA SelectQuiet ==
  ASSUME TypeInv, Watch, NEW p \in Procs, QuietInv(p), Select(p)
  PROVE  QuietInv(p)'
<1>1. /\ req'[p] = req[p] /\ pc[p] = "select" /\ from'[p] = from[p] /\ handle'[p] = handle[p]
      /\ pin'[p] = pin[p] /\ found'[p] = found[p] /\ found[p] = << >>
  BY DEF Select, callVars, busVars, resultVars, TypeInv, FoundShape
<1>2. /\ from[p] \in Cards /\ req[p] \in RequestType
      /\ selected \in [Cards -> Applets \cup {"none"}]
  BY <1>1, InSession DEF TypeInv, TypeOK, CardTypeOK
<1>3. pc'[p] \in {"scan", "drop", "pin", "read"}
  BY <1>1 DEF Select, AfterSelect, AnswerLost, NotServed, Goto, Leave, TypeInv, TypeOK
<1>4. SUFFICES ASSUME ~disturbed'[p] PROVE SessionQuiet(p)'
  BY <1>1, <1>2, <1>3 DEF QuietInv
<1>5. handle[p] = "open"
  BY <1>1, <1>4, Undisturbed DEF InCommand
<1>6. SelectApplet(from[p], req[p].applet) /\ AfterSelect(p)
  BY <1>5, NotServedOnly DEF Select
<1>7. selected'[from[p]] = req[p].applet
  BY <1>2, <1>6 DEF SelectApplet
<1>8. CASE pc'[p] # "drop"
  BY <1>1, <1>3, <1>5, <1>7, <1>8 DEF SessionQuiet, InCommand, MissesNone
<1>9. CASE pc'[p] = "drop"
  <2>1. req[p].op # "list_accounts" /\ req[p].applet = "openpgp" /\ req[p].slot \notin OpenPgpSlots
    BY <1>6, <1>9 DEF AfterSelect, Goto, TypeInv, TypeOK
  <2>2. ~Served(from[p], req[p], pin[p])'
    BY <1>1, <2>1 DEF Served, NamedSlot
  <2> QED BY <1>9, <2>2 DEF SessionQuiet, InCommand
<1> QED BY <1>8, <1>9

\* The public key is there, if the card has one of the shape.
LEMMA ReadQuiet ==
  ASSUME TypeInv, Watch, NEW p \in Procs, CallInv(p), QuietInv(p), Read(p)
  PROVE  QuietInv(p)'
<1> DEFINE r   == req[p]
           key == Stored(from[p], r.applet, r.slot)
<1>1. /\ req'[p] = r /\ pc[p] = "read" /\ from'[p] = from[p] /\ pin'[p] = pin[p]
      /\ pc'[p] = "drop" /\ r \in RequestType /\ r.op \notin {"list_accounts", "sign"}
  BY InSession
  DEF Read, NotServed, Leave, callVars, worldVars, busVars, TypeInv, TypeOK, CallInv, ReadFlow
<1>2. ASSUME ~disturbed'[p], Served(from[p], r, pin[p])
      PROVE  out'[p] = "ok"
  <2>1. handle[p] = "open" /\ selected[from[p]] = r.applet
    BY <1>1, <1>2, Undisturbed DEF SessionQuiet, InCommand
  <2>2. key # None /\ Extract(key, r) # None
    BY <1>1, <1>2 DEF Served
  <2>3. ~NotServed(p, selected[from[p]] = r.applet /\ key # None)
    BY <2>1, <2>2, NotServedOnly
  <2>4. Leave(p, "ok")
    BY <2>1, <2>2, <2>3 DEF Read
  <2> QED BY <2>4 DEF Leave, TypeInv, TypeOK
<1>3. out'[p] = "ok" => Succeeds(p)'
  BY <1>1 DEF Succeeds
<1>4. Served(from[p], req[p], pin[p])' => Served(from[p], r, pin[p])
  BY <1>1
<1> QED BY <1>1, <1>2, <1>3, <1>4, EndsQuietly

\* A listing reads every slot, and misses none that is readable.
LEMMA ScanQuiet ==
  ASSUME TypeInv, Watch, NEW p \in Procs, CallInv(p), QuietInv(p), Scan(p)
  PROVE  QuietInv(p)'
<1> DEFINE n == Len(found[p]) + 1
<1>1. /\ req'[p] = req[p] /\ pc[p] = "scan" /\ from'[p] = from[p] /\ handle'[p] = handle[p]
      /\ selected' = selected /\ found[p] \in Seq(Entries \cup {None})
      /\ n <= Len(PivSlots) /\ n \in Nat
  BY DEF Scan, callVars, worldVars, busVars, cardVars, TypeInv, TypeOK, FoundShape
<1>2. /\ req[p] \in RequestType /\ req[p].op = "list_accounts" /\ req[p].applet = "piv"
      /\ from[p] \in Cards
  BY <1>1, InSession DEF CallInv, ReadFlow, RequestType
<1>3. pc'[p] \in {"scan", "drop"}
  BY <1>1 DEF Scan, Goto, Leave, TypeInv, TypeOK
<1>4. SUFFICES ASSUME ~disturbed'[p] PROVE SessionQuiet(p)'
  BY <1>1, <1>2, <1>3 DEF QuietInv
<1>5. handle[p] = "open" /\ selected[from[p]] = "piv" /\ MissesNone(p)
  BY <1>1, <1>2, <1>4, Undisturbed DEF SessionQuiet, InCommand
<1>6. PICK entry \in Fetched(p) : found'[p] = Append(found[p], entry)
  BY DEF Scan, Collect, TypeInv, TypeOK
<1>7. LET key == CertIn[from[p]][PivSlots[n]] IN
      key # None /\ ReadsAs(key, "ed25519") => entry # None
  <2> DEFINE key == CertIn[from[p]][PivSlots[n]]
  <2>1. SUFFICES ASSUME key # None, ReadsAs(key, "ed25519") PROVE entry # None
    OBVIOUS
  <2>2. entry = [key |-> key, as |-> "ed25519"]
    BY <1>5, <1>6, <2>1 DEF Fetched
  <2>3. key \in Keys
    <3>1. PivSlots[n] \in Slots
      BY <1>1
    <3> QED BY <1>2, <2>1, <3>1
  <2> QED BY <2>2, <2>3 DEF Entries, Curves
<1>8. entry \in Entries \cup {None}
  BY <1>1, FetchedType DEF Fetched
<1>9. /\ DOMAIN found'[p] = 1 .. n /\ DOMAIN found[p] = 1 .. n - 1
      /\ \A i \in 1 .. n - 1 : found'[p][i] = found[p][i]
      /\ found'[p][n] = entry
  BY <1>1, <1>6, <1>8
<1>10. MissesNone(p)'
  <2>1. \A i \in DOMAIN found'[p] : i \in DOMAIN found[p] \/ i = n
    BY <1>1, <1>9
  <2> QED BY <1>1, <1>5, <1>7, <1>9, <2>1 DEF MissesNone
<1>11. CASE pc'[p] = "scan"
  BY <1>1, <1>2, <1>5, <1>10, <1>11 DEF SessionQuiet, InCommand
<1>12. CASE pc'[p] = "drop"
  <2>1. Leave(p, "ok") /\ n = Len(PivSlots)
    BY <1>1, <1>12 DEF Scan, Goto, TypeInv, TypeOK
  <2>2. out'[p] = "ok" /\ DOMAIN PivSlots = DOMAIN found'[p]
    BY <1>9, <2>1 DEF Leave, TypeInv, TypeOK
  <2>3. Succeeds(p)'
    BY <1>1, <1>10, <2>2 DEF Succeeds, MissesNone
  <2> QED BY <1>12, <2>3 DEF SessionQuiet, InCommand
<1> QED BY <1>3, <1>11, <1>12

\* The PIN is taken, unless it is not one the card could have.
LEMMA TakePinQuiet ==
  ASSUME TypeInv, Watch, NEW p \in Procs, CallInv(p), QuietInv(p),
         ResolvePin(p) \/ AnswerPrompt(p)
  PROVE  QuietInv(p)'
<1>1. /\ pc[p] = "pin" /\ req' = req /\ from'[p] = from[p] /\ handle'[p] = handle[p]
      /\ selected' = selected /\ req[p].op = "sign" /\ req[p] \in RequestType
  BY InSession
  DEF ResolvePin, AnswerPrompt, worldVars, busVars, cardVars, CallInv, PinFlow, TypeInv
<1>2. CASE Leave(p, "io")
  <2>1. pc'[p] = "drop" /\ out'[p] = "io"
    BY <1>2 DEF Leave, TypeInv, TypeOK
  <2> QED BY <1>1, <2>1, EndsQuietly
<1>3. ASSUME NEW x, TakePin(p, x) PROVE QuietInv(p)'
  <2>1. pin'[p] = x
    BY <1>3 DEF TakePin, TypeInv, TypeOK
  <2>2. CASE PinNotPadded(req[p], x)
    <3>1. pc'[p] = "drop" /\ ~Served(from[p], req[p], pin[p])'
      BY <1>1, <1>3, <2>1, <2>2 DEF TakePin, Leave, TypeInv, TypeOK, Served
    <3> QED BY <1>1, <3>1, EndsQuietly
  <2>3. CASE ~PinNotPadded(req[p], x)
    <3>1. pc'[p] = "verify"
      BY <1>3, <2>3 DEF TakePin, Goto, TypeInv, TypeOK
    <3>2. SUFFICES ASSUME ~disturbed'[p] PROVE SessionQuiet(p)'
      BY <1>1, <3>1 DEF QuietInv
    <3>3. handle[p] = "open" /\ selected[from[p]] = req[p].applet
      BY <1>1, <3>2, Undisturbed DEF SessionQuiet, InCommand
    <3> QED BY <1>1, <3>1, <3>3 DEF SessionQuiet, InCommand
  <2> QED BY <2>2, <2>3
<1> QED BY <1>2, <1>3 DEF ResolvePin, AnswerPrompt

\* The card takes the right PIN unless it is blocked, and has it verified then.
LEMMA VerifyQuiet ==
  ASSUME TypeInv, Watch, NEW p \in Procs, CallInv(p), QuietInv(p), SendVerify(p)
  PROVE  QuietInv(p)'
<1> DEFINE r == req[p]
           c == from[p]
           ref == RefOf(r)
<1>1. /\ pc[p] = "verify" /\ req' = req /\ pin' = pin /\ from' = from /\ handle' = handle
      /\ r.op = "sign" /\ r \in RequestType /\ c \in Cards /\ r.applet \in Applets
      /\ ref \in PinRefs
  BY InSession DEF SendVerify, callVars, busVars, CallInv, PinFlow, TypeInv
<1>2. pc'[p] \in {"sign", "drop"}
  BY DEF SendVerify, PinAccepted, PinRejected, AnswerLost, NotServed, Goto, Leave, TypeInv, TypeOK
<1>3. SUFFICES ASSUME ~disturbed'[p] PROVE SessionQuiet(p)'
  BY <1>1, <1>2 DEF QuietInv
<1>4. handle[p] = "open" /\ selected[c] = r.applet
  BY <1>1, <1>3, Undisturbed DEF SessionQuiet, InCommand
<1>5. selected' = selected
  BY DEF SendVerify, AcceptPin, RejectPin, cardVars
<1>6. CASE pc'[p] = "drop"
  <2>1. SUFFICES ASSUME Served(c, r, pin[p])' PROVE tries'[c][r.applet] = 0
    BY <1>1, <1>6 DEF SessionQuiet, InCommand, Succeeds
  <2>2. ~PinTooLong(r, pin[p]) /\ ~PinBlank(r, pin[p]) /\ pin[p] = PinOf[c][r.applet]
    BY <1>1, <2>1 DEF Served
  <2>3. ~PinAccepted(p) /\ ~AnswerLost(p)
    BY <1>4, <1>6, NotServedOnly DEF PinAccepted, Goto, TypeInv, TypeOK
  <2>4. NotServed(p, PinListens(c, r.applet)) /\ UNCHANGED cardVars
    BY <2>2, <2>3 DEF SendVerify
  <2>5. ~PinListens(c, r.applet)
    BY <1>4, <2>4, NotServedOnly
  <2>6. tries[c][r.applet] \in 0 .. MaxTries
    BY <1>1 DEF TypeInv, TypeOK, CardTypeOK
  <2> QED BY <1>4, <2>4, <2>5, <2>6 DEF PinListens, cardVars
<1>7. CASE pc'[p] = "sign"
  <2>1. PinAccepted(p)
    BY <1>7 DEF SendVerify, PinRejected, AnswerLost, NotServed, Leave, TypeInv, TypeOK
  <2>2. \/ AcceptPin(p, c, r.applet, ref)
        \/ auth[c][ref] # None /\ UNCHANGED cardVars
    BY <1>7 DEF SendVerify, PinRejected, AnswerLost, NotServed, Leave, TypeInv, TypeOK
  <2>3. auth'[c][ref] # None
    <3>1. CASE AcceptPin(p, c, r.applet, ref)
      <4>1. auth'[c][ref] = p
        BY <1>1, <3>1 DEF AcceptPin, TypeInv, TypeOK, CardTypeOK
      <4> QED BY <4>1
    <3> QED BY <2>2, <3>1 DEF cardVars
  <2> QED BY <1>1, <1>4, <1>5, <1>7, <2>3 DEF SessionQuiet, InCommand
<1> QED BY <1>2, <1>6, <1>7

\* A card with the PIN verified signs what it can.
LEMMA SignQuiet ==
  ASSUME TypeInv, Watch, NEW p \in Procs, CallInv(p), QuietInv(p), SendSign(p)
  PROVE  QuietInv(p)'
<1> DEFINE r == req[p]
           c == from[p]
           key == KeyIn[c][r.applet][r.slot]
           signs == /\ CanSign(c, r.applet, r.slot) /\ ~MsgEmpty(r)
                    /\ r.applet = "piv" => /\ CurveOf[key] = "ed25519"
                                           /\ MsgLen[r.msg] <= MaxTemplate
<1>1. /\ pc[p] = "sign" /\ req' = req /\ pin' = pin /\ from' = from
      /\ pc'[p] = "drop" /\ r.op = "sign" /\ r \in RequestType
  BY InSession
  DEF SendSign, AnswerLost, NotServed, Leave, callVars, busVars, CallInv, PinFlow, TypeInv, TypeOK
<1>2. ASSUME ~disturbed'[p], Served(c, r, pin[p]) PROVE out'[p] = "ok"
  <2>1. handle[p] = "open" /\ selected[c] = r.applet /\ auth[c][RefOf(r)] # None
    BY <1>1, <1>2, Undisturbed DEF SessionQuiet, InCommand
  <2>2. /\ key # None
        /\ IF r.applet = "piv" THEN CurveOf[key] = "ed25519" /\ MsgLen[r.msg] <= MaxTemplate
           ELSE ~MsgTooLong(r) /\ ~MsgEmpty(r)
    BY <1>1, <1>2 DEF Served
  <2>3. signs /\ ~MsgTooLong(r)
    BY <2>1, <2>2 DEF CanSign, WantedRef, RefOf, MsgEmpty, MsgTooLong
  <2>4. ~NotServed(p, signs) /\ ~AnswerLost(p)
    BY <2>1, <2>3, NotServedOnly
  <2>5. Leave(p, "ok")
    BY <2>3, <2>4 DEF SendSign
  <2> QED BY <2>5 DEF Leave, TypeInv, TypeOK
<1>3. out'[p] = "ok" => Succeeds(p)'
  BY <1>1 DEF Succeeds
<1>4. Served(from[p], req[p], pin[p])' => Served(c, r, pin[p])
  BY <1>1
<1> QED BY <1>1, <1>2, <1>3, <1>4, EndsQuietly

\* The end of a call keeps what it came to; a killed one has no answer.
LEMMA EndQuiet ==
  ASSUME TypeInv, [Next]_vars, Watch, NEW p \in Procs, QuietInv(p), Drop(p) \/ Kill(p)
  PROVE  QuietInv(p)'
<1>1. pc'[p] = "idle" /\ req' = req /\ pin' = pin /\ from' = from /\ pc[p] # "idle"
  BY DEF Drop, Kill, CloseHandle, ReapHandle, ResetBy, LeaveBy, callVars, TypeInv, TypeOK
<1>2. CASE Kill(p)
  <2>1. out'[p] = "killed" /\ req[p] \in RequestType
    BY <1>1, <1>2 DEF Kill, TypeInv, TypeOK, SessionShape
  <2> QED BY <1>1, <2>1, EndsQuietly
<1>3. CASE Drop(p)
  <2>1. pc[p] = "drop" /\ out' = out /\ found' = found
    BY <1>3 DEF Drop, resultVars
  <2>2. req[p] \in RequestType /\ from[p] \in Cards /\ req[p].applet \in Applets
    BY <2>1, InSession
  <2>3. tries[from[p]][req[p].applet] = 0 => tries'[from[p]][req[p].applet] = 0
    BY <2>2, BlockedStays
  <2>4. ~disturbed'[p] => SessionQuiet(p)
    BY <2>1, StillUndisturbed DEF QuietInv
  <2>5. Succeeds(p) => Succeeds(p)'
    BY <1>1, <2>1, <2>3 DEF Succeeds
  <2>6. Served(from[p], req[p], pin[p])' => Served(from[p], req[p], pin[p])
    BY <1>1
  <2>7. (/\ ~disturbed'[p] /\ from'[p] # None /\ out'[p] \notin {"killed", "io"}
         /\ Served(from[p], req[p], pin[p])') => Succeeds(p)'
    BY <1>1, <2>1, <2>4, <2>5, <2>6 DEF SessionQuiet
  <2> QED BY <1>1, <2>2, <2>7, EndsQuietly
<1> QED BY <1>2, <1>3

-----------------------------------------------------------------------------
(* The theorem.                                                             *)

\* It holds before any call.
LEMMA InitWatched == WatchedInit => WatchedInv
<1>1. ASSUME WatchedInit, NEW p \in Procs PROVE QuietInv(p)
  BY <1>1 DEF WatchedInit, Init, CardInit, QuietInv, SessionQuiet, InCommand
<1> QED BY <1>1 DEF WatchedInit, WatchedInv

\* Every step keeps it.
LEMMA NextWatched ==
  ASSUME CallsInv, WatchedInv, WatchedNext
  PROVE  WatchedInv'
<1>1. /\ TypeInv /\ TypeOK /\ [Next]_vars /\ Watch
      /\ \A p \in Procs : CallInv(p) /\ QuietInv(p)
  BY DEF CallsInv, Inv, TypeInv, WatchedInv, WatchedNext
<1>2. disturbed' \in [Procs -> BOOLEAN]
  BY <1>1 DEF Watch, WatchedInv, Touched
<1>3. CASE World /\ UNCHANGED localVars
  BY <1>1, <1>2, <1>3, WorldKeepsCalls, OthersQuiet DEF WatchedInv
<1>4. ASSUME NEW p \in Procs, Call(p) \/ Step(p) \/ AnswerPrompt(p) \/ Kill(p)
      PROVE  WatchedInv'
  <2>1. QuietInv(p)'
    BY <1>1, <1>4, CallQuiet, ConnectQuiet, SelectQuiet, ReadQuiet, ScanQuiet, TakePinQuiet,
       VerifyQuiet, SignQuiet, EndQuiet DEF Step
  <2>2. \A q \in Procs \ {p} : QuietInv(q)'
    BY <1>1, <1>4, OthersKept, OthersQuiet
  <2> QED BY <1>2, <2>1, <2>2 DEF WatchedInv
<1> QED BY <1>3, <1>4 DEF WatchedNext, Next

\* Nobody else's steps, and no step of its own, leave an undisturbed call short
\* of its answer.
THEOREM WatchedInvariance == WatchedSpec => []WatchedInv
<1>1. CallsInv /\ WatchedInv /\ [WatchedNext]_<<vars, disturbed>> => WatchedInv'
  <2> SUFFICES ASSUME CallsInv, WatchedInv, [WatchedNext]_<<vars, disturbed>> PROVE WatchedInv'
    OBVIOUS
  <2>1. CASE UNCHANGED <<vars, disturbed>>
    BY <2>1 DEF vars, worldVars, busVars, cardVars, readerVars, localVars, progressVars, callVars,
       resultVars, historyVars, WatchedInv, QuietInv, SessionQuiet, MissesNone, Succeeds
  <2> QED BY <2>1, NextWatched
<1> QED BY <1>1, InitWatched, WatchedRefinesLibrary, AnswerInvariance, PTL DEF WatchedSpec

\* A call that got its card and was left alone gives what was asked for, unless
\* the PIN was blocked already: what earlier sessions left on the card cannot
\* change the answer.
THEOREM UndisturbedCallTheorem == WatchedSpec => []UndisturbedCallSucceeds
<1>1. WatchedInv => UndisturbedCallSucceeds
  BY DEF WatchedInv, QuietInv, SessionQuiet, Succeeds, UndisturbedCallSucceeds
<1> QED BY <1>1, WatchedInvariance, PTL

=============================================================================
