------------------------ MODULE BrowserSession_proofs ------------------------
(***************************************************************************)
(* Theorems of BrowserSession: the host end to end is a connection with    *)
(* hosts at its end, so what HostPort_proofs shows of the one and          *)
(* NativeHost_proofs of the others holds of it; and the two together give  *)
(* every promise the reply of the handler that ran its request.            *)
(***************************************************************************)
EXTENDS BrowserSession, NativeHost_proofs

Conn == INSTANCE HostPort_proofs WITH
  Params <- HostRequests, NoAnswer <- None, host <- loop, job <- frame

USE DaemonAssumption

-----------------------------------------------------------------------------
(* The two halves.                                                          *)

\* A step of the system is one of the host, or none.
LEMMA StepOfHost ==
  ASSUME [SessionNext]_allVars
  PROVE  [HostNext]_<<vars, hostVars>>
<1>1. CASE UNCHANGED handlerVars
  BY <1>1 DEF handlerVars
<1>2. CASE ReadFrame \/ Handling \/ TypePin
  BY <1>2 DEF ReadFrame, Handling, TypePin, RunsOn, HostNext
<1>3. CASE Killed
  BY <1>1, <1>3 DEF Killed, HostNext
<1>4. CASE UNCHANGED allVars
  BY <1>1, <1>4 DEF allVars
<1>5. CASE \/ \E x \in HostRequests : Client(Port!Call(x))
           \/ Client(Port!ClientStep) \/ Client(Port!Disconnect)
           \/ Handled \/ WriteFrame \/ AskPin \/ Exit
  BY <1>1, <1>5 DEF Client, Handled, WriteFrame, AskPin, Exit
<1> QED BY <1>2, <1>3, <1>4, <1>5 DEF SessionNext, LoopStep

\* And one of the connection, or none.
LEMMA StepOfPort ==
  ASSUME [SessionNext]_allVars
  PROVE  [Port!Next]_(Port!vars)
<1>1. CASE UNCHANGED portVars
  BY <1>1 DEF portVars, Port!vars, Port!clientVars, Port!hostVars
<1>2. CASE Handling \/ TypePin \/ UNCHANGED allVars
  BY <1>1, <1>2 DEF Handling, TypePin, allVars
<1>3. CASE \/ \E x \in HostRequests : Client(Port!Call(x))
           \/ Client(Port!ClientStep) \/ Client(Port!Disconnect)
  BY <1>3 DEF Client, Port!Next
<1>4. CASE LoopStep \/ Killed
  BY <1>4 DEF LoopStep, ReadFrame, Handled, WriteFrame, AskPin, Exit, Killed, Port!Next, Port!HostStep
<1> QED BY <1>2, <1>3, <1>4 DEF SessionNext

\* HostPort_proofs speaks of the same connection: it starts the same way.
LEMMA SameInit == Port!Init => Conn!Init
  BY DEF Port!Init, Conn!Init

\* It takes the same steps.
LEMMA SameNext ==
  ASSUME [Port!Next]_(Port!vars)
  PROVE  [Conn!Next]_(Conn!vars)
<1> USE DEF Port!vars, Conn!vars, Port!clientVars, Port!hostVars, Conn!clientVars, Conn!hostVars
<1>1. ASSUME NEW x \in HostRequests, Port!Call(x) PROVE Conn!Next
  BY <1>1 DEF Port!Call, Conn!Call, Conn!Next
<1>2. CASE Port!ClientStep
  BY <1>2 DEF Port!ClientStep, Port!OnMessage, Port!OnDisconnect,
     Conn!Next, Conn!ClientStep, Conn!OnMessage, Conn!OnDisconnect
<1>3. CASE Port!HostStep
  BY <1>3 DEF Port!HostStep, Port!Read, Port!Handle, Port!Finish, Port!Write, Port!Eof,
     Conn!Next, Conn!HostStep, Conn!Read, Conn!Handle, Conn!Finish, Conn!Write, Conn!Eof
<1>4. CASE Port!Disconnect \/ Port!PromptUser \/ Port!UserTypes \/ Port!Die
  BY <1>4 DEF Port!Disconnect, Port!PromptUser, Port!UserTypes, Port!Die, Port!Finish,
     Conn!Next, Conn!Disconnect, Conn!PromptUser, Conn!UserTypes, Conn!Die, Conn!Finish
<1> QED BY <1>1, <1>2, <1>3, <1>4 DEF Port!Next

\* The native host end to end is a host of NativeHost: all of its theorems
\* hold, whenever the frames come and whenever it is killed.
THEOREM SessionRefinesHost == SessionSpec => HostSafetySpec
<1>1. SessionInit => HostInit
  BY DEF SessionInit
<1> QED BY <1>1, StepOfHost, PTL DEF SessionSpec, HostSafetySpec

\* And its connection is that of HostPort, fairness aside.
THEOREM SessionRefinesPort == SessionSpec => Port!Init /\ [][Port!Next]_(Port!vars)
<1>1. SessionInit => Port!Init
  BY DEF SessionInit
<1> QED BY <1>1, StepOfPort, PTL DEF SessionSpec

\* So it is in order, as HostPort_proofs shows.
THEOREM SessionInOrder == SessionSpec => []Conn!PortInv
<1>1. SessionSpec => Conn!Init /\ [][Conn!Next]_(Conn!vars)
  BY SessionRefinesPort, SameInit, SameNext, PTL
<1> QED BY <1>1, Conn!PortInvariance, PTL


\* A caller of the whole gets what RemoteCalls promises: with the handlers and
\* their sessions in the host, a call is still carried out at most once, in
\* order, and settled once, with the answer to itself.
THEOREM SessionServes == SessionSpec => Conn!Implements
<1>1. SessionSpec => Conn!Init /\ [][Conn!Next]_(Conn!vars)
  BY SessionRefinesPort, SameInit, SameNext, PTL
<1> QED BY <1>1, Conn!SafetyImplements, PTL

-----------------------------------------------------------------------------
(* The inductive invariant: a reply that is written is the last handler's,  *)
(* which ran for the frame it is written for.                               *)

\* r is a reply that fits the request j, as far as a signature goes.
Fits(j, r) ==
  r.code = "ok" /\ j.method \in SignMethods =>
    /\ r.sig # None /\ r.sig.msg = j.msg
    /\ \E c \in Cards : r.sig.key = KeyIn[c][j.account.applet][j.account.slot]

\* The handler's reply, once it has one, is to its own request.
ReplyInv ==
  stage[Daemon] = "ready" /\ job[Daemon] # None => Fits(job[Daemon], reply[Daemon])

\* While the loop works on a frame the handler runs for that very frame.
LoopInv ==
  /\ loop \in {"handling", "prompting", "done"} => job[Daemon] = frame.what
  /\ loop = "done" => stage[Daemon] = "ready"

\* s is what has been written for call id, and told the client this.
Tells(s, id, ok) == s.id = id /\ (s.reply.code = "ok" <=> ok)

\* One reply is written to a call, after the call has been carried out and
\* before the next one; what arrives at the client, and what a promise has been
\* settled with, is such a reply.
SentInv ==
  /\ \A s \in sent : Conn!Performed(s.id) /\ Fits(asked[s.id], s.reply)
  /\ loop \in {"handling", "prompting", "done"} => \A s \in sent : s.id < frame.id
  /\ \A s, u \in sent : s.id = u.id => s = u
  /\ \A i \in DOMAIN toClient : \E s \in sent : Tells(s, toClient[i].id, toClient[i].ok)
  /\ \A id \in DOMAIN promise :
       (promise[id] = "resolved" \/ (promise[id] = "rejected" /\ port = "open")) =>
         \E s \in sent : Tells(s, id, promise[id] = "resolved")

SettledInv == ReplyInv /\ LoopInv /\ SentInv


-----------------------------------------------------------------------------
(* The handler.                                                             *)

\* A host's signature is over the message of its request, by the key of the
\* account on a card.
LEMMA SignatureFits ==
  ASSUME CallsInv, HostInv, stage[Daemon] = "sign", out[Daemon] = "ok",
         NEW r, r = Reply("ok", {}, sig[Daemon])
  PROVE  Fits(job[Daemon], r)
<1>1. PICK x \in Pins : req[Daemon] = For(job[Daemon], "sign", x)
  BY DEF HostInv, HandlerInv, StageFlow
<1>2. Daemon \in Procs
  BY HostAssumption
<1>3. /\ from[Daemon] \in Cards /\ sig[Daemon] # None /\ sig[Daemon].msg = job[Daemon].msg
      /\ sig[Daemon].key = KeyIn[from[Daemon]][job[Daemon].account.applet][job[Daemon].account.slot]
  BY <1>1, <1>2, SignatureAnswered DEF For
<1> QED BY <1>3 DEF Fits, Reply

\* A request that is received is refused, is none to sign, or is worked on.
LEMMA ReceiveFits ==
  ASSUME HostTypeOK, Receive(Daemon)
  PROVE  ReplyInv'
<1>1. PICK j \in HostRequests :
        /\ job' = [job EXCEPT ![Daemon] = j]
        /\ \/ Refusal(j) # "none" /\ Fail(Daemon, Refusal(j))
           \/ j.method = "get_info" /\ Respond(Daemon, Reply("ok", {}, None))
           \/ Begin(Daemon, "detect_sig", Detect(SIG))
           \/ Begin(Daemon, "get_pubkey", For(j, "get_pubkey", Prompt))
           \/ AwaitPin(Daemon)
  BY DEF Receive
<1>2. job'[Daemon] = j
  BY <1>1 DEF HostTypeOK
<1>3. CASE Refusal(j) # "none" /\ Fail(Daemon, Refusal(j))
  BY <1>2, <1>3, RefusalCode DEF Fail, Respond, Reply, HostTypeOK, ReplyInv, Fits
<1>4. CASE j.method = "get_info" /\ Respond(Daemon, Reply("ok", {}, None))
  BY <1>2, <1>4 DEF Respond, Reply, HostTypeOK, ReplyInv, Fits, SignMethods
<1>5. CASE \/ Begin(Daemon, "detect_sig", Detect(SIG))
           \/ Begin(Daemon, "get_pubkey", For(j, "get_pubkey", Prompt))
           \/ AwaitPin(Daemon)
  BY <1>5 DEF Begin, AwaitPin, HostTypeOK, ReplyInv
<1> QED BY <1>1, <1>3, <1>4, <1>5

\* A handler that goes on keeps its request, and ends with a reply to it.
LEMMA HandlerFits ==
  ASSUME CallsInv, HostInv, HostStep(Daemon) \/ ReadPin(Daemon)
  PROVE  job' = job /\ stage[Daemon] # "ready" /\ ReplyInv'
<1>1. HostTypeOK /\ Daemon \in Hosts
  BY DEF HostInv
<1>2. CASE DetectReturns(Daemon)
  <2>1. stage'[Daemon] # "ready" /\ job' = job /\ stage[Daemon] # "ready"
    BY <1>1, <1>2 DEF DetectReturns, Returned, Begin, HostTypeOK
  <2> QED BY <2>1 DEF ReplyInv
<1>3. CASE ListReturns(Daemon)
  <2>1. job' = job /\ stage[Daemon] = "list_piv"
    BY <1>3 DEF ListReturns, Returned
  <2>2. job[Daemon].method \notin SignMethods
    BY <1>1, <2>1 DEF HostInv, HandlerInv, StageFlow, ListMethods, SignMethods
  <2> QED BY <2>1, <2>2 DEF ReplyInv, Fits
<1>4. ASSUME NEW code \in {"CARD_ERROR", "PIN_FAILED"}, Fail(Daemon, code)
      PROVE  ReplyInv'
  BY <1>1, <1>4 DEF Fail, Respond, Reply, HostTypeOK, ReplyInv, Fits
<1>5. CASE PubkeyReturns(Daemon)
  <2>1. job' = job /\ stage[Daemon] # "ready"
    BY <1>5 DEF PubkeyReturns, Returned
  <2>2. CASE AwaitPin(Daemon)
    BY <1>1, <2>1, <2>2 DEF AwaitPin, HostTypeOK, ReplyInv
  <2> QED BY <1>4, <1>5, <2>1, <2>2 DEF PubkeyReturns, CardErr
<1>6. CASE ReadPin(Daemon)
  <2>1. job' = job /\ stage[Daemon] # "ready"
    BY <1>6 DEF ReadPin, SignWith
  <2>2. ASSUME NEW x, SignWith(Daemon, x)
        PROVE  ReplyInv'
    BY <1>1, <2>2 DEF SignWith, Begin, HostTypeOK, ReplyInv
  <2> QED BY <1>4, <1>6, <2>1, <2>2 DEF ReadPin
<1>7. CASE SignReturns(Daemon)
  <2>1. job' = job /\ stage[Daemon] = "sign"
    BY <1>7 DEF SignReturns, Returned
  <2>2. CASE Usable(Daemon) /\ Respond(Daemon, Reply("ok", {}, sig[Daemon]))
    <3>1. Fits(job[Daemon], reply'[Daemon])
      BY <1>1, <2>1, <2>2, SignatureFits DEF Usable, Respond, HostTypeOK
    <3> QED BY <2>1, <3>1 DEF ReplyInv, Fits
  <2> QED BY <1>4, <1>7, <2>1, <2>2 DEF SignReturns, CardErr
<1> QED BY <1>2, <1>3, <1>5, <1>6, <1>7 DEF HostStep

\* A host that is killed starts anew, with no request.
LEMMA KilledFits ==
  ASSUME HostTypeOK, ReplyInv, Killed
  PROVE  ReplyInv'
<1>1. CASE UNCHANGED handlerVars
  BY <1>1 DEF handlerVars, hostVars, ReplyInv, Fits
<1>2. CASE HostDies(Daemon)
  BY <1>2 DEF HostDies, Renewed, HostTypeOK, ReplyInv
<1> QED BY <1>1, <1>2 DEF Killed


-----------------------------------------------------------------------------
(* The client.                                                              *)

\* The replies concern calls that were made, and what these ask stays.
LEMMA SentAsked ==
  ASSUME Conn!PortInv, SentInv, NEW s \in sent
  PROVE  s.id \in DOMAIN asked /\ s.id \in Nat
<1>1. PICK k \in DOMAIN performed : performed[k] = s.id
  BY DEF SentInv, Conn!Performed
<1>2. s.id \in DOMAIN asked
  BY <1>1 DEF Conn!PortInv, Conn!FrameInv
<1>3. asked \in Seq(HostRequests)
  BY DEF Conn!PortInv, Conn!PortTypeOK
<1> QED BY <1>2, <1>3

\* What is neither the loop's nor a handler's step leaves these as they are.
LEMMA QuietLoop ==
  ASSUME ReplyInv, LoopInv, UNCHANGED handlerVars, UNCHANGED frame,
         loop' \in {loop, "prompting", "gone", "reading"},
         loop' = "prompting" => loop \in {"handling", "prompting"}
  PROVE  ReplyInv' /\ LoopInv'
  BY DEF ReplyInv, LoopInv, Fits, handlerVars, hostVars

\* What leaves the port, the client and the replies alone leaves SentInv as it
\* is, while the loop and its frame stay.
LEMMA QuietSent ==
  ASSUME SentInv, UNCHANGED <<sent, performed, asked, promise, port, toClient>>,
         UNCHANGED frame, loop' = loop
  PROVE  SentInv'
<1>1. \A s \in sent' : Conn!Performed(s.id)' /\ Fits(asked'[s.id], s.reply)
  BY DEF SentInv, Conn!Performed
<1>2. /\ loop' \in {"handling", "prompting", "done"} => \A s \in sent' : s.id < frame'.id
      /\ \A s, u \in sent' : s.id = u.id => s = u
      /\ \A i \in DOMAIN toClient' : \E s \in sent' : Tells(s, toClient'[i].id, toClient'[i].ok)
  BY DEF SentInv
<1>3. \A id \in DOMAIN promise' :
        (promise'[id] = "resolved" \/ (promise'[id] = "rejected" /\ port' = "open")) =>
          \E s \in sent' : Tells(s, id, promise'[id] = "resolved")
  BY DEF SentInv
<1> QED
  BY <1>1, <1>2, <1>3 DEF SentInv, Tells, Fits

\* A call waits, or is rejected on a port that is not open.
LEMMA CallSettled ==
  ASSUME Conn!PortInv, SettledInv, NEW x \in HostRequests, Client(Port!Call(x))
  PROVE  SettledInv'
<1>1. /\ UNCHANGED <<sent, performed, toClient, port, loop, frame>> /\ UNCHANGED handlerVars
      /\ asked' = Append(asked, x)
      /\ promise' = Append(promise, IF port = "open" THEN "waiting" ELSE "rejected")
  BY DEF Client, Port!Call, Port!hostVars
<1>2. \A id \in DOMAIN asked : asked'[id] = asked[id]
  <2>1. asked \in Seq(HostRequests)
    BY DEF Conn!PortInv, Conn!PortTypeOK
  <2> QED BY <1>1, <2>1, Conn!Appended
<1>3. \A id \in DOMAIN promise' :
        \/ id \in DOMAIN promise /\ promise'[id] = promise[id]
        \/ promise'[id] = IF port = "open" THEN "waiting" ELSE "rejected"
  <2> DEFINE how == IF port = "open" THEN "waiting" ELSE "rejected"
  <2>1. promise \in Seq(Conn!PromiseStates) /\ how \in Conn!PromiseStates
    BY DEF Conn!PortInv, Conn!PortTypeOK, Conn!PromiseStates
  <2>2. promise' = Append(promise, how)
    BY <1>1
  <2> HIDE DEF how
  <2>3. \A id \in DOMAIN promise' : (id \in DOMAIN promise /\ promise'[id] = promise[id])
                                      \/ promise'[id] = how
    BY <2>1, <2>2, Conn!Appended
  <2> QED BY <2>3 DEF how
<1>4. ReplyInv' /\ LoopInv'
  BY <1>1, QuietLoop DEF SettledInv
<1>5. \A s \in sent : Conn!Performed(s.id)' /\ Fits(asked'[s.id], s.reply)
  BY <1>1, <1>2, SentAsked DEF SettledInv, SentInv, Conn!Performed
<1>6. ASSUME NEW id \in DOMAIN promise',
             promise'[id] = "resolved" \/ (promise'[id] = "rejected" /\ port' = "open")
      PROVE  \E s \in sent : Tells(s, id, promise'[id] = "resolved")
  <2>1. id \in DOMAIN promise /\ promise'[id] = promise[id]
    BY <1>1, <1>3, <1>6
  <2> QED BY <1>1, <1>6, <2>1 DEF SettledInv, SentInv
<1>7. SentInv'
  <2>1. UNCHANGED <<sent, performed, toClient, port, loop, frame>>
    BY <1>1
  <2>2. \A s \in sent' : (Conn!Performed(s.id) /\ Fits(asked[s.id], s.reply))'
    BY <1>5, <2>1 DEF Fits
  <2>3. /\ loop' \in {"handling", "prompting", "done"} => \A s \in sent' : s.id < frame'.id
        /\ \A s, u \in sent' : s.id = u.id => s = u
        /\ \A i \in DOMAIN toClient' : \E s \in sent' : Tells(s, toClient'[i].id, toClient'[i].ok)
    BY <2>1 DEF SettledInv, SentInv
  <2>4. \A id \in DOMAIN promise' :
          (promise'[id] = "resolved" \/ (promise'[id] = "rejected" /\ port' = "open")) =>
            \E s \in sent' : Tells(s, id, promise'[id] = "resolved")
    BY <1>6, <2>1
  <2> QED BY <2>2, <2>3, <2>4 DEF SentInv, Tells, Fits
<1> QED BY <1>4, <1>7 DEF SettledInv

\* A message settles the promise of its id the way it says; the loss of the
\* port, and the client's own leaving, resolve none.
LEMMA ClientSettled ==
  ASSUME Conn!PortInv, SettledInv,
         Client(Port!OnMessage) \/ Client(Port!OnDisconnect) \/ Client(Port!Disconnect)
  PROVE  SettledInv'
<1>1. /\ UNCHANGED <<sent, performed, asked, loop, frame>> /\ UNCHANGED handlerVars
  BY DEF Client, Port!OnMessage, Port!OnDisconnect, Port!Disconnect, Port!hostVars, Port!clientVars
<1>2. ReplyInv' /\ LoopInv'
  BY <1>1, QuietLoop DEF SettledInv
<1>3. /\ \A i \in DOMAIN toClient' : \E s \in sent : Tells(s, toClient'[i].id, toClient'[i].ok)
      /\ \A id \in DOMAIN promise' :
           (promise'[id] = "resolved" \/ (promise'[id] = "rejected" /\ port' = "open")) =>
             \E s \in sent : Tells(s, id, promise'[id] = "resolved")
  <2>1. CASE Client(Port!OnMessage)
    <3> DEFINE resp == Head(toClient)
    <3>1. /\ 1 \in DOMAIN toClient /\ resp = toClient[1]
          /\ \A i \in DOMAIN toClient' : \E k \in DOMAIN toClient : toClient'[i] = toClient[k]
      <4>1. /\ toClient # << >> /\ toClient' = Tail(toClient)
            /\ toClient \in Seq([id : Conn!Ids, ok : BOOLEAN, what : HostRequests])
        BY <2>1 DEF Client, Port!OnMessage, Conn!PortInv, Conn!PortTypeOK
      <4> DEFINE Answers == [id : Conn!Ids, ok : BOOLEAN, what : HostRequests]
      <4> HIDE DEF Answers
      <4>2. toClient \in Seq(Answers)
        BY <4>1 DEF Answers
      <4> QED BY <4>1, <4>2, Conn!Taken
    <3>2. PICK t \in sent : Tells(t, resp.id, resp.ok)
      BY <3>1 DEF SettledInv, SentInv
    <3>3. port' = port /\ port = "open"
      BY <2>1 DEF Client, Port!OnMessage
    <3>4. CASE promise' = promise
      BY <3>1, <3>3, <3>4 DEF SettledInv, SentInv
    <3>5. CASE promise' = [promise EXCEPT ![resp.id] = IF resp.ok THEN "resolved" ELSE "rejected"]
      <4>1. \A id \in DOMAIN promise' :
              /\ id \in DOMAIN promise
              /\ promise'[id] = IF id # resp.id THEN promise[id]
                                ELSE IF resp.ok THEN "resolved" ELSE "rejected"
        BY <3>5
      <4>2. ASSUME NEW id \in DOMAIN promise',
                   promise'[id] = "resolved" \/ (promise'[id] = "rejected" /\ port' = "open")
            PROVE  \E s \in sent : Tells(s, id, promise'[id] = "resolved")
        <5>1. CASE id = resp.id
          BY <3>2, <4>1, <5>1 DEF Tells
        <5>2. CASE id # resp.id
          BY <3>3, <4>1, <4>2, <5>2 DEF SettledInv, SentInv
        <5> QED BY <5>1, <5>2
      <4>3. \A i \in DOMAIN toClient' :
              \E s \in sent : Tells(s, toClient'[i].id, toClient'[i].ok)
        BY <3>1 DEF SettledInv, SentInv
      <4> QED BY <4>2, <4>3
    <3> QED BY <2>1, <3>4, <3>5 DEF Client, Port!OnMessage
  <2>2. CASE Client(Port!OnDisconnect)
    <3>1. /\ port' = "lost" /\ toClient' = toClient
          /\ \A id \in DOMAIN promise' : promise'[id] = "resolved" =>
               id \in DOMAIN promise /\ promise[id] = "resolved"
      BY <2>2 DEF Client, Port!OnDisconnect
    <3> QED BY <3>1 DEF SettledInv, SentInv
  <2>3. CASE Client(Port!Disconnect)
    <3>1. port' = "closed" /\ toClient' = << >> /\ promise' = promise
      BY <2>3 DEF Client, Port!Disconnect, Port!clientVars
    <3> QED BY <3>1 DEF SettledInv, SentInv
  <2> QED BY <2>1, <2>2, <2>3
<1>4. SentInv'
  BY <1>1, <1>3 DEF SettledInv, SentInv, Conn!Performed, Tells, Fits
<1> QED BY <1>2, <1>4 DEF SettledInv


-----------------------------------------------------------------------------
(* The loop.                                                                *)

\* A frame that is read comes after all that was replied to.
LEMMA ReadFrameSettled ==
  ASSUME Conn!PortInv, HostTypeOK, SettledInv, ReadFrame
  PROVE  SettledInv'
<1>1. /\ UNCHANGED <<sent, performed, asked, promise, port, toClient>>
      /\ loop = "reading" /\ loop' = "handling" /\ frame' = Head(toHost)
      /\ job'[Daemon] = frame'.what /\ Receive(Daemon)
  BY DEF ReadFrame, Port!Read, Port!clientVars
<1>2. 1 \in DOMAIN toHost /\ frame' = toHost[1]
  <2> DEFINE Frames == [id : Conn!Ids, what : HostRequests]
  <2> HIDE DEF Frames
  <2>1. toHost # << >> /\ toHost \in Seq(Frames)
    BY DEF ReadFrame, Port!Read, Conn!PortInv, Conn!PortTypeOK, Frames
  <2> QED BY <1>1, <2>1, Conn!Taken
<1>3. \A s \in sent : s.id < frame'.id
  BY <1>2 DEF SettledInv, SentInv, Conn!Performed, Conn!PortInv, Conn!FrameInv
<1>4. ReplyInv' /\ LoopInv'
  BY <1>1, ReceiveFits DEF LoopInv
<1>5. SentInv'
  BY <1>1, <1>3 DEF SettledInv, SentInv, Conn!Performed, Tells, Fits
<1> QED BY <1>4, <1>5 DEF SettledInv

\* What the loop has carried out is carried out for good.
LEMMA PerformedGrows ==
  ASSUME Conn!PortInv, NEW id \in Conn!Ids, performed' = Append(performed, id)
  PROVE  \A k : Conn!Performed(k) => Conn!Performed(k)'
<1>1. performed \in Seq(Conn!Ids)
  BY DEF Conn!PortInv, Conn!PortTypeOK
<1> QED BY <1>1, Conn!Appended DEF Conn!Performed

\* It carries a request out when the handler has its reply.
LEMMA HandledSettled ==
  ASSUME Conn!PortInv, SettledInv, Handled
  PROVE  SettledInv'
<1>1. /\ UNCHANGED <<sent, asked, promise, port, toClient, frame>> /\ UNCHANGED handlerVars
      /\ loop \in {"handling", "prompting"} /\ loop' = "done" /\ stage[Daemon] = "ready"
      /\ performed' = Append(performed, frame.id)
  BY DEF Handled, Port!Handle, Port!UserTypes, Port!Finish, Port!clientVars
<1>2. frame.id \in Conn!Ids
  BY <1>1 DEF Conn!PortInv, Conn!JobInv
<1>3. ReplyInv' /\ LoopInv'
  BY <1>1 DEF SettledInv, ReplyInv, LoopInv, Fits, handlerVars, hostVars
<1>4. \A s \in sent : Conn!Performed(s.id)'
  BY <1>1, <1>2, PerformedGrows DEF SettledInv, SentInv
<1>5. SentInv'
  BY <1>1, <1>4 DEF SettledInv, SentInv, Tells, Fits
<1> QED BY <1>3, <1>5 DEF SettledInv

\* The reply that is written is the first for its id, and the handler's.
LEMMA WriteFrameSettled ==
  ASSUME Conn!PortInv, SettledInv, WriteFrame
  PROVE  SettledInv'
<1> DEFINE s == [id |-> frame.id, reply |-> reply[Daemon]]
           response == [id |-> frame.id, ok |-> reply[Daemon].code = "ok", what |-> frame.what]
<1>1. /\ UNCHANGED <<performed, asked, promise, port>> /\ UNCHANGED handlerVars
      /\ loop = "done" /\ loop' = "reading" /\ sent' = sent \cup {s}
      /\ toClient' \in {toClient, Append(toClient, response)}
  BY DEF WriteFrame, Port!Write, Port!clientVars
<1>2. /\ Conn!Performed(frame.id) /\ frame \in [id : Conn!Ids, what : HostRequests]
      /\ frame.what = asked[frame.id]
  BY <1>1 DEF Conn!PortInv, Conn!JobInv, Conn!AsksIn
<1>3. Fits(asked[s.id], s.reply)
  BY <1>1, <1>2 DEF SettledInv, ReplyInv, LoopInv
<1>4. \A t \in sent : t.id # s.id
  <2>1. ASSUME NEW t \in sent PROVE t.id < frame.id /\ t.id \in Nat
    BY <1>1, <2>1, SentAsked DEF SettledInv, SentInv
  <2>2. frame.id \in Nat
    BY <1>2 DEF Conn!Ids
  <2> QED BY <2>1, <2>2
<1>5. \A i \in DOMAIN toClient' :
        \/ i \in DOMAIN toClient /\ toClient'[i] = toClient[i]
        \/ toClient'[i] = response
  <2> DEFINE Answers == [id : Conn!Ids, ok : BOOLEAN, what : HostRequests]
  <2>1. response \in Answers /\ toClient \in Seq(Answers)
    BY <1>2 DEF Conn!PortInv, Conn!PortTypeOK
  <2> HIDE DEF Answers, response
  <2> QED BY <1>1, <2>1, Conn!Appended
<1>6. \A i \in DOMAIN toClient' :
        \E t \in sent' : Tells(t, toClient'[i].id, toClient'[i].ok)
  <2> SUFFICES ASSUME NEW i \in DOMAIN toClient'
               PROVE  \E t \in sent' : Tells(t, toClient'[i].id, toClient'[i].ok)
    OBVIOUS
  <2>1. CASE i \in DOMAIN toClient /\ toClient'[i] = toClient[i]
    BY <1>1, <2>1 DEF SettledInv, SentInv
  <2>2. CASE toClient'[i] = response
    <3>1. toClient'[i].id = s.id /\ toClient'[i].ok = (reply[Daemon].code = "ok")
      BY <2>2
    <3>2. s.reply.code = reply[Daemon].code
      OBVIOUS
    <3> HIDE DEF s
    <3>3. Tells(s, toClient'[i].id, toClient'[i].ok)
      BY <3>1, <3>2, Zenon DEF Tells
    <3> QED BY <1>1, <3>3
  <2> QED BY <1>5, <2>1, <2>2
<1>7. ReplyInv' /\ LoopInv'
  BY <1>1 DEF SettledInv, ReplyInv, LoopInv, Fits, handlerVars, hostVars
<1>8. \A t \in sent' : Conn!Performed(t.id)' /\ Fits(asked'[t.id], t.reply)
  BY <1>1, <1>2, <1>3 DEF SettledInv, SentInv, Conn!Performed
<1>9. \A t, u \in sent' : t.id = u.id => t = u
  BY <1>1, <1>4 DEF SettledInv, SentInv
<1>10. \A id \in DOMAIN promise' :
         (promise'[id] = "resolved" \/ (promise'[id] = "rejected" /\ port' = "open")) =>
           \E t \in sent' : Tells(t, id, promise'[id] = "resolved")
  BY <1>1 DEF SettledInv, SentInv
<1>11. SentInv'
  BY <1>1, <1>6, <1>8, <1>9, <1>10 DEF SentInv, Tells, Fits, Conn!Performed
<1> QED BY <1>7, <1>11 DEF SettledInv

\* The rest of the loop replies nothing.
LEMMA LoopSettled ==
  ASSUME Conn!PortInv, HostTypeOK, SettledInv, AskPin \/ Exit \/ Killed
  PROVE  SettledInv'
<1>1. /\ UNCHANGED <<sent, performed, asked, promise, port, toClient>>
      /\ loop' = "gone" \/ (loop' = "prompting" /\ loop = "handling" /\ UNCHANGED frame)
  BY DEF AskPin, Exit, Killed, Port!PromptUser, Port!Eof, Port!Die, Port!clientVars
<1>2. ReplyInv' /\ LoopInv'
  <2>1. CASE AskPin
    <3>1. UNCHANGED handlerVars /\ loop' = "prompting" /\ loop = "handling" /\ UNCHANGED frame
      BY <2>1 DEF AskPin, Port!PromptUser
    <3> QED BY <3>1 DEF SettledInv, ReplyInv, LoopInv, Fits, handlerVars, hostVars
  <2>2. CASE Exit
    <3>1. UNCHANGED handlerVars /\ loop' = "gone"
      BY <2>2 DEF Exit, Port!Eof
    <3> QED BY <3>1 DEF SettledInv, ReplyInv, LoopInv, Fits, handlerVars, hostVars
  <2>3. CASE Killed
    BY <2>3, KilledFits DEF SettledInv, LoopInv, Killed, Port!Die
  <2> QED BY <2>1, <2>2, <2>3
<1>3. SentInv'
  BY <1>1 DEF SettledInv, SentInv, Conn!Performed, Tells, Fits
<1> QED BY <1>2, <1>3 DEF SettledInv

\* The handler, and the user, move on while the loop waits.
LEMMA HandlingSettled ==
  ASSUME CallsInv, HostInv, SettledInv, Handling \/ TypePin
  PROVE  SettledInv'
<1>1. UNCHANGED <<sent, performed, asked, promise, port, toClient, loop, frame>>
  BY DEF Handling, TypePin, portVars
<1>2. CASE UNCHANGED hostVars
  <2>1. UNCHANGED <<stage, job, reply>>
    BY <1>2 DEF hostVars
  <2>2. ReplyInv' /\ LoopInv'
    BY <1>1, <2>1 DEF SettledInv, ReplyInv, LoopInv, Fits
  <2> QED BY <1>1, <2>2, QuietSent DEF SettledInv
<1>3. CASE HostStep(Daemon) \/ ReadPin(Daemon)
  <2>1. job' = job /\ stage[Daemon] # "ready" /\ ReplyInv'
    BY <1>3, HandlerFits
  <2>2. LoopInv'
    BY <1>1, <2>1 DEF SettledInv, LoopInv
  <2>3. SentInv'
    BY <1>1, QuietSent DEF SettledInv
  <2> QED BY <2>1, <2>2, <2>3 DEF SettledInv
<1> QED BY <1>2, <1>3 DEF Handling, TypePin, RunsOn

-----------------------------------------------------------------------------
(* The theorems.                                                            *)

\* SettledInv holds at the start.
LEMMA InitSettled == SessionInit => SettledInv
  BY DEF SessionInit, HostInit, Port!Init, SettledInv, ReplyInv, LoopInv, SentInv

\* And every step keeps it.
LEMMA NextSettled ==
  ASSUME CallsInv, HostInv, Conn!PortInv, SettledInv, [SessionNext]_allVars
  PROVE  SettledInv'
<1>1. HostTypeOK
  BY DEF HostInv
<1>2. CASE UNCHANGED allVars
  <2>1. /\ UNCHANGED <<sent, performed, asked, promise, port, toClient, loop, frame>>
        /\ UNCHANGED handlerVars
    BY <1>2 DEF allVars, portVars
  <2>2. ReplyInv' /\ LoopInv'
    BY <2>1 DEF SettledInv, ReplyInv, LoopInv, Fits, handlerVars, hostVars
  <2> QED BY <2>1, <2>2, QuietSent DEF SettledInv
<1>3. CASE LoopStep \/ Killed
  BY <1>1, <1>3, ReadFrameSettled, HandledSettled, WriteFrameSettled, LoopSettled DEF LoopStep
<1>4. CASE Client(Port!ClientStep) \/ Client(Port!Disconnect)
  <2>1. Client(Port!OnMessage) \/ Client(Port!OnDisconnect) \/ Client(Port!Disconnect)
    BY <1>4 DEF Client, Port!ClientStep
  <2> QED BY <2>1, ClientSettled
<1> QED BY <1>2, <1>3, <1>4, CallSettled, HandlingSettled DEF SessionNext

\* It is an invariant: the card, the host and the connection are in order, so
\* the replies are.
THEOREM SettledInvariance == SessionSpec => []SettledInv
<1> QED
  BY InitSettled, NextSettled, SessionRefinesHost, HostRefinesLibrary, AnswerInvariance,
     HostInvariance, SessionInOrder, PTL DEF SessionSpec

\* A promise is settled with the reply of the handler that ran its very
\* request, whatever calls were queued, whichever hosts died, and whatever
\* else happened to the sessions between.
THEOREM SettledWithOwnReplyTheorem == SessionSpec => []SettledWithOwnReply
<1>1. SettledInv => SettledWithOwnReply
  BY DEF SettledInv, SentInv, Tells, Fits, SettledWithOwnReply
<1> QED BY <1>1, SettledInvariance, PTL

\* So the handlers of a connection, too, keep what NativeHost says of a host.
THEOREM SessionHostSafe ==
  SessionSpec => [](SignsWithFetchedKey /\ OneTryPerRequest /\ ListsWhatIsThere)
<1>1. HostInv => SignsWithFetchedKey /\ OneTryPerRequest /\ ListsWhatIsThere
  BY DEF HostInv, HandlerInv, SignsFetched, TriesOnce, ListsGenuine, Genuine, OnePerSlot,
     SignsWithFetchedKey, OneTryPerRequest, ListsWhatIsThere
<1> QED BY <1>1, SessionRefinesHost, HostInvariance, PTL
=============================================================================
