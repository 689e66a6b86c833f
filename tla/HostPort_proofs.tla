--------------------------- MODULE HostPort_proofs ---------------------------
(***************************************************************************)
(* Theorems of HostPort: the connection implements RemoteCalls for any     *)
(* number of calls and any requests.  The argument is the order of ids:    *)
(* the ids carried out, the one at work, the ones on the host's stdin and  *)
(* the client's next one rise in this order, so no id comes back.          *)
(***************************************************************************)
EXTENDS HostPort, SequenceTheorems, TLAPS

USE PortAssumption

-----------------------------------------------------------------------------
(* Queues.                                                                  *)

\* What Append does, element by element.
LEMMA Appended ==
  ASSUME NEW S, NEW s \in Seq(S), NEW e \in S
  PROVE  LET t == Append(s, e) IN
         /\ t \in Seq(S) /\ Len(t) = Len(s) + 1 /\ Len(s) \in Nat
         /\ DOMAIN s = 1 .. Len(s) /\ DOMAIN t = 1 .. Len(s) + 1
         /\ t[Len(s) + 1] = e /\ \A i \in DOMAIN s : t[i] = s[i]
  OBVIOUS

\* What an update of one element keeps.
LEMMA Updated ==
  ASSUME NEW S, NEW s \in Seq(S), NEW i, NEW e \in S
  PROVE  LET t == [s EXCEPT ![i] = e] IN
         /\ t \in Seq(S) /\ Len(t) = Len(s) /\ DOMAIN t = DOMAIN s
         /\ \A k \in DOMAIN s : t[k] = IF k = i THEN e ELSE s[k]
<1>1. s \in [1 .. Len(s) -> S] /\ Len(s) \in Nat
  BY LenProperties
<1>2. CASE i \in 1 .. Len(s)
  BY <1>1, <1>2, ExceptSeq
<1>3. CASE i \notin 1 .. Len(s)
  <2>1. [s EXCEPT ![i] = e] = s
    BY <1>1, <1>3
  <2> QED BY <1>1, <1>3, <2>1
<1> QED BY <1>2, <1>3

\* What Head and Tail do.
LEMMA Taken ==
  ASSUME NEW S, NEW s \in Seq(S), s # << >>
  PROVE  /\ 1 \in DOMAIN s /\ Head(s) = s[1] /\ Head(s) \in S /\ Tail(s) \in Seq(S)
         /\ DOMAIN s \subseteq Nat
         /\ \A i \in DOMAIN Tail(s) : i \in Nat /\ i + 1 \in DOMAIN s /\ Tail(s)[i] = s[i + 1]
<1>1. /\ Head(s) \in S /\ Tail(s) \in Seq(S) /\ Len(Tail(s)) = Len(s) - 1
      /\ \A i \in 1 .. Len(Tail(s)) : Tail(s)[i] = s[i + 1]
  BY HeadTailProperties
<1>2. /\ DOMAIN s = 1 .. Len(s) /\ Len(s) \in Nat /\ Len(s) # 0
      /\ DOMAIN Tail(s) = 1 .. Len(Tail(s)) /\ Head(s) = s[1]
  BY <1>1, LenProperties, EmptySeq
<1> QED BY <1>1, <1>2

-----------------------------------------------------------------------------
(* The inductive invariant.                                                 *)

\* A frame asks what the call of its id asks.
AsksIn(f, calls) == f.id \in DOMAIN calls /\ f.what = calls[f.id]

Performed(id) == \E k \in DOMAIN performed : performed[k] = id

\* The frames to the host come in the order of their calls, after all that has
\* been carried out; the frames from it answer what has been.
FrameInv ==
  /\ \A i \in DOMAIN toHost : AsksIn(toHost[i], asked)
  /\ \A i, k \in DOMAIN toHost : i < k => toHost[i].id < toHost[k].id
  /\ \A i \in DOMAIN toHost : \A k \in DOMAIN performed : performed[k] < toHost[i].id
  /\ \A i \in DOMAIN toClient : AsksIn(toClient[i], asked) /\ Performed(toClient[i].id)
  /\ \A k \in DOMAIN performed : performed[k] \in DOMAIN asked

\* So does the request the host works on.
JobInv ==
  host \in {"handling", "prompting", "done"} =>
    /\ job \in [id : Ids, what : Params] /\ AsksIn(job, asked)
    /\ \A i \in DOMAIN toHost : job.id < toHost[i].id
    /\ IF host = "done" THEN Performed(job.id)
       ELSE \A k \in DOMAIN performed : performed[k] < job.id

PortInv == PortTypeOK /\ FrameInv /\ JobInv /\ PendingAreWaiting

\* The calls made so far have the ids below the next one.
LEMMA CallsSoFar ==
  ASSUME PortTypeOK
  PROVE  /\ DOMAIN asked = 1 .. nextId - 1 /\ DOMAIN promise = DOMAIN asked
         /\ DOMAIN answer = DOMAIN asked /\ nextId \in Nat /\ DOMAIN asked \subseteq Ids
BY LenProperties DEF PortTypeOK, Ids

-----------------------------------------------------------------------------
(* Types.                                                                   *)

\* A call gets an id of its own in every list of the client.
LEMMA CallTypeKept ==
  ASSUME PortTypeOK, NEW x \in Params, Call(x)
  PROVE  PortTypeOK'
<1>1. /\ nextId \in Ids /\ nextId' = nextId + 1 /\ nextId' \in 1 .. MaxCalls + 1
      /\ pending' \subseteq Ids
  BY DEF Call, PortTypeOK, Ids
<1>2. asked' \in Seq(Params) /\ Len(asked') = Len(asked) + 1
  BY Appended DEF Call, PortTypeOK
<1>3. promise' \in Seq(PromiseStates) /\ Len(promise') = Len(promise) + 1
  BY Appended DEF Call, PortTypeOK, PromiseStates
<1>4. answer' \in Seq(Params \cup {NoAnswer}) /\ Len(answer') = Len(answer) + 1
  BY Appended DEF Call, PortTypeOK
<1>5. toHost' \in Seq([id : Ids, what : Params])
  <2>1. [id |-> nextId, what |-> x] \in [id : Ids, what : Params]
    BY <1>1
  <2> QED BY <2>1, Appended DEF Call, PortTypeOK
<1> QED
  BY <1>1, <1>2, <1>3, <1>4, <1>5, SMTT(30) DEF Call, PortTypeOK, hostVars

\* Answers and disconnects settle what is there.
LEMMA ClientTypeKept ==
  ASSUME PortTypeOK, OnMessage \/ OnDisconnect \/ Disconnect
  PROVE  PortTypeOK'
<1>1. CASE OnMessage
  <2> DEFINE resp == Head(toClient)
  <2>1. /\ toClient' \in Seq([id : Ids, ok : BOOLEAN, what : Params])
        /\ resp \in [id : Ids, ok : BOOLEAN, what : Params]
    BY <1>1, Taken DEF OnMessage, PortTypeOK
  <2>2. /\ pending' \subseteq Ids
        /\ promise' \in Seq(PromiseStates) /\ Len(promise') = Len(promise)
        /\ answer' \in Seq(Params \cup {NoAnswer}) /\ Len(answer') = Len(answer)
    <3>1. CASE resp.id \in pending
      <4>1. PICK how \in PromiseStates :
              /\ promise' = [promise EXCEPT ![resp.id] = how]
              /\ answer' = [answer EXCEPT ![resp.id] = resp.what]
              /\ pending' = pending \ {resp.id}
        BY <1>1, <3>1 DEF OnMessage, PromiseStates
      <4>2. promise' \in Seq(PromiseStates) /\ Len(promise') = Len(promise)
        BY <4>1, Updated DEF PortTypeOK
      <4>3. answer' \in Seq(Params \cup {NoAnswer}) /\ Len(answer') = Len(answer)
        BY <2>1, <4>1, Updated DEF PortTypeOK
      <4> QED BY <4>1, <4>2, <4>3 DEF PortTypeOK
    <3>2. CASE resp.id \notin pending
      BY <1>1, <3>2 DEF OnMessage, PortTypeOK
    <3> QED BY <3>1, <3>2
  <2> QED BY <1>1, <2>1, <2>2 DEF OnMessage, PortTypeOK, hostVars
<1>2. CASE OnDisconnect
  <2>1. /\ DOMAIN promise = 1 .. Len(promise) /\ Len(promise) \in Nat
        /\ \A id \in DOMAIN promise : promise[id] \in PromiseStates
    BY LenProperties DEF PortTypeOK
  <2>2. promise' \in [1 .. Len(promise) -> PromiseStates]
    BY <1>2, <2>1 DEF OnDisconnect, PromiseStates
  <2>3. promise' \in Seq(PromiseStates) /\ Len(promise') = Len(promise)
    BY <2>1, <2>2
  <2> QED BY <1>2, <2>3 DEF OnDisconnect, PortTypeOK, hostVars
<1>3. CASE Disconnect
  BY <1>3 DEF Disconnect, PortTypeOK, clientVars, hostVars
<1> QED BY <1>1, <1>2, <1>3

\* The host moves one frame at a time.
LEMMA HostTypeKept ==
  ASSUME PortTypeOK, JobInv, HostStep \/ PromptUser \/ UserTypes \/ Die
  PROVE  PortTypeOK'
<1>1. CASE Read
  <2>1. Head(toHost) \in [id : Ids, what : Params] /\ toHost' \in Seq([id : Ids, what : Params])
    BY <1>1, Taken DEF Read, PortTypeOK
  <2> QED BY <1>1, <2>1 DEF Read, PortTypeOK, clientVars
<1>2. CASE Handle \/ UserTypes
  <2>1. job.id \in Ids
    BY <1>2 DEF Handle, UserTypes, JobInv
  <2>2. performed' \in Seq(Ids)
    <3>1. performed' = Append(performed, job.id)
      BY <1>2 DEF Handle, UserTypes, Finish
    <3> QED BY <2>1, <3>1, Appended DEF PortTypeOK
  <2> QED BY <1>2, <2>2 DEF Handle, UserTypes, Finish, PortTypeOK, clientVars
<1>3. CASE Write
  <2>1. \A ok \in BOOLEAN : [id |-> job.id, ok |-> ok, what |-> job.what]
                              \in [id : Ids, ok : BOOLEAN, what : Params]
    BY <1>3 DEF Write, JobInv
  <2>2. toClient' \in Seq([id : Ids, ok : BOOLEAN, what : Params])
    <3>1. PICK f \in [id : Ids, ok : BOOLEAN, what : Params] :
            toClient' \in {toClient, Append(toClient, f)}
      BY <1>3, <2>1 DEF Write
    <3>2. toClient \in Seq([id : Ids, ok : BOOLEAN, what : Params])
      BY DEF PortTypeOK
    <3> DEFINE Answers == [id : Ids, ok : BOOLEAN, what : Params]
    <3> HIDE DEF Answers
    <3>3. f \in Answers /\ toClient \in Seq(Answers)
      BY <3>1, <3>2 DEF Answers
    <3>4. Append(toClient, f) \in Seq(Answers)
      BY <3>3, Appended
    <3> QED BY <3>1, <3>2, <3>4 DEF Answers
  <2> QED BY <1>3, <2>2 DEF Write, PortTypeOK, clientVars
<1>4. CASE Eof \/ PromptUser
  BY <1>4 DEF Eof, PromptUser, PortTypeOK, clientVars
<1>5. CASE Die
  BY <1>5 DEF Die, PortTypeOK, clientVars
<1> QED BY <1>1, <1>2, <1>3, <1>4, <1>5 DEF HostStep

-----------------------------------------------------------------------------
(* The order of the frames.                                                 *)

\* A new call's id is above all there are, and its frame the last.
LEMMA CallFrames ==
  ASSUME PortInv, NEW x \in Params, Call(x)
  PROVE  FrameInv' /\ JobInv'
<1> DEFINE f == [id |-> nextId, what |-> x]
<1>1. /\ PortTypeOK /\ FrameInv /\ JobInv
      /\ DOMAIN asked = 1 .. nextId - 1 /\ nextId \in Nat /\ nextId \in Ids
      /\ UNCHANGED <<toClient, host, job, performed>>
  BY CallsSoFar DEF PortInv, PortTypeOK, Call, hostVars, Ids
<1>2. /\ DOMAIN asked' = 1 .. nextId /\ asked'[nextId] = x
      /\ \A id \in DOMAIN asked : id \in DOMAIN asked' /\ asked'[id] = asked[id]
  <2>1. asked' = Append(asked, x) /\ asked \in Seq(Params) /\ Len(asked) = nextId - 1
    BY <1>1 DEF Call, PortTypeOK
  <2> QED BY <1>1, <2>1, Appended
<1>3. \A g : AsksIn(g, asked) => AsksIn(g, asked') /\ g.id < nextId /\ g.id \in Nat
  BY <1>1, <1>2 DEF AsksIn
<1>4. \/ toHost' = toHost
      \/ /\ DOMAIN toHost = 1 .. Len(toHost) /\ Len(toHost) \in Nat
         /\ DOMAIN toHost' = 1 .. Len(toHost) + 1
         /\ toHost'[Len(toHost) + 1] = f /\ \A k \in DOMAIN toHost : toHost'[k] = toHost[k]
  <2>1. f \in [id : Ids, what : Params] /\ toHost \in Seq([id : Ids, what : Params])
    BY <1>1 DEF PortTypeOK
  <2>2. toHost' \in {toHost, Append(toHost, f)}
    BY DEF Call
  <2> HIDE DEF f
  <2> QED BY <2>1, <2>2, Appended
<1>5. AsksIn(f, asked')
  BY <1>1, <1>2 DEF AsksIn, Ids
<1>6. \A i \in DOMAIN toHost' :
        \/ i \in DOMAIN toHost /\ toHost'[i] = toHost[i]
        \/ /\ toHost'[i] = f /\ i \notin DOMAIN toHost
           /\ \A k \in DOMAIN toHost' \ {i} : k \in DOMAIN toHost /\ k < i
  BY <1>4
<1>7. \A i \in DOMAIN toHost : toHost[i].id < nextId /\ toHost[i].id \in Nat
  BY <1>1, <1>3 DEF FrameInv, AsksIn
<1>8. \A k \in DOMAIN performed : performed[k] < nextId /\ performed[k] \in Nat
  BY <1>1 DEF FrameInv
<1>9. \A i, k \in DOMAIN toHost' : i < k => toHost'[i].id < toHost'[k].id
  <2> SUFFICES ASSUME NEW i \in DOMAIN toHost', NEW k \in DOMAIN toHost', i < k
               PROVE  toHost'[i].id < toHost'[k].id
    OBVIOUS
  <2>1. i \in DOMAIN toHost /\ toHost'[i] = toHost[i] /\ i \in Int /\ k \in Int
    BY <1>4, <1>6, LenProperties, <1>1 DEF PortTypeOK
  <2>2. CASE k \in DOMAIN toHost /\ toHost'[k] = toHost[k]
    BY <1>1, <2>1, <2>2 DEF FrameInv
  <2>3. CASE toHost'[k] = f
    BY <1>7, <2>1, <2>3
  <2> QED BY <1>6, <2>2, <2>3
<1>10. FrameInv'
  <2>1. \A i \in DOMAIN toHost' : AsksIn(toHost'[i], asked')
    BY <1>1, <1>3, <1>5, <1>6 DEF FrameInv
  <2>2. \A i \in DOMAIN toHost' : \A k \in DOMAIN performed : performed[k] < toHost'[i].id
    BY <1>1, <1>6, <1>8 DEF FrameInv
  <2>3. \A i \in DOMAIN toClient : AsksIn(toClient[i], asked') /\ Performed(toClient[i].id)'
    BY <1>1, <1>3 DEF FrameInv, Performed
  <2>4. \A k \in DOMAIN performed : performed[k] \in DOMAIN asked'
    BY <1>1, <1>2 DEF FrameInv
  <2> QED BY <1>1, <1>9, <2>1, <2>2, <2>3, <2>4 DEF FrameInv
<1>11. JobInv'
  <2> SUFFICES ASSUME host \in {"handling", "prompting", "done"} PROVE JobInv'
    BY <1>1 DEF JobInv
  <2>1. AsksIn(job, asked') /\ job.id < nextId
    BY <1>1, <1>3 DEF JobInv
  <2>2. \A i \in DOMAIN toHost' : job.id < toHost'[i].id
    BY <1>1, <1>6, <2>1 DEF JobInv
  <2> QED BY <1>1, <2>1, <2>2 DEF JobInv, Performed
<1> QED BY <1>10, <1>11

\* Frames that arrive, or are dropped, leave the order of the rest.
LEMMA ClientFrames ==
  ASSUME PortInv, OnMessage \/ OnDisconnect \/ Disconnect
  PROVE  FrameInv' /\ JobInv'
<1>1. /\ PortTypeOK /\ FrameInv /\ JobInv /\ UNCHANGED <<asked, toHost, host, job, performed>>
  BY DEF PortInv, OnMessage, OnDisconnect, Disconnect, hostVars, clientVars
<1>2. \A i \in DOMAIN toClient' : \E k \in DOMAIN toClient : toClient'[i] = toClient[k]
  <2>1. CASE OnMessage
    BY <1>1, <2>1, Taken DEF OnMessage, PortTypeOK
  <2>2. CASE OnDisconnect \/ Disconnect
    BY <2>2 DEF OnDisconnect, Disconnect
  <2> QED BY <2>1, <2>2
<1> QED BY <1>1, <1>2 DEF FrameInv, JobInv, AsksIn, Performed

\* The host takes the first of the frames to it.
LEMMA ReadFrames ==
  ASSUME PortInv, Read
  PROVE  FrameInv' /\ JobInv'
<1>1. /\ PortTypeOK /\ FrameInv /\ JobInv /\ UNCHANGED <<asked, toClient, performed>>
      /\ host' = "handling" /\ job' = Head(toHost) /\ toHost' = Tail(toHost)
  BY DEF PortInv, Read, clientVars
<1>2. /\ 1 \in DOMAIN toHost /\ job' = toHost[1] /\ job' \in [id : Ids, what : Params]
      /\ \A i \in DOMAIN toHost' : i \in Nat /\ i + 1 \in DOMAIN toHost /\ toHost'[i] = toHost[i + 1]
      /\ \A i \in DOMAIN toHost' : 1 < i + 1
  <2> DEFINE Frames == [id : Ids, what : Params]
  <2> HIDE DEF Frames
  <2>1. toHost \in Seq(Frames) /\ toHost # << >>
    BY <1>1 DEF PortTypeOK, Read, Frames
  <2>2. /\ 1 \in DOMAIN toHost /\ Head(toHost) = toHost[1] /\ Head(toHost) \in Frames
        /\ toHost' \in Seq(Frames)
        /\ \A i \in DOMAIN toHost' :
             i \in Nat /\ i + 1 \in DOMAIN toHost /\ toHost'[i] = toHost[i + 1]
    BY <1>1, <2>1, Taken
  <2>3. \A i \in DOMAIN toHost' : 1 < i + 1
    BY <2>2, LenProperties
  <2> QED BY <1>1, <2>2, <2>3 DEF Frames
<1>3. FrameInv'
  BY <1>1, <1>2 DEF FrameInv, AsksIn, Performed
<1>4. JobInv'
  BY <1>1, <1>2 DEF FrameInv, JobInv, AsksIn
<1> QED BY <1>3, <1>4

\* What it has carried out comes before all that wait.
LEMMA FinishFrames ==
  ASSUME PortInv, Handle \/ UserTypes
  PROVE  FrameInv' /\ JobInv'
<1>1. /\ PortTypeOK /\ FrameInv /\ JobInv
      /\ UNCHANGED <<asked, toHost, toClient, job>>
      /\ host \in {"handling", "prompting"} /\ host' = "done"
      /\ performed' = Append(performed, job.id)
  BY DEF PortInv, Handle, UserTypes, Finish, clientVars
<1>2. job.id \in Ids /\ performed \in Seq(Ids)
  BY <1>1 DEF JobInv, PortTypeOK
<1>3. /\ Len(performed) + 1 \in DOMAIN performed'
      /\ performed'[Len(performed) + 1] = job.id
      /\ \A k \in DOMAIN performed : k \in DOMAIN performed' /\ performed'[k] = performed[k]
      /\ \A k \in DOMAIN performed' :
           performed'[k] = job.id \/ (k \in DOMAIN performed /\ performed'[k] = performed[k])
  BY <1>1, <1>2, Appended
<1>4. \A id : Performed(id) => Performed(id)'
  BY <1>3 DEF Performed
<1>5. Performed(job.id)'
  BY <1>1, <1>3 DEF Performed
<1>6. FrameInv'
  BY <1>1, <1>3, <1>4 DEF FrameInv, JobInv, AsksIn
<1>7. JobInv'
  BY <1>1, <1>5 DEF JobInv, AsksIn
<1> QED BY <1>6, <1>7

\* The answer that goes out is to the request just carried out.
LEMMA WriteFrames ==
  ASSUME PortInv, Write
  PROVE  FrameInv' /\ JobInv'
<1>1. /\ PortTypeOK /\ FrameInv /\ JobInv /\ UNCHANGED <<asked, toHost, performed>>
      /\ host = "done" /\ host' = "reading"
  BY DEF PortInv, Write, clientVars
<1>2. AsksIn(job, asked) /\ Performed(job.id) /\ job \in [id : Ids, what : Params]
  BY <1>1 DEF JobInv
<1>3. PICK f \in [id : Ids, ok : BOOLEAN, what : Params] :
        f.id = job.id /\ f.what = job.what /\ toClient' \in {toClient, Append(toClient, f)}
  BY <1>2 DEF Write
<1>4. \A i \in DOMAIN toClient' :
        toClient'[i] = f \/ (i \in DOMAIN toClient /\ toClient'[i] = toClient[i])
  <2> DEFINE Answers == [id : Ids, ok : BOOLEAN, what : Params]
  <2> HIDE DEF Answers
  <2>1. f \in Answers /\ toClient \in Seq(Answers)
    BY <1>1, <1>3 DEF Answers, PortTypeOK
  <2>2. LET t == Append(toClient, f) IN
        \A i \in DOMAIN t : t[i] = f \/ (i \in DOMAIN toClient /\ t[i] = toClient[i])
    BY <2>1, Appended
  <2> QED BY <1>3, <2>2
<1> QED BY <1>1, <1>2, <1>3, <1>4 DEF FrameInv, JobInv, AsksIn, Performed

\* A host that is gone works on nothing.
LEMMA GoneFrames ==
  ASSUME PortInv, Eof \/ Die \/ PromptUser
  PROVE  FrameInv' /\ JobInv'
  BY DEF PortInv, Eof, Die, PromptUser, FrameInv, JobInv, AsksIn, Performed, clientVars

-----------------------------------------------------------------------------
(* pending holds the calls that wait.                                       *)

\* A call is entered as it begins to wait.
LEMMA CallPending ==
  ASSUME PortTypeOK, PendingAreWaiting, NEW x \in Params, Call(x)
  PROVE  PendingAreWaiting'
<1>1. SUFFICES ASSUME port = "open" PROVE PendingAreWaiting'
  BY DEF Call, PendingAreWaiting
<1>2. /\ DOMAIN promise = 1 .. nextId - 1 /\ nextId \in Nat \ {0}
      /\ pending = {id \in DOMAIN promise : promise[id] = "waiting"}
      /\ pending' = pending \cup {nextId}
  BY <1>1, CallsSoFar DEF PendingAreWaiting, Call, PortTypeOK
<1>3. /\ DOMAIN promise' = 1 .. nextId /\ promise'[nextId] = "waiting"
      /\ \A id \in DOMAIN promise : promise'[id] = promise[id]
  <2>1. promise \in Seq(PromiseStates) /\ "waiting" \in PromiseStates /\ Len(promise) = nextId - 1
    BY DEF PortTypeOK, PromiseStates
  <2>2. promise' = Append(promise, "waiting")
    BY <1>1 DEF Call
  <2> QED BY <1>2, <2>1, <2>2, Appended
<1>4. pending' = {id \in DOMAIN promise' : promise'[id] = "waiting"}
  BY <1>2, <1>3
<1> QED BY <1>4 DEF PendingAreWaiting

\* It leaves with its answer, or with all the others when the port is lost.
LEMMA ClientPending ==
  ASSUME PortTypeOK, PendingAreWaiting, OnMessage \/ OnDisconnect \/ Disconnect
  PROVE  PendingAreWaiting'
<1>1. CASE OnDisconnect \/ Disconnect
  BY <1>1 DEF OnDisconnect, Disconnect, PendingAreWaiting
<1>2. CASE OnMessage
  <2> DEFINE resp == Head(toClient)
  <2>1. /\ pending = {id \in DOMAIN promise : promise[id] = "waiting"} /\ port = "open"
    BY <1>2 DEF OnMessage, PendingAreWaiting
  <2>2. CASE resp.id \notin pending
    BY <1>2, <2>2 DEF OnMessage, PendingAreWaiting
  <2>3. CASE resp.id \in pending
    <3>1. PICK how \in PromiseStates \ {"waiting"} : promise' = [promise EXCEPT ![resp.id] = how]
      BY <1>2, <2>3 DEF OnMessage, PromiseStates
    <3>2. /\ DOMAIN promise' = DOMAIN promise
          /\ \A k \in DOMAIN promise : promise'[k] = IF k = resp.id THEN how ELSE promise[k]
      BY <3>1, Updated DEF PortTypeOK
    <3>3. pending' = pending \ {resp.id}
      BY <1>2, <2>3 DEF OnMessage
    <3> QED BY <2>1, <3>1, <3>2, <3>3 DEF PendingAreWaiting
  <2> QED BY <2>2, <2>3
<1> QED BY <1>1, <1>2

\* PortInv is inductive.
LEMMA NextPortInv ==
  ASSUME PortInv, [Next]_vars
  PROVE  PortInv'
<1>1. PortTypeOK /\ FrameInv /\ JobInv /\ PendingAreWaiting
  BY DEF PortInv
<1>2. CASE UNCHANGED vars
  BY <1>1, <1>2 DEF vars, clientVars, hostVars, PortInv, PortTypeOK, FrameInv, JobInv, AsksIn,
     Performed, PendingAreWaiting
<1>3. ASSUME NEW x \in Params, Call(x) PROVE PortInv'
  BY <1>1, <1>3, CallTypeKept, CallFrames, CallPending DEF PortInv
<1>4. CASE ClientStep \/ Disconnect
  BY <1>1, <1>4, ClientTypeKept, ClientFrames, ClientPending DEF ClientStep, PortInv
<1>5. CASE HostStep \/ PromptUser \/ UserTypes \/ Die
  <2>1. PortTypeOK'
    BY <1>1, <1>5, HostTypeKept
  <2>2. FrameInv' /\ JobInv'
    BY <1>5, ReadFrames, FinishFrames, WriteFrames, GoneFrames DEF HostStep
  <2>3. UNCHANGED <<clientVars, port>>
    BY <1>5 DEF HostStep, Read, Handle, UserTypes, Finish, Write, Eof, PromptUser, Die
  <2>4. PendingAreWaiting'
    BY <1>1, <2>3 DEF PendingAreWaiting, clientVars
  <2> QED BY <2>1, <2>2, <2>4 DEF PortInv
<1> QED BY <1>2, <1>3, <1>4, <1>5 DEF Next

\* It holds of a fresh connection.
LEMMA InitPortInv == Init => PortInv
  BY DEF Init, PortInv, PortTypeOK, FrameInv, JobInv, AsksIn, Performed, PendingAreWaiting

\* Types, the order of frames and the entries of pending are as they should be,
\* however frames, deaths, disconnects and late calls interleave.
THEOREM PortInvariance == Init /\ [][Next]_vars => []PortInv
  BY InitPortInv, NextPortInv, PTL

\* Every variable has its type: no id is ever beyond the calls made.
THEOREM PortTypeCorrect == Spec => []PortTypeOK
<1>1. PortInv => PortTypeOK
  BY DEF PortInv
<1> QED BY <1>1, PortInvariance, PTL DEF Spec

\* While the port is open no waiting call is forgotten, and none is kept.
THEOREM PendingAreWaitingTheorem == Spec => []PendingAreWaiting
<1>1. PortInv => PendingAreWaiting
  BY DEF PortInv
<1> QED BY <1>1, PortInvariance, PTL DEF Spec

-----------------------------------------------------------------------------
(* The refinement.                                                          *)

\* A call is an Issue.
LEMMA CallIssues ==
  ASSUME NEW x \in Params, Call(x)
  PROVE  Service!Next
<1>1. Service!Issue(x)
  BY DEF Call, hostVars, Service!Issue
<1> QED BY <1>1 DEF Service!Next

\* An answer that arrives for a call that waits is a Settle of it: the call has
\* been carried out, and the answer is to what it asked.
LEMMA MessageSettles ==
  ASSUME PortInv, OnMessage
  PROVE  Service!Next \/ UNCHANGED Service!serviceVars
<1> DEFINE resp == Head(toClient)
<1>1. CASE resp.id \notin pending
  BY <1>1 DEF OnMessage, hostVars, Service!serviceVars
<1>2. CASE resp.id \in pending
  <2>1. 1 \in DOMAIN toClient /\ resp = toClient[1]
    <3> DEFINE Answers == [id : Ids, ok : BOOLEAN, what : Params]
    <3> HIDE DEF Answers
    <3>1. toClient \in Seq(Answers) /\ toClient # << >>
      BY DEF PortInv, PortTypeOK, OnMessage, Answers
    <3> QED BY <3>1, Taken
  <2>2. AsksIn(resp, asked) /\ Performed(resp.id)
    BY <2>1 DEF PortInv, FrameInv
  <2>3. promise[resp.id] = "waiting"
    BY <1>2 DEF PortInv, PendingAreWaiting, OnMessage
  <2>4. Service!Settle(resp.id)
    BY <1>2, <2>2, <2>3 DEF OnMessage, hostVars, AsksIn, Performed, Service!Settle
  <2> QED BY <2>2, <2>4 DEF AsksIn, Service!Next
<1> QED BY <1>1, <1>2

\* A lost port abandons every call that waits.
LEMMA DisconnectAbandons ==
  ASSUME PortInv, OnDisconnect
  PROVE  Service!Next
<1>1. pending = {id \in DOMAIN promise : promise[id] = "waiting"}
  BY DEF PortInv, PendingAreWaiting, OnDisconnect
<1>2. promise' = [id \in DOMAIN promise |->
                    IF promise[id] = "waiting" THEN "rejected" ELSE promise[id]]
  BY <1>1 DEF OnDisconnect
<1>3. Service!Abandon
  BY <1>2 DEF OnDisconnect, hostVars, Service!Abandon
<1> QED BY <1>3 DEF Service!Next

\* A request is carried out after those before it.
LEMMA FinishPerforms ==
  ASSUME PortInv, Handle \/ UserTypes
  PROVE  Service!Next
<1>1. /\ job.id \in DOMAIN asked /\ \A k \in DOMAIN performed : performed[k] < job.id
  BY DEF PortInv, JobInv, AsksIn, Handle, UserTypes
<1>2. Service!Perform(job.id)
  BY <1>1 DEF Handle, UserTypes, Finish, clientVars, Service!Perform
<1> QED BY <1>1, <1>2 DEF Service!Next

\* The connection implements what RemoteCalls promises a caller: its calls are
\* carried out in order and at most once, and each is settled at most once,
\* with the answer to itself.
THEOREM SafetyImplements == Init /\ [][Next]_vars => Implements
<1>1. Init => Service!Init
  BY DEF Init, Service!Init
<1>2. ASSUME PortInv, [Next]_vars
      PROVE  [Service!Next]_(Service!serviceVars)
  <2>1. CASE \/ Disconnect \/ Read \/ PromptUser \/ Write \/ Eof \/ Die \/ UNCHANGED vars
    BY <2>1 DEF Disconnect, Read, PromptUser, Write, Eof, Die, vars, clientVars, hostVars,
       Service!serviceVars
  <2> QED
    BY <1>2, <2>1, CallIssues, MessageSettles, DisconnectAbandons, FinishPerforms
    DEF Next, ClientStep, HostStep
<1> QED BY <1>1, <1>2, PortInvariance, PTL DEF Implements, Service!Spec

\* Fairness takes nothing away.
THEOREM ImplementsTheorem == Spec => Implements
  BY SafetyImplements, PTL DEF Spec
=============================================================================
