------------------------------ MODULE HostPort ------------------------------
(***************************************************************************)
(* The native-messaging connection: HostClient of an extension             *)
(* (integration/ts-client/host-client.ts), the browser's port between them *)
(* and the main loop of yubiwallet-host (yubiwallet-host/src/main.rs).     *)
(* What a handler does with the card is NativeHost's subject; here it is   *)
(* one step, or two with the PIN typed in between.                         *)
(***************************************************************************)
EXTENDS Naturals, Sequences, FiniteSets

CONSTANTS Params,    \* what a call may ask: method and params
          NoAnswer,
          MaxCalls   \* bound on the calls of one HostClient

ASSUME PortAssumption == MaxCalls \in Nat /\ NoAnswer \notin Params

VARIABLES
  nextId,     \* HostClient.nextId
  pending,    \* the keys of HostClient.pending
  asked,      \* asked[id]: what call id asks
  promise,    \* promise[id]: how its promise stands
  answer,     \* answer[id]: the request whose answer settled it, or NoAnswer
  port,       \* the client's port: "open", "closed" by it, or "lost"
  toHost,     \* frames on the host's stdin
  toClient,   \* frames on their way from its stdout
  host,       \* the main loop: "reading", "handling", "prompting", "done" or "gone"
  job,        \* the request it works on
  performed   \* history: the ids of the requests it has carried out, in order

clientVars == <<nextId, pending, asked, promise, answer>>
hostVars   == <<host, job, performed>>
vars       == <<clientVars, port, toHost, toClient, hostVars>>

Ids == 1 .. MaxCalls
PromiseStates == {"waiting", "resolved", "rejected"}

PortTypeOK ==
  /\ nextId \in 1 .. MaxCalls + 1
  /\ pending \subseteq Ids
  /\ asked \in Seq(Params) /\ promise \in Seq(PromiseStates)
  /\ answer \in Seq(Params \cup {NoAnswer})
  /\ Len(asked) = nextId - 1 /\ Len(promise) = nextId - 1 /\ Len(answer) = nextId - 1
  /\ port \in {"open", "closed", "lost"}
  /\ toHost \in Seq([id : Ids, what : Params])
  /\ toClient \in Seq([id : Ids, ok : BOOLEAN, what : Params])
  /\ host \in {"reading", "handling", "prompting", "done", "gone"}
  /\ job \in [id : Ids, what : Params] \cup {NoAnswer}
  /\ performed \in Seq(Ids)

Init ==
  /\ nextId = 1 /\ pending = {}
  /\ asked = << >> /\ promise = << >> /\ answer = << >>
  /\ port = "open" /\ toHost = << >> /\ toClient = << >>
  /\ host \in {"reading", "gone"}   \* gone: connectNative finds no host
  /\ job = NoAnswer /\ performed = << >>

-----------------------------------------------------------------------------
(* HostClient.                                                              *)

\* Mutant: the id of the call before is used again.
CallReusingId(x) ==
  /\ nextId <= MaxCalls
  /\ pending' = pending \cup {nextId}
  /\ asked' = Append(asked, x)
  /\ promise' = Append(promise, IF port = "open" THEN "waiting" ELSE "rejected")
  /\ answer' = Append(answer, NoAnswer)
  /\ toHost' = IF port = "open" /\ host # "gone"
               THEN Append(toHost, [id |-> nextId, what |-> x]) ELSE toHost
  /\ UNCHANGED <<nextId, port, toClient, hostVars>>

\* call: the entry in pending is made first; on a port that is closed
\* postMessage throws, which rejects the promise and leaves the entry behind.
Call(x) ==
  /\ nextId <= MaxCalls
  /\ nextId' = nextId + 1
  /\ pending' = pending \cup {nextId}
  /\ asked' = Append(asked, x)
  /\ promise' = Append(promise, IF port = "open" THEN "waiting" ELSE "rejected")
  /\ answer' = Append(answer, NoAnswer)
  /\ toHost' = IF port = "open" /\ host # "gone"
               THEN Append(toHost, [id |-> nextId, what |-> x]) ELSE toHost
  /\ UNCHANGED <<port, toClient, hostVars>>

\* Mutant: the entry stays in pending.
OnMessageKeeping ==
  /\ port = "open" /\ toClient # << >>
  /\ LET resp == Head(toClient) IN
       /\ promise' = [promise EXCEPT ![resp.id] = IF resp.ok THEN "resolved" ELSE "rejected"]
       /\ answer' = [answer EXCEPT ![resp.id] = resp.what]
       /\ UNCHANGED pending
  /\ toClient' = Tail(toClient)
  /\ UNCHANGED <<nextId, asked, port, toHost, hostVars>>

\* onMessage.
OnMessage ==
  /\ port = "open" /\ toClient # << >>
  /\ LET resp == Head(toClient) IN
       IF resp.id \in pending
       THEN /\ promise' = [promise EXCEPT ![resp.id] =
                             IF resp.ok THEN "resolved" ELSE "rejected"]
            /\ answer' = [answer EXCEPT ![resp.id] = resp.what]
            /\ pending' = pending \ {resp.id}
       ELSE UNCHANGED <<promise, answer, pending>>
  /\ toClient' = Tail(toClient)
  /\ UNCHANGED <<nextId, asked, port, toHost, hostVars>>

\* Mutant: pending is cleared and nobody is told.
OnDisconnectSilent ==
  /\ port = "open" /\ host = "gone" /\ toClient = << >>
  /\ port' = "lost" /\ pending' = {}
  /\ UNCHANGED <<nextId, asked, promise, answer, toHost, toClient, hostVars>>

\* onDisconnect: the browser has seen the host's end of the pipe.
OnDisconnect ==
  /\ port = "open" /\ host = "gone" /\ toClient = << >>
  /\ port' = "lost"
  /\ promise' = [id \in DOMAIN promise |-> IF id \in pending THEN "rejected" ELSE promise[id]]
  /\ pending' = {}
  /\ UNCHANGED <<nextId, asked, answer, toHost, toClient, hostVars>>

\* disconnect: the browser fires no onDisconnect at the end that asked for it,
\* and delivers nothing any more.
Disconnect ==
  /\ port = "open"
  /\ port' = "closed"
  /\ toClient' = << >>
  /\ UNCHANGED <<clientVars, toHost, hostVars>>

-----------------------------------------------------------------------------
(* The main loop of the host.                                               *)

\* Mutant: the frame is read and not consumed.
ReadAgain ==
  /\ host = "reading" /\ toHost # << >>
  /\ job' = Head(toHost) /\ host' = "handling"
  /\ UNCHANGED <<clientVars, port, toHost, toClient, performed>>

\* read_message.
Read ==
  /\ host = "reading" /\ toHost # << >>
  /\ job' = Head(toHost)
  /\ toHost' = Tail(toHost)
  /\ host' = "handling"
  /\ UNCHANGED <<clientVars, port, toClient, performed>>

\* read_pin at the tty blocks the whole loop.
PromptUser ==
  /\ host = "handling"
  /\ host' = "prompting"
  /\ UNCHANGED <<clientVars, port, toHost, toClient, job, performed>>

\* dispatch has a result or an error; at the prompt, once the user has typed.
Finish ==
  /\ host' = "done"
  /\ performed' = Append(performed, job.id)
  /\ UNCHANGED <<clientVars, port, toHost, toClient, job>>

Handle    == host = "handling" /\ Finish
UserTypes == host = "prompting" /\ Finish

\* write_message: errors are ignored, so an answer nobody reads is lost.
Write ==
  /\ host = "done"
  /\ \E ok \in BOOLEAN :
       toClient' = IF port = "open"
                   THEN Append(toClient, [id |-> job.id, ok |-> ok, what |-> job.what])
                   ELSE toClient
  /\ host' = "reading" /\ job' = NoAnswer
  /\ UNCHANGED <<clientVars, port, toHost, performed>>

\* read_message meets the end of the input: what was sent before the client
\* left is carried out all the same.
Eof ==
  /\ host = "reading" /\ toHost = << >> /\ port # "open"
  /\ host' = "gone"
  /\ UNCHANGED <<clientVars, port, toHost, toClient, job, performed>>

\* The host is killed, or panics; what it wrote may still arrive.
Die ==
  /\ host # "gone"
  /\ host' = "gone" /\ job' = NoAnswer /\ toHost' = << >>
  /\ UNCHANGED <<clientVars, port, toClient, performed>>

HostStep   == Read \/ Handle \/ Write \/ Eof
ClientStep == OnMessage \/ OnDisconnect

Next ==
  \/ \E x \in Params : Call(x)
  \/ ClientStep \/ Disconnect
  \/ HostStep \/ PromptUser \/ UserTypes \/ Die

\* The event loop and the host run on; nobody has to call, type or leave.
Spec == Init /\ [][Next]_vars /\ WF_vars(HostStep) /\ WF_vars(ClientStep)

-----------------------------------------------------------------------------
(* Properties.                                                              *)

\* The connection implements RemoteCalls: however frames, the death of the
\* host, disconnects and late calls interleave, a call is carried out at most
\* once, in order, and settled once with the answer to itself
\* (host-client.ts call, onMessage, onDisconnect; main.rs main).
Service == INSTANCE RemoteCalls WITH
  Params <- Params, NoAnswer <- NoAnswer,
  asked <- asked, promise <- promise, answer <- answer, performed <- performed
Implements == Service!Spec

Waiting(id) == id \in DOMAIN promise /\ promise[id] = "waiting"

\* Every call settles, unless the client itself disconnects or the user leaves
\* a PIN prompt unanswered: neither the death of the host at any point, nor an
\* answer crossing a disconnect, nor the calls queued before it are a way to
\* lose one (host-client.ts onDisconnect, onMessage; main.rs main, read_pin).
CallsSettle ==
  []<>(host # "prompting") => \A id \in Ids : Waiting(id) ~> ~Waiting(id) \/ port = "closed"

\* While the port is open the entries of pending are the calls that wait, so
\* none is forgotten and none is kept (host-client.ts call, onMessage).
PendingAreWaiting ==
  port = "open" => pending = {id \in DOMAIN promise : promise[id] = "waiting"}
=============================================================================
