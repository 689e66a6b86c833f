--------------------------- MODULE BrowserSession ---------------------------
(***************************************************************************)
(* The native host end to end: the connection of HostPort, whose main loop *)
(* runs the handlers of NativeHost, which run the sessions of CardSession. *)
(* A frame that is read starts a handler, the loop waits for its reply and *)
(* writes it, and a kill takes the loop, the handler and the session at    *)
(* once.                                                                   *)
(***************************************************************************)
EXTENDS NativeHost

CONSTANTS Daemon,    \* the host process of the connection
          MaxCalls

ASSUME DaemonAssumption == Hosts = {Daemon} /\ MaxCalls \in Nat /\ None \notin HostRequests

VARIABLES
  nextId, pending, asked, promise, answer, port, toHost, toClient,   \* as in HostPort
  loop,       \* HostPort's host: where the main loop is
  frame,      \* HostPort's job: the frame it works on
  performed,
  sent        \* history: the replies that were written, by id

portVars    == <<nextId, pending, asked, promise, answer, port, toHost, toClient,
                 loop, frame, performed>>
handlerVars == <<vars, hostVars>>
allVars     == <<handlerVars, portVars, sent>>

Port == INSTANCE HostPort WITH
  Params <- HostRequests, NoAnswer <- None, host <- loop, job <- frame

SessionInit == HostInit /\ Port!Init /\ sent = {}

-----------------------------------------------------------------------------
\* The client's side moves on its own.
Client(step) == step /\ UNCHANGED <<handlerVars, sent>>

\* Mutant: what the handler gets is not looked up in the frame.
ReadFrameAny == Port!Read /\ Receive(Daemon) /\ UNCHANGED sent

\* read_message and the start of dispatch.
ReadFrame ==
  /\ Port!Read
  /\ Receive(Daemon) /\ job'[Daemon] = Head(toHost).what
  /\ UNCHANGED sent

\* The handler, its library call, the other processes and the world.
Handling ==
  /\ RunsOn(Daemon) \/ (LibraryStep /\ UNCHANGED hostVars)
  /\ UNCHANGED <<portVars, sent>>

\* read_pin opens the tty, and the user types.
AskPin ==
  /\ stage[Daemon] = "read_pin" /\ EnvPin = Prompt
  /\ Port!PromptUser
  /\ UNCHANGED <<handlerVars, sent>>
TypePin == loop = "prompting" /\ ReadPin(Daemon) /\ UNCHANGED <<portVars, sent>>

\* The handler has its reply, which is serialized and written.
Handled ==
  /\ stage[Daemon] = "ready"
  /\ Port!Handle \/ Port!UserTypes
  /\ UNCHANGED <<handlerVars, sent>>
WriteFrame ==
  LET response == [id |-> frame.id, ok |-> reply[Daemon].code = "ok", what |-> frame.what] IN
  /\ Port!Write
  /\ toClient' \in {toClient, Append(toClient, response)}
  /\ sent' = sent \cup {[id |-> frame.id, reply |-> reply[Daemon]]}
  /\ UNCHANGED handlerVars

\* The main loop ends with its input, or is killed wherever it is.
Exit == Port!Eof /\ UNCHANGED <<handlerVars, sent>>
Killed ==
  /\ "kill" \in Faults /\ Port!Die
  /\ IF stage[Daemon] = "ready" THEN UNCHANGED handlerVars ELSE HostDies(Daemon)
  /\ UNCHANGED sent

LoopStep == ReadFrame \/ Handled \/ WriteFrame \/ AskPin \/ Exit

SessionNext ==
  \/ \E x \in HostRequests : Client(Port!Call(x))
  \/ Client(Port!ClientStep) \/ Client(Port!Disconnect)
  \/ LoopStep \/ Handling \/ TypePin \/ Killed

\* The browser and the host run on, and so do the calls of every process.
SessionSpec ==
  /\ SessionInit /\ [][SessionNext]_allVars
  /\ WF_allVars(Client(Port!ClientStep)) /\ WF_allVars(LoopStep)
  /\ WF_allVars(RunsOn(Daemon) /\ UNCHANGED <<portVars, sent>>)
  /\ \A p \in Procs : WF_allVars(Step(p) /\ UNCHANGED <<hostVars, portVars, sent>>)

-----------------------------------------------------------------------------
(* Properties.                                                              *)

\* With real handlers behind it the connection does what HostPort says of it,
\* its fairness included: every request that is read is handled to the end,
\* whatever cards, other processes and faults do to the sessions of a handler,
\* unless the user is asked for a PIN (main.rs main, handle, dispatch).
ImplementsPort == Port!Spec

\* What a promise is settled with is the reply of the handler that ran that
\* very request: a signature over the message of the call, by its slot's key
\* on a card - though a frame has passed two queues, the loop and several
\* sessions, and other calls were queued and rejected meanwhile (main.rs main,
\* sign_secp256k1, sign_ed25519; host-client.ts call, onMessage).
SettledWithOwnReply ==
  /\ \A s, u \in sent : s.id = u.id => s = u
  /\ \A id \in DOMAIN promise :
       (promise[id] = "resolved" \/ (promise[id] = "rejected" /\ port = "open")) =>
         \E s \in sent :
           /\ s.id = id /\ (s.reply.code = "ok" <=> promise[id] = "resolved")
           /\ (s.reply.code = "ok" /\ asked[id].method \in SignMethods) =>
                LET a == asked[id].account IN
                /\ s.reply.sig # None /\ s.reply.sig.msg = asked[id].msg
                /\ \E c \in Cards : s.reply.sig.key = KeyIn[c][a.applet][a.slot]
=============================================================================
