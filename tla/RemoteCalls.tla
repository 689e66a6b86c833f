---------------------------- MODULE RemoteCalls ----------------------------
(***************************************************************************)
(* What a caller of the native host may count on, with no ports, ids or    *)
(* processes in it: calls are performed in the order they were issued and  *)
(* at most once each, a call is settled at most once, and it is settled    *)
(* with the answer to itself, which has then been performed, or, all that  *)
(* are still open at once, with an error because the connection is lost.   *)
(***************************************************************************)
EXTENDS Naturals, Sequences

CONSTANTS Params,   \* what may be asked
          NoAnswer

VARIABLES
  asked,      \* asked[i]: what the i-th call asks
  promise,    \* promise[i]: whether it is "waiting", "resolved" or "rejected"
  answer,     \* answer[i]: what the answer it was settled with answers, or NoAnswer
  performed   \* the calls performed, in order

serviceVars == <<asked, promise, answer, performed>>

Init ==
  /\ asked = << >> /\ promise = << >> /\ answer = << >>
  /\ performed = << >>

\* A call that finds the connection already lost is rejected at once.
Issue(x) ==
  /\ asked' = Append(asked, x)
  /\ promise' \in {Append(promise, s) : s \in {"waiting", "rejected"}}
  /\ answer' = Append(answer, NoAnswer)
  /\ UNCHANGED performed

Perform(i) ==
  /\ \A k \in DOMAIN performed : performed[k] < i
  /\ performed' = Append(performed, i)
  /\ UNCHANGED <<asked, promise, answer>>

Settle(i) ==
  /\ promise[i] = "waiting"
  /\ \E k \in DOMAIN performed : performed[k] = i
  /\ \E s \in {"resolved", "rejected"} : promise' = [promise EXCEPT ![i] = s]
  /\ answer' = [answer EXCEPT ![i] = asked[i]]
  /\ UNCHANGED <<asked, performed>>

Abandon ==
  /\ promise' = [i \in DOMAIN promise |->
                   IF promise[i] = "waiting" THEN "rejected" ELSE promise[i]]
  /\ UNCHANGED <<asked, answer, performed>>

Next ==
  \/ \E x \in Params : Issue(x)
  \/ \E i \in DOMAIN asked : Perform(i) \/ Settle(i)
  \/ Abandon

Spec == Init /\ [][Next]_serviceVars
=============================================================================
