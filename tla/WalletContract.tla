--------------------------- MODULE WalletContract ---------------------------
(***************************************************************************)
(* What the library promises its callers, without applets, handles, resets *)
(* and APDUs: a call meets one card at most, has one PIN judged there at   *)
(* most, and gives one answer, which is what that card has at the slot     *)
(* asked for, or nothing.  CardSession implements it.                      *)
(***************************************************************************)
EXTENDS Account, Sequences

CONSTANTS Procs, Cards, Pins, None, Prompt, Requests, PivSlots, MaxTries,
          PinOf, PinLen, KeyIn, CertIn   \* as in SmartCard and CardSession

VARIABLES
  busy,     \* the callers whose call has not returned
  asked,    \* their current or last request, or None
  given,    \* the PIN they gave, Prompt as long as there is none
  card,     \* the card the call has met, or None
  verdict,  \* what that card said of the PIN: "none", "right" or "wrong"
  answer,   \* what the last call gave: None if it failed, or runs
  tries     \* PIN tries left, by card and applet

contractVars == <<busy, asked, given, card, verdict, answer, tries>>

Init ==
  /\ busy = {}
  /\ asked = [p \in Procs |-> None]
  /\ given = [p \in Procs |-> Prompt]
  /\ card = [p \in Procs |-> None]
  /\ verdict = [p \in Procs |-> "none"]
  /\ answer = [p \in Procs |-> None]
  /\ tries = [c \in Cards |-> [a \in Applets |-> MaxTries]]

\* A call begins, or is refused for what it asks.
Ask(p, r) ==
  /\ p \notin busy
  /\ busy' \in {busy, busy \cup {p}}
  /\ asked' = [asked EXCEPT ![p] = r]
  /\ given' = [given EXCEPT ![p] = r.pin]
  /\ card' = [card EXCEPT ![p] = None]
  /\ verdict' = [verdict EXCEPT ![p] = "none"]
  /\ answer' = [answer EXCEPT ![p] = None]
  /\ UNCHANGED tries

\* The first card there is becomes the call's, for good.
Meet(p, c) ==
  /\ p \in busy /\ card[p] = None
  /\ card' = [card EXCEPT ![p] = c]
  /\ UNCHANGED <<busy, asked, given, verdict, answer, tries>>

Give(p, x) ==
  /\ p \in busy /\ asked[p].op = "sign" /\ given[p] = Prompt
  /\ given' = [given EXCEPT ![p] = x]
  /\ UNCHANGED <<busy, asked, card, verdict, answer, tries>>

\* The card judges the PIN, once; a wrong one costs a try.
Judge(p, c) ==
  LET a == asked[p].applet
      right == given[p] = PinOf[c][a] IN
  /\ p \in busy /\ card[p] = c /\ asked[p].op = "sign"
  /\ given[p] # Prompt /\ verdict[p] = "none" /\ tries[c][a] > 0
  /\ verdict' = [verdict EXCEPT ![p] = IF right THEN "right" ELSE "wrong"]
  /\ tries' = [tries EXCEPT ![c][a] = IF right THEN MaxTries ELSE @ - 1]
  /\ UNCHANGED <<busy, asked, given, card, answer>>

-----------------------------------------------------------------------------
(* Answers.                                                                 *)

Entries(found) == [keys |-> found, sig |-> None]

\* A signature by the slot's key, once the PIN was right; an empty OpenPGP PIN
\* is not judged at all.
SignatureAnswers(r, c, p) ==
  {[keys |-> << >>, sig |-> [key |-> k, msg |-> r.msg]] :
     k \in {k \in {KeyIn[c][r.applet][r.slot]} :
              \/ verdict[p] = "right"
              \/ given[p] # Prompt /\ r.applet = "openpgp" /\ PinLen[given[p]] = 0}}

\* The public key stored for the slot, for the curve asked for; detection
\* promises no particular curve.
KeyAnswers(r, c) ==
  {Entries(<<[key |-> IF r.applet = "piv" THEN CertIn[c][r.slot] ELSE KeyIn[c]["openpgp"][r.slot],
           as |-> curve]>>) :
     curve \in IF r.op = "detect_account" THEN Curves ELSE {r.curve}}

\* Keys of some of the slots, each at its own place.
ListAnswers(c) ==
  {Entries([i \in DOMAIN PivSlots |->
           IF i \in readable THEN [key |-> CertIn[c][PivSlots[i]], as |-> "ed25519"] ELSE None]) :
     readable \in SUBSET {i \in DOMAIN PivSlots : CertIn[c][PivSlots[i]] # None}}

Answers(p, c) ==
  LET r == asked[p] IN
  CASE r.op = "sign"          -> SignatureAnswers(r, c, p)
    [] r.op = "list_accounts" -> ListAnswers(c)
    [] OTHER                  -> KeyAnswers(r, c)

\* The call returns with what its card has, or fails at any time.
Return(p) ==
  /\ p \in busy
  /\ busy' = busy \ {p}
  /\ answer' \in {[answer EXCEPT ![p] = a] :
                    a \in {None} \cup UNION {Answers(p, c) : c \in {card[p]} \ {None}}}
  /\ UNCHANGED <<asked, given, card, verdict, tries>>

Next == \E p \in Procs :
  \/ \E r \in Requests : Ask(p, r)
  \/ \E c \in Cards : Meet(p, c) \/ Judge(p, c)
  \/ \E x \in Pins : Give(p, x)
  \/ Return(p)

Spec == Init /\ [][Next]_contractVars
=============================================================================
