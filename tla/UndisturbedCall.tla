-------------------------- MODULE UndisturbedCall --------------------------
(***************************************************************************)
(* CardSession with a history variable that notes whether anybody else has *)
(* touched a call's card or handle while the call had it open.  It says    *)
(* what a call may fail for: only for what it was asked, or for what       *)
(* others did during the call, never for what others did before it.        *)
(***************************************************************************)
EXTENDS CardSession

VARIABLE disturbed

ASSUME QuietAssumption == Faults \subseteq {"pull", "kill"}

\* A step of another process or of the world, seen from p's session: p stays
\* where it is and its card, or PC/SC's view of its handle, changes.
Touched(p) ==
  LET c == from[p] IN
  /\ handle[p] # "closed" /\ pc'[p] = pc[p]
  /\ \/ handle'[p] # handle[p]
     \/ <<selected'[c], auth'[c], tries'[c]>> # <<selected[c], auth[c], tries[c]>>

Watch ==
  disturbed' = [p \in Procs |->
    IF pc[p] = "idle" /\ pc'[p] = "connect" THEN FALSE ELSE disturbed[p] \/ Touched(p)]

WatchedInit == Init /\ disturbed = [p \in Procs |-> FALSE]
WatchedNext == Next /\ Watch
WatchedSpec == WatchedInit /\ [][WatchedNext]_<<vars, disturbed>>

-----------------------------------------------------------------------------
\* What the session's card should give for the request, all being well.
Served(c, r, x) ==
  LET key == KeyIn[c][r.applet][r.slot]
      public == Stored(c, r.applet, r.slot) IN
  CASE r.op = "list_accounts" -> TRUE
    [] r.op = "sign" ->
         /\ NamedSlot(r.applet, r.slot) /\ key # None
         /\ x = PinOf[c][r.applet] /\ ~PinNotPadded(r, x) /\ ~PinTooLong(r, x) /\ ~PinBlank(r, x)
         /\ IF r.applet = "piv" THEN CurveOf[key] = "ed25519" /\ MsgLen[r.msg] <= MaxTemplate
            ELSE ~MsgTooLong(r) /\ ~MsgEmpty(r)
    [] OTHER -> NamedSlot(r.applet, r.slot) /\ public # None /\ Extract(public, r) # None

\* A call that got the card and was left alone gives what was asked for: a
\* signature, unless the PIN was already blocked (or the user gave none); the
\* public key; or a listing that misses no readable slot.  In particular
\* nothing that earlier sessions of anybody left on the card - another applet
\* selected, a PIN verified or refused - changes the answer.
UndisturbedCallSucceeds ==
  \A p \in Procs :
    LET r == req[p]
        c == from[p] IN
    (/\ pc[p] = "idle" /\ c # None /\ ~disturbed[p] /\ out[p] \notin {"killed", "io"}
     /\ Served(c, r, pin[p]))
    => /\ out[p] = "ok" \/ (r.op = "sign" /\ tries[c][r.applet] = 0)
       /\ r.op = "list_accounts" =>
            \A i \in DOMAIN PivSlots :
              LET key == CertIn[c][PivSlots[i]] IN
              key # None /\ ReadsAs(key, "ed25519") => found[p][i] # None
=============================================================================
