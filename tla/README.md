# A TLA+ model of yubiwallet

`yubiwallet` turns a YubiKey into a wallet: a Rust library that reads public
keys from and signs with the OpenPGP and PIV applets, a command line on top of
it, a native-messaging host that offers it to a browser extension, and the
extension's client. This directory holds TLA+ modules for the parts whose
correctness depends on order, failure and sharing, the TLC configurations that
check them, and proofs that TLAPS checks. Paths are relative to the
repository's root; `Y/` is `yubiwallet/src/`, `H` is
`yubiwallet-host/src/main.rs`, `T/` is `integration/ts-client/`.

## 1. The system

| Component | State | Operations | Talks to |
|---|---|---|---|
| Accounts (`Y/account.rs`) | none | parsing of applets, curves, slots; `piv_slot::is_valid`, `all` | library, CLI, host |
| Library calls (`Y/lib.rs`, `openpgp.rs`, `piv.rs`, `pin.rs`) | a PC/SC handle for the time of a call | `get_pubkey`, `sign`, `sign_with_pin`, `openpgp::detect_account`, `piv::list_accounts` | the card, over APDUs; the user, at the PIN prompt |
| APDU transport (`Y/apdu.rs`) | the handle | `connect` (first reader, shared mode), `transmit`, `send`, `build_apdu(_ext)` | pcscd |
| Codecs (`Y/piv.rs` BER and certificate functions, `Y/openpgp.rs` `extract_*`) | none | encode, search and cut bytes | library |
| Ethereum (`Y/eth.rs`) | none | address, low-S, recovery id, EIP-155 `v` | host, CLI, WebAssembly |
| Native host (`H`) | none between requests | `get_info`, `list_accounts`, `get_status`, `sign_secp256k1`, `sign_ed25519`; PIN from the environment or the tty | the library, several sessions per request; stdin and stdout |
| `HostClient` (`T/host-client.ts`) | `nextId`, `pending`, the port | `call`, `onMessage`, `onDisconnect`, `disconnect` | the host, over the browser's port |
| Command line (`Y/main.rs`) and signing tools (`yubiwallet/examples`) | a public key between two calls | `list`, `address`, `ssh-to-solana`; a transaction on one of four chains | the library, several sessions per command; the user; the networks |
| WebAssembly bindings, tests, scripts | none | pure functions | |
| External: YubiKey, pcscd, scdaemon, browser | selected applet, verified PINs, PIN tries; readers and handles; frames | | |

How they interact, and what is hard about it:

* **Sharing the card.** `apdu::connect` asks for `ShareMode::Shared` and nobody
  opens a PC/SC transaction, so the APDUs of two processes interleave freely:
  an applet may be switched away between SELECT and VERIFY, a PIN verified by
  one process is verified for all, and the end of any session (the drop of
  `pcsc::Card` disconnects with a reset) breaks every other handle on the card.
* **Failure in the middle.** A call may fail at any APDU, before or after the
  card has obeyed it; the message of an OpenPGP signature is found too long
  only after VERIFY; the process may be killed at its PIN prompt; the card may be
  pulled out. What stays behind on the card matters: verified PINs and tries.
* **Several sessions per request.** The host lists accounts in three sessions
  and signs for Ethereum in two, each on the reader that then comes first, with
  errors swallowed in between.
* **Correlation.** Calls of the extension are matched to answers by id; the
  host works on one frame at a time, may sit at a PIN prompt, and may die.

The hazards these give rise to are listed one by one, with line and properties,
in `PROJECT.json`.

## 2. The modules

| Module | Models | Notes |
|---|---|---|
| `Account` | `Y/account.rs` | applets, curves, slots |
| `AccountId` | `parse_slot`, `account_json`, `parse_account`, `to_account` | names of accounts, there and back |
| `Apdu`, `Tlv` | `Y/apdu.rs` `build_apdu(_ext)`; `Y/piv.rs`, `Y/openpgp.rs` byte functions | with a reading of ISO 7816-4 and BER to compare with |
| `EthSignature` | `Y/eth.rs` | over a curve that is a constant |
| `SmartCard` | the YubiKey, pcscd, scdaemon, the user's hand | external: how the library uses them |
| `CardSession` | `Y/lib.rs`, `openpgp.rs`, `piv.rs`, `pin.rs`, `apdu.rs` | the core: calls of several processes, one step per APDU |
| `WalletContract` | | abstract: what one library call promises; `CardSession` implements it |
| `UndisturbedCall` | `CardSession` with a history variable | says what an undisturbed call returns |
| `NativeHost` | the handlers of `H` | composed with `CardSession` (EXTENDS) |
| `RemoteCalls` | | abstract: what a caller of the host may count on |
| `HostPort` | `T/host-client.ts`, the main loop of `H` | shown to implement `RemoteCalls` |
| `BrowserSession` | the two together | `HostPort` x `NativeHost` x `CardSession`; implements `HostPort` |
| `WalletTools` | `Y/main.rs`, `yubiwallet/examples` | composed with `CardSession` (EXTENDS) |
| `MC*` | | values for TLC; `MCCodecs` drives the pure modules |
| `CardSession_proofs`, `CardContract_proofs`, `UndisturbedCall_proofs` | | TLAPS proofs about library calls |
| `NativeHost_proofs`, `HostPort_proofs`, `BrowserSession_proofs` | | about the host, the connection, and the two together |
| `WalletTools_proofs` | | about the command line and the tools |
| `Codecs_proofs` | | about names, commands, templates, keys and Ethereum signatures |

Refinements, each an INSTANCE with a mapping that a run checks as a property:

    CardSession    => WalletContract   (KeepsContract, run signing; proved)
    NativeHost     => CardSession      (UsesLibrary, run host_requests; proved)
    WalletTools    => CardSession      (ToolsUseLibrary, run tools; proved)
    HostPort       => RemoteCalls      (Implements, run host_port; proved)
    BrowserSession => HostPort         (ImplementsPort, run end_to_end; proved but for fairness)
    BrowserSession => NativeHost       (SessionRefinesHost; proved)

**SmartCard.** `plugged`, `first`, `exclusive` are the readers, the card PC/SC
lists first and the cards scdaemon holds; `handle[p]` and `from[p]` the handle
of process `p` as pcscd sees it and the card it leads to; `selected`, `auth`,
`tries` the state of a card. `auth[c][ref]` records *who* had the PIN verified,
which the card itself does not know: it lets a property tell one's own
verification from another's. Where cards differ (does a second SELECT of the
same applet keep a verification, does a signature use it up, does a wrong PIN
for one reference clear the other) the model has both.

**CardSession.** `pc[p]` is the step of `p`'s call:

| Step | Action | Code |
|---|---|---|
| `idle` | `Call` / `CallFor` | the checks before a card is touched: `ensure_ed25519`, `is_valid` |
| `connect` | `Connect` | `apdu::connect` |
| `select` | `Select` | `select`; then `crt_tag` or the `match` of `openpgp::sign` |
| `read` | `Read` | `get_pubkey`, `detect_account`: one command, and the extraction |
| `scan` | `Scan` | `piv::list_accounts`, one GET DATA per slot, errors to `None` |
| `pin` | `ResolvePin`, `AnswerPrompt` | `pin::resolve`, `pin::prompt`, `pin_padded` |
| `verify` | `SendVerify` | VERIFY with the PIN reference of the slot |
| `sign` | `SendSign` | PSO, INTERNAL AUTHENTICATE or GENERAL AUTHENTICATE |
| `drop` | `Drop` | the handle goes out of scope, whatever the outcome |

An empty PIN is a case of its own: for OpenPGP, `build_apdu` then puts an Lc of 0
where the card reads an Le (`Apdu!ShortReadBack`), so VERIFY asks for the state
of the reference, costs no try, and succeeds if somebody has it verified. PIV
pads the empty PIN and has it judged.

Every `?` after `connect` is a step to `drop`. The constant `Faults` says what
may fail by itself: `refuse` (an error status, nothing done), `lose` (obeyed, the
answer lost), `pull` (cards come and go), `kill`. scdaemon and the other processes
need no switch.

**NativeHost.** `stage[p]` is the library call a handler waits for; between two
stages the host has no handle. `opened` and `lost` are histories: the cards
that the request's sessions opened and the tries they cost. A handler's step
either starts a library call (`CallFor` of `CardSession`) or leaves cards and
sessions alone. `LibraryStep` runs the calls.

**HostPort.** `pending`, `nextId` are HostClient's; `promise` and `answer` what has
become of each call; `toHost` and `toClient` the frames under way; `host` the
main loop. A handler is one step (two with a PIN prompt): what it does with the
card is `NativeHost`'s subject.

**WalletContract.** A call meets a card, is given a PIN, has it judged, returns: no
applets, handles or APDUs. `KeepsContract` maps `busy` to the processes not at
`idle`, `verdict` to what the histories `proved` and `spent` say, `answer` to what a
call that is back has found or signed. Every other step is a stutter, so an
intruder's SELECT, a reset or a lost answer shows in an outcome only as a
failure - or, in a listing, as a missing key, and that the contract has to allow.

**BrowserSession.** `loop` and `frame` are HostPort's `host` and `job`. `ReadFrame` is
HostPort's `Read` and NativeHost's `Receive` for the same request in one step;
`Handled` is HostPort's `Handle` or `UserTypes`, possible once the handler is back;
`WriteFrame` puts the handler's own reply into the frame; `Killed` takes loop,
handler and session at once.

**WalletTools.** `phase[t]` is the library call a tool waits for, `pk` the public key
it holds from one session to the next, `shown` what it has printed, `made` the
signature that has gone into a transaction. Unlike the host a tool prompts
inside the session (`AnswerPrompt`) and stops at an error - but for the two
detections of `list`, whose errors are printed. `Accepts` is what each tool asks of
a signature before it prints: Ethereum's that its address be recovered, Bitcoin's that
R and S be scalars, Sui's nothing; Solana's sends the transaction first, and the
network call may fail.

**Pure modules.** A byte string is a sequence of 0 .. 255, a Result a set of at
most one value, so that `?` is a union. Recursion is by recursive functions.
`Tlv!FirstValues` says what `read_tlv` ought to find by choosing all cuts of the
string into elements at once, with any encoding of a length that BER allows;
`Apdu!CardReads` is how a card takes a command apart. `EthSignature` takes the group
as a constant `Point`; what a key's secret scalar is never shows, as `Recovered`
only looks at abscissas and parities.

## 3. What the runs check

| Run | Instance | Properties |
|---|---|---|
| `signing` | 2 processes, 1 card, all faults; signatures by every PIN reference, right, wrong and empty PINs, a PIN and a message too long; a listing | `TypeOK`, `SignedWithOwnPin`, `NoPinLeftVerified`, `OneTryPerCall`, `KeepsContract` |
| `undisturbed` | 2 processes, 1 card, pulled and killed; every operation, with a PIV message as long as the command takes and one a byte longer | `UndisturbedCallSucceeds` |
| `returns` | 2 processes, 1 card, all faults, under fairness | `CallReturns` |
| `host_requests` | host with `$YUBIWALLET_PIN`, 2 cards being swapped, answers lost, kills | `HostTypeOK`, `SignsWithFetchedKey`, `OneTryPerRequest`, `ListsWhatIsThere`, `UsesLibrary` |
| `host_port` | 4 calls, one HostClient | `PortTypeOK`, `PendingAreWaiting`, `Implements`, `CallsSettle` |
| `end_to_end` | 2 calls, one HostClient, a host with a tty, 1 card, all faults, under fairness | `SettledWithOwnReply`, `ImplementsPort`, `RequestAnswered` |
| `tools` | the command line and four tools, 2 cards with one PIN being swapped, kills | `ToolTypeOK`, `PrintsWhatIsThere`, `TransactionsAgree`, `FoundOnOwnCard`, `ToolsUseLibrary` |
| `codecs` | every byte string up to 6 bytes over an alphabet of tags and length bytes; 68 lengths at the boundaries; every place of a stray tag in a key; all 52 accounts that can be named; signatures by 5 keys, 13 nonces and 4 hashes over a curve of order 31; chain ids on both sides of the overflow of a 6-bit `v` | `ReadTlvFindsFirst`, `MessagesReadBack`, `KeysReadBack`, `AccountsNamed`, `SignaturesRecover`, `ChainsReadBack` |
| `detect_curve` | `codecs`' responses to GET PUBLIC KEY, without the other inputs | what the comment on detection says and the code does not do (`DetectsCurveOfKey`) |
| `listing_gap`, `host_mixed`, `host_cross` | as their passing neighbours, faults only where named | what a comment or a type says and the code does not do (`ListingReportsReadableSlots`, `ListsOneCard`, `Ed25519Result`) |

What they show, in words:

* A signature that a call returns rests on the call's *own* PIN verification, on
  its own card, under the right reference; interleaved sessions never lend each
  other a verification that the code then relies on (`SignedWithOwnPin`), with one
  exception the property names: an empty PIN for OpenPGP (a blank line, or a closed
  standard input) proves nothing and signs if the PIN is verified already. This is
  not for want of trying: the card would sign for anybody while a PIN is
  verified; it holds because the `?` after VERIFY ends the call.
* No PIN is left verified behind a call (`NoPinLeftVerified`), because every way out
  drops the handle and the drop resets the card. With a handle that
  leaves the card as it is (`DropLeavingCard`) the run fails.
* A call costs at most one PIN try (`OneTryPerCall`), and a request to the host
  too (`OneTryPerRequest`). Several requests can block the card: nothing counts
  tries across requests.
* A call nobody disturbs succeeds whatever was left on the card
  (`UndisturbedCallSucceeds`), if its message fits: `Served` says what a call
  has to bring.
* `sign_secp256k1` signs with the key whose address it derived even if the cards
  were swapped in between (`SignsWithFetchedKey`): the search for a recovery id
  is what catches the swap.
* The connection implements `RemoteCalls`: calls are carried out in order and at
  most once, each settled at most once and with its own answer. Behind it run
  real handlers (`ImplementsPort`, liveness included), and what a promise is settled
  with is the reply to that very call, down to the message and the key of a
  signature (`SettledWithOwnReply`).
* The key of a tool's transaction is the key that signs it, and of the chain's
  curve, unless cards were swapped between its two sessions, the slot's
  certificate is of another key, or the Bitcoin tool is given a slot with a P-256
  key, whose point it takes for a secp256k1 one. The Ethereum tool's transaction
  always has both (`TransactionsAgree`): the recovery search sees to it. What `list` has printed before an
  error is true (`PrintsWhatIsThere`).
* `read_tlv` agrees with BER on every short byte string; lengths, templates,
  commands, account ids and `v` are read back as written, up to the limits that
  `CardSession` uses (`MaxTemplate`) and the chain ids that overflow. A wrapped
  Lc is never a valid command. A key asked for by its own curve is read back as it
  is; detection is right of every Ed25519 key, and of a secp256k1 or RSA key
  in which no `86 20` (nor, for RSA, `86 41 04`) turns up (`KeysReadBack`). What it
  makes of the others is the subject of `detect_curve`.
* Whatever `ethereum_signature` returns recovers the expected address, for any
  expected key; and the signer's own key is found by one of the ids 0 and 1
  unless the nonce's abscissa exceeds the group's order (`SignaturesRecover`; the toy
  curve has such points, since its order 31 is less than 43).

What the four violations show:

* `detect_curve`: a secp256k1 point that holds the bytes `86 20` is reported as an
  Ed25519 key cut out of it (`Y/openpgp.rs:79` and `:168` against the comment at `:75`). TLC
  stops at the first such point; the formula is false of P-256 points too, which
  are reported as secp256k1 (`:82` against `:75` and the error at `:86`). The theorem
  `DetectionMisnames` says both, of every such point.
* `listing_gap`: `piv::list_accounts` reports readable slots as `None` in a listing
  that succeeds, when another process's session ends in the middle
  (`Y/piv.rs:112` against `:46`). No fault is needed.
* `host_mixed`: one answer of the host lists accounts of two cards (`H:127`
  against `T/types.ts:10` and `T/example.ts:17`).
* `host_cross`: `sign_ed25519` is answered with a secp256k1 key's signature
  (`H:227` against `T/types.ts:48`).

### Bounds, and why they are enough

Processes are symmetric and interact only through a card, so two are needed for
an interleaving and two suffice for each pairwise hazard; a swap needs two
cards. `MaxTries` is 2 (or 1) so that an applet gets blocked within a run.
`MCPivSlots` lists 3 of the 24 slots: a readable one, one with a P-256
certificate, and a retired one; `host_requests` has two of them and
`end_to_end` one, which is one step of the listing. The frames of `end_to_end` carry
two calls: one that waits behind, or comes after, the other. Keys are names with a curve; card 1 holds a
certificate older than its key. Calls per process are not bounded: sessions
follow each other for ever. `MaxCalls = 4` bounds the calls of one HostClient,
the only counter: one being handled, one queued, one answered, one made after
the connection is gone. `spent` and `lost` need no bound: they are reset by each
call and request. `CHECK_DEADLOCK FALSE` is said for `host_port` and `end_to_end`, where a
client that has made its calls is the end of the system, and for
`codecs` and `detect_curve`, whose only variable is an input. `Modulus = 64` has `v` overflow among small
chain ids as 2^64 does among the largest ones. `MaxBytes = 6` leaves room for two
elements, one nested, and for length fields of up to four bytes.

### Fairness

`CardSession!Spec` has weak fairness on each process's own steps: the operating
system runs processes and pcscd answers or fails. There is none on
`AnswerPrompt`, `Call`, `Kill` or the world: users need not type, call or plug.
`HostSpec` says the same of handlers and sessions, and none of a PIN typed at the tty (`ReadPin` with no PIN in the environment); so does
`SessionSpec`, with the main loop and the browser's event loop added.
`HostPort!Spec` is weakly fair on the host's loop and on the browser's event loop;
`CallsSettle` assumes that no PIN prompt stays unanswered for ever, since the
host's only loop blocks on it. `ImplementsPort` shows that the fairness `HostPort!Spec`
assumes of `Handle` follows from that of the handlers and sessions behind it.

## 4. What is proved

Every theorem holds for all values of the constants that satisfy the named
assumptions, which TLC evaluates in every run of the module: `CardAssumption`
and `SessionAssumption` (cards, keys, PINs, slots, faults), `QuietAssumption` (an
undisturbed call is one without card errors and lost answers), `HostAssumption`,
`ToolAssumption`, `PortAssumption`, `DaemonAssumption` (one host behind one client),
`CurveAssumption` (a group in which a scalar has an inverse and a point and its
mirror image differ in parity; a word of more than 36 values),
`InputAssumption`. `PROJECT.json` lists the theorems; these are the arguments.

**Library calls** (`CardSession_proofs`).

* `TypeCorrect`, and `SignedWithOwnPinTheorem`, `OneTryPerCallTheorem`,
  `FoundOnOwnCardTheorem`. The properties speak of finished calls, so they are not
  inductive. The strengthening `Inv` is `TypeOK` and, for each process, what its step
  says of its call: from `connect` on the request is supported; before VERIFY
  nothing has been proved or spent; at `sign` the right PIN has been proved to the
  reference the slot's command wants; a process with results is at `drop` or
  `idle`; at `scan` the list of keys is a prefix. `Invariance` proves it step by
  step, one lemma per action.
* `NoPinLeftVerifiedTheorem`: the property, together with `TypeOK`, is itself
  inductive; the delicate steps are the drop and the death of *another*
  process, which reset the card.
* `AnswerInvariance` adds what a call that returns `ok` has in hand (`AnswerFlow`: a
  key that its own card has in that slot, a whole list, a signature over the
  request's message). `KeyAnswered`, `ListAnswered` and `SignatureAnswered` read it off,
  and are all that the proofs about the host and the tools use of a session.
* `KeepsContractTheorem` (`CardContract_proofs`): the refinement of `WalletContract`.
  `CallLog` says what the histories that the mapping reads hold at each step of a call;
  with it each action of `CardSession` is the contract's action of its name, or is
  unseen, and a step of the world or of another process leaves a call as it is.
* `UndisturbedCallTheorem` (`UndisturbedCall_proofs`). `SessionQuiet` says that the session of
  a call nobody has touched is in order: its handle is open, its applet
  selected, at `sign` its PIN verified, and a listing has missed nothing so far.
  The work is in `OthersQuiet`: a step of another process either keeps this or
  sets `disturbed`. This proof corrected the model. `Served` had put no limit on the
  message of a PIV signature, which made the property false for one longer than
  MaxTemplate, whose command the card refuses because the Lc wraps
  (`Y/apdu.rs` `build_apdu_ext`); the run has since had a message of either length.

**The native host** (`NativeHost_proofs`).

* `HostRefinesLibrary`: `HostSafetySpec => SafetySpec`, so a host is a client of the
  library and nothing more, and the theorems above carry over
  (`HostSessionsSafe`). `UsesLibraryTheorem` is the property the run checks.
* `HostTypeCorrect`, `SignsWithFetchedKeyTheorem`, `OneTryPerRequestTheorem`,
  `ListsWhatIsThereTheorem`, from `HandlerInv`, which ties a handler's `stage` to the call it
  waits for (`StageFlow`: that call's request is the one the handler's job asks
  for, and no try is lost before the signature), and what it has collected to
  the cards it has opened (`ListFlow`, `KeyFlow`). A session ends between two steps of a
  handler, so `HandlerKept` shows that all of this is local: nothing another host does
  touches it.

**The connection** (`HostPort_proofs`). `PortTypeCorrect`, `PendingAreWaitingTheorem`,
`ImplementsTheorem`. The invariant is an order: ids already carried out, then the
one at work, then those on the host's standard input, rising, then `nextId`
(`FrameInv`, `JobInv`). So a call is never carried out twice, and an answer under way
is to a call that has been. Each step then is a step of `RemoteCalls` or none.

**End to end** (`BrowserSession_proofs`). `SessionRefinesHost` and `SessionRefinesPort` project
a step to either half, so that the invariants of both hold (`SessionInOrder`,
`SessionHostSafe`) and a caller of the whole is served as `RemoteCalls` says (`SessionServes`).
`SettledWithOwnReplyTheorem` needs one more invariant, `SettledInv`: the handler works for the
frame that the loop holds; a reply is written for an id that has been carried out and,
while the loop is at work, that precedes its frame, so there is one per id; and a frame
on its way to the client, or a settled promise, says what such a reply says.

**The command line and the tools** (`WalletTools_proofs`). `ToolsUseLibraryTheorem`, `ToolTypeCorrect`,
`ToolsFoundOnOwnCard`, `PrintsWhatIsThereTheorem`, `TransactionsAgreeTheorem`. `PhaseFlow` is for a tool what
`StageFlow` is for the host, `ShownFlow` and `KeyFlow` tie what it has shown and the key it
holds to the cards it has met. For `TransactionsAgree`, `KeysAgree` shows that two keys differ
only if two cards were met or a certificate is of another key (the lemma `TwoCards` is
about the cardinality of the set of cards met), and `CurveFits` that the key is of the
chain's curve but for the Bitcoin tool and P-256.

**Pure functions** (`Codecs_proofs`).

* `EthereumSignatureSound` and `EthereumSignatureComplete`, and with them `SignaturesRecoverTheorem`, for every
  group. `Congruent` is shown to be a congruence (`CongruentEquivalence`, `CongruentArithmetic`) in
  which scalars cancel (`Cancelled`); `KeyEquation` says that a key is recovered from r, s and the
  nonce j exactly if s j = z + r q modulo N; then a parity picks one of the two
  nonces with an abscissa (`OnePoint`), and changing the sign of s changes that of the
  nonce (`MirrorProduct`), so that low s costs nothing.
* `ChainsReadBackTheorem`, and that host and tool take out of v the id that went in, even when
  v has wrapped (`RecoveryIdRead`).
* `AccountsNamedTheorem`: an id names the account it was made from. `from_str_radix` is a
  recursive function, which `TwoDigits` unfolds for the two digits the host writes.
* `ExtendedCommandRead`, `ShortCommandRead`: a command of any length is read by the card with all of
  its data or not at all. They are the parts of `MessagesReadBack` about
  `build_apdu` and `build_apdu_ext`.
* `LengthsReadBack`: `ber_len` and `read_ber_len` are inverse below 2^24. The loop of
  `read_ber_len` runs at most four times, so `LoopUnfolded` writes it out; `LongField` says that
  digits to the base 256 are the number's and no other's.
* `ReadTlvFindsTheFirst`, and with it `ReadTlvFindsFirstTheorem`: on every byte string `read_tlv` agrees
  with `FirstValues`, which knows no order of reading but only how a string can be cut
  into elements. The library's induction theorems cannot be used, so the induction is
  one of a least counterexample: a non-empty set of numbers has a least member
  (`Least`, from the library's theorem on well-founded orders), and the least number
  of last bytes on which the two would differ is shown not to be one. The step is `FirstIsOneStep`
  and its converse `OneStepIsFirst`: a cut comes first from place c on exactly if one element
  is read at c and either has the tag or is followed by a cut that comes first. The recursive
  function itself is shown to be well defined in the same way (`FoundUnfolds`): `LooksAhead`
  says that it only ever asks for later places.
* `TemplatesReadBack`, and with it `MessagesReadBackTheorem`: `LaidIsRead` says that an
  element laid after any bytes is read there as one. The largest template that fits a
  command follows from the sizes of two nested length fields (`TemplatesThatFit`).
* `KeysReadBackTheorem`: `KeyIsFound` finds a key after the first pattern that does
  not begin earlier, `FoundWithRoom` says when a pattern is found at all, and `RsaResponse` that a
  modulus can be taken for a key only where it holds one of the patterns. The lemmas are about every
  key; the theorem is about those of the runs, whose stray bytes are the point.
* `DetectionMisnames`: what detection makes of the points it gets wrong, for every such point.

**Only model-checked.** Liveness, which is out of the prover's reach:
`CallReturns`, `RequestAnswered`, `CallsSettle`, and the fairness in `ImplementsPort` (its steps
are those of `SessionRefinesPort`).

## 5. What is not modelled

* In the sessions, the bytes: there a response is the key it carries, a command
  what the card does with it, and of lengths only the limits that change
  control. `codecs` checks the bytes by themselves, and that the limits fit.
* The rest of BER and X.509: `read_tlv` knows one-byte tags, and keys are found by
  pattern, so that is what `Tlv` has. Case, blanks and aliases of names.
* Arithmetic overflow in `eip155_v` is that of a release build (it wraps); a debug
  build panics there.
* The formats, hashes and RPC calls of the four chains in the tools: one step
  that may fail (`Prepare`).
* Answers that the card splits over several responses (`61xx`): `transmit`
  takes them for an error.
* Answers the library cannot take have no outcome of their own: a signature that
  overruns OpenPGP's buffer (`Y/openpgp.rs:101`, a long RSA one) and a PIV answer
  that `read_tlv` cannot read (`Y/piv.rs:101`) count as lost (`AnswerLost`), since the card
  has obeyed and the call fails.
* Keys whose bytes hold another key's tag: in the sessions a key is read by its shape
  (`ReadsAs`), and what stray bytes do is `codecs`' and `detect_curve`'s subject.
* PIN changes, key generation and card resets by other programs during a call;
  scdaemon spends no tries.
* Several HostClients: each has a host process of its own, so they meet only at
  the card, which is `NativeHost` with several `Hosts`. The browser stopping an
  extension's service worker is, for the host, a disconnect.
* JSON and frames: `H:78`, the answer with id 0 to a frame that is no request,
  cannot be provoked by HostClient.
* Layout of what is printed, status-word messages, the WebAssembly bindings'
  conversions, tests and scripts: pure functions or output.

## 6. Plan

Done, in this order: `Account`, `SmartCard`, `CardSession` and its proofs,
`UndisturbedCall`, `NativeHost` and its refinement, `RemoteCalls`, `HostPort`;
`Apdu`, `Tlv`, `AccountId`, `EthSignature`; `WalletContract`; `WalletTools`;
`BrowserSession`.

The proofs, in this order: `CardSession` (types, safety), `NativeHost` as a client
of the library, `WalletContract`, `UndisturbedCall`, the properties of requests, `HostPort`,
`WalletTools`, `BrowserSession`, `Codecs_proofs`.

What is left: the properties of the runs are proved but for liveness. What could be added
are proofs of what the violation runs refute under the assumption that rules it out, such as
that a listing shows the keys of one card when there is only one.

## 7. Running it

    tlc -workers 2 -config MCSigning.cfg MCCardSession.tla
    for m in *_proofs.tla; do tlapm $m; done

`PROJECT.json` lists every run with its module, and the lines of the code each
definition stands for.
