------------------------------ MODULE MCCodecs ------------------------------
(***************************************************************************)
(* The pure functions of the library over bounded inputs.  One variable    *)
(* holds the input: a byte string that grows byte by byte, or an input of  *)
(* another kind.  Each property compares a function with a definition that *)
(* does not read bytes from left to right, or with its inverse.            *)
(***************************************************************************)
EXTENDS Tlv, Apdu, AccountId, EthSignature, FiniteSets

CONSTANTS
  Alphabet, MaxBytes,   \* the byte strings read_tlv is given
  Keys, Nonces, Hashes, \* scalars of signatures
  Chains                \* chain ids

ASSUME InputAssumption ==
  /\ Alphabet \subseteq Byte
  /\ Keys \subseteq Scalars /\ Nonces \subseteq Scalars /\ Hashes \subseteq Nat /\ Chains \subseteq Nat

VARIABLE input

\* y^2 = x^3 + 7 over the field of 43 elements: its group has the prime order
\* 31, less than 43 as secp256k1's order is less than its field's.  The
\* multiples of (2, 12):
Field == 43
ToyPoint ==
  LET half == << <<2, 12>>, <<7, 7>>, <<35, 21>>, <<21, 18>>, <<12, 12>>, <<29, 31>>,
                 <<25, 18>>, <<32, 40>>, <<20, 40>>, <<42, 7>>, <<40, 25>>, <<37, 36>>,
                 <<13, 21>>, <<34, 40>>, <<38, 21>> >>
  IN [k \in 1 .. 30 |-> IF k <= 15 THEN half[k]
                        ELSE <<half[31 - k][1], Field - half[31 - k][2]>>]

\* The points are on the curve and add up: j, k and -(j + k) are in line.
ASSUME ToyCurve ==
  /\ \A k \in 1 .. 30 : LET P == ToyPoint[k] IN
       (P[2] * P[2]) % Field = (P[1] * P[1] * P[1] + 7) % Field
  /\ \A j, k \in 1 .. 30 : j # k /\ j + k # 31 =>
       LET P == ToyPoint[j]
           Q == ToyPoint[k]
           R == ToyPoint[31 - ((j + k) % 31)] IN
       ((Q[1] - P[1]) * (R[2] - P[2]) - (Q[2] - P[2]) * (R[1] - P[1])) % Field = 0

-----------------------------------------------------------------------------
(* Inputs.                                                                  *)

\* Lengths about those where a length field, Lc or a template grows; the last
\* ones are too long for a message and only tried as lengths.
MaxMessage == 70000
MCLengths == {65000, 16777116}
             \cup UNION {(n - 9) .. (n + 1) : n \in {9, 128, 256, 65536, 131072, 16777216}}
Filler(n) == [i \in 1 .. n |-> i % 3]

\* n bytes with a pattern written over them from place i on.
Strayed(n, pattern, i) ==
  [j \in 1 .. n |-> IF j \in i .. i + Len(pattern) - 1 THEN pattern[j - i + 1] ELSE 5]

\* A response to GET PUBLIC KEY, by the kind of key: the template 7F 49, and
\* in it the point (or an RSA modulus).
Response(kind, bytes) ==
  CASE kind = "ed25519" -> <<\h7F, \h49, \h22, \h86, \h20>> \o bytes
    [] kind \in {"secp256k1", "p256"} -> <<\h7F, \h49, \h43, \h86, \h41>> \o bytes
    [] kind = "rsa" -> <<\h7F, \h49, \h81, \h87, \h81, \h81, \h80>> \o bytes
                       \o <<\h82, 3, 1, 0, 1>>
Size(kind) ==
  CASE kind = "ed25519" -> 32 [] kind \in {"secp256k1", "p256"} -> 65 [] kind = "rsa" -> 128

KeyKinds == {"ed25519", "secp256k1", "p256", "rsa"}

Patterns == {<<\h86, \h20>>, <<\h86, \h41>>, <<\h86, \h41, 4>>, ED25519_SPKI_PREFIX}

\* The first byte of a point is 04 and holds no stray byte.
KeyInput(k, pattern, i) ==
  [kind |-> k, bytes |-> [Strayed(Size(k), pattern, i) EXCEPT ![1] = 4]]

KeyInputs ==
  {KeyInput(k, pattern, i) : k \in KeyKinds, pattern \in Patterns, i \in 2 .. 70}

Inputs ==
  KeyInputs
  \cup [kind : {"message"}, length : MCLengths]
  \cup [kind : {"account"}, account : {a \in Account : NamedSlot(a.applet, a.slot)}]
  \cup [kind : {"signature"}, key : Keys, nonce : Nonces, hash : Hashes]
  \cup [kind : {"chain"}, chain : Chains]

Init == input = [kind |-> "bytes", bytes |-> << >>]

Next ==
  /\ input.kind = "bytes"
  /\ \/ /\ Len(input.bytes) < MaxBytes
        /\ \E b \in Alphabet : input' = [input EXCEPT !.bytes = Append(@, b)]
     \/ input.bytes = << >> /\ input' \in Inputs

Spec == Init /\ [][Next]_input
-----------------------------------------------------------------------------
(* Properties.                                                              *)

\* read_tlv finds the first element with a tag, in every byte string.
ReadTlvFindsFirst ==
  input.kind = "bytes" => \A tag \in {1, TAG_RESPONSE} : ReadsFirst(input.bytes, tag)

Head4 == <<0, \h87, \hE0, AUTH>>

\* Lengths, templates and commands are read back at every length where a field
\* grows by a byte, and a PIV signature command reaches the card exactly for
\* the messages of MaxTemplate bytes or less that CardSession lets it obey.
MessagesReadBack ==
  input.kind = "message" =>
    /\ LengthReadBack(input.length)
    /\ input.length <= MaxMessage =>
         LET m == Filler(input.length) IN
         /\ MessageReadBack(m)
         /\ ShortReadBack(Head4, m) /\ ExtReadBack(Head4, m)
         /\ CardReads(BuildApduExt(Head4, GeneralAuthenticateData(m), <<0>>)) # {}
              <=> input.length <= 65525

\* A key comes out of what a card or a file says of it as it went in, however
\* its bytes look, if it is asked for by its own curve; and detection can be
\* wrong only of a key in which another key seems to begin: it names the curve
\* of a secp256k1 key, and no curve for an RSA key, in which the tag 86 20 of
\* an Ed25519 key, with 32 bytes after it, does not turn up (nor, for RSA, the
\* tag of a point).  That it is right of the others too is DetectsCurveOfKey
\* (openpgp.rs extract_ed25519_pubkey, extract_secp256k1_pubkey,
\* detect_account; piv.rs extract_certificate, extract_ed25519_from_cert;
\* main.rs ssh_ed25519_to_solana).
KeysReadBack ==
  LET key == input.bytes
      resp == Response(input.kind, key)
      strays == {i \in Windows(resp, <<\h86, \h20>>) : i + 33 <= Len(resp)}
      cert == Filler(20) \o ED25519_SPKI_PREFIX \o key \o Filler(64)
      object == <<TAG_CERTIFICATE>> \o BerLen(Len(cert)) \o cert \o <<\h71, 1, 0>>
      ssh == <<0, 0, 0, 11>> \o Filler(11) \o <<0, 0, 0, 32>> \o key IN
  /\ input.kind = "ed25519" =>
       /\ Ed25519In(resp) = {key} /\ DetectedIn(resp) = {<<"ed25519", key>>}
       /\ CertificateIn(<<TAG_DATA_OBJECT>> \o BerLen(Len(object)) \o object) = {cert}
       /\ Ed25519InCert(cert) = {key} /\ KeyInSsh(ssh) = {key}
  /\ input.kind = "secp256k1" =>
       /\ Secp256k1In(resp) = {key}
       /\ strays = {} => DetectedIn(resp) = {<<"secp256k1", key>>}
  /\ (input.kind = "rsa" /\ DetectedIn(resp) # {}) =>
       strays # {} \/ Windows(key, <<\h86, \h41, 4>>) # {}

\* What the comments say of detection: it reads a slot and tells the curve of
\* the key in it, Ed25519 or secp256k1 (openpgp.rs:75-76), and it is an error
\* if the key is neither (openpgp.rs:86).
DetectsCurveOfKey ==
  input.kind \in KeyKinds =>
    DetectedIn(Response(input.kind, input.bytes)) =
      IF input.kind \in {"ed25519", "secp256k1"} THEN {<<input.kind, input.bytes>>} ELSE {}

\* The id an account is listed under names that account to the host, and to the
\* command line if the account can exist there; and every PIV slot a label can
\* name is one of the card's objects, no two the same (main.rs account_json,
\* parse_account; account.rs parse_slot; piv.rs slot_object_tag).
AccountsNamed ==
  input.kind = "account" =>
    LET a == input.account IN
    /\ ParseAccount(IdOf(a)) = {a}
    /\ ~(a.applet = "piv" /\ a.curve = "secp256k1") => ToAccount(IdOf(a)) = {a}
    /\ \A label \in {Word(w) : w \in Words} \cup {Hex(<<0, a.slot \div 16, a.slot % 16>>)} :
         \A s \in ParseSlot(a.applet, label) : NamedSlot(a.applet, s)
    /\ a.applet = "piv" =>
         /\ SlotObjectTag(a.slot) # {}
         /\ \A s \in Slots \ {a.slot} : SlotObjectTag(s) \cap SlotObjectTag(a.slot) = {}

\* An Ethereum signature is sound for any key that is expected, and complete
\* for the signer's (eth.rs ethereum_signature, eip155_v; the recovery ids of
\* the host and of the Ethereum tool).
SignaturesRecover ==
  input.kind = "signature" =>
    \A chain \in {0, 1, Modulus - 1} :
      /\ CompleteFor(input.key, input.nonce, input.hash, chain)
      /\ \A rs \in CardSigns(input.key, input.nonce, input.hash), expected \in Scalars :
           SoundFor(expected, input.hash, rs, chain)

\* The chain id is read back from v, for every chain id that fits (eth.rs
\* eip155_v).
ChainsReadBack == input.kind = "chain" => ChainReadBack(input.chain)
=============================================================================
