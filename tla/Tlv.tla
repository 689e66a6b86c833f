-------------------------------- MODULE Tlv --------------------------------
(***************************************************************************)
(* The byte formats of yubiwallet (piv.rs, openpgp.rs): BER lengths, the   *)
(* search for a tag, the data of GENERAL AUTHENTICATE, and the public keys *)
(* cut out of responses and certificates.  Byte strings are sequences of   *)
(* 0 .. 255.  A Result is a set: {v} for Ok(v) and {} for an error, so a   *)
(* `?` is a union over the results of the step before.                     *)
(***************************************************************************)
EXTENDS Account, Sequences

Byte == 0 .. 255

TAG_DYNAMIC_AUTH == \h7C
TAG_RESPONSE     == \h82
TAG_CHALLENGE    == \h81
TAG_DATA_OBJECT  == \h53
TAG_CERTIFICATE  == \h70

\* SEQ { SEQ { OID 1.3.101.112 } BIT STRING }, up to the key's 32 bytes.
ED25519_SPKI_PREFIX ==
  <<\h30, \h2A, \h30, \h05, \h06, \h03, \h2B, \h65, \h70, \h03, \h21, \h00>>

-----------------------------------------------------------------------------
(* BER-TLV.                                                                 *)

\* Mutant: 128 still fits the short form.
BerLenShort(n) ==
  IF n <= 128 THEN <<n>>
  ELSE IF n <= 255 THEN <<\h81, n>>
  ELSE <<\h82, (n \div 256) % 256, n % 256>>

\* ber_len; `as u8` drops the high bits of a length of 2^24 or more.
BerLen(n) ==
  IF n < 128 THEN <<n>>
  ELSE IF n <= 255 THEN <<\h81, n>>
  ELSE IF n <= 65535 THEN <<\h82, n \div 256, n % 256>>
  ELSE <<\h83, (n \div 65536) % 256, (n \div 256) % 256, n % 256>>

\* read_ber_len, at index i of data: the length and the index after it.
ReadBerLen(data, i) ==
  LET num == data[i] - 128
      Value[k \in 0 .. 4] == IF k = 0 THEN 0 ELSE 256 * Value[k - 1] + data[i + k] IN
  IF i > Len(data) THEN {}
  ELSE IF data[i] < 128 THEN {<<data[i], i + 1>>}
  ELSE {<<Value[k], i + k + 1>> : k \in {num} \cap {n \in 1 .. 4 : i + n <= Len(data)}}

\* Mutant: an element that is not the one wanted is entered instead of skipped.
ReadTlvInside(data, tag) ==
  LET Find[i \in 1 .. Len(data) + 1] ==
        IF i > Len(data) THEN {}
        ELSE UNION {LET start == h[2]
                        end   == start + h[1] IN
                    IF end > Len(data) + 1 THEN {}
                    ELSE IF data[i] = tag THEN {SubSeq(data, start, end - 1)}
                    ELSE Find[start] : h \in ReadBerLen(data, i + 1)}
  IN Find[1]

\* read_tlv: the value of the first element with the tag.
ReadTlv(data, tag) ==
  LET Find[i \in 1 .. Len(data) + 1] ==
        IF i > Len(data) THEN {}
        ELSE UNION {LET start == h[2]
                        end   == start + h[1] IN
                    IF end > Len(data) + 1 THEN {}
                    ELSE IF data[i] = tag THEN {SubSeq(data, start, end - 1)}
                    ELSE Find[end] : h \in ReadBerLen(data, i + 1)}
  IN Find[1]

\* build_general_authenticate_data: 7C L { 82 00 81 L message }.
GeneralAuthenticateData(message) ==
  LET inner == <<TAG_RESPONSE, 0, TAG_CHALLENGE>> \o BerLen(Len(message)) \o message
  IN <<TAG_DYNAMIC_AUTH>> \o BerLen(Len(inner)) \o inner

\* parse_signature_response: 7C L { 82 L signature }.
SignatureIn(resp) ==
  UNION {ReadTlv(d, TAG_RESPONSE) : d \in ReadTlv(resp, TAG_DYNAMIC_AUTH)}

\* extract_certificate: 53 L { 70 L certificate ... }, and not an empty one.
CertificateIn(resp) ==
  UNION {ReadTlv(o, TAG_CERTIFICATE) \ {<< >>} : o \in ReadTlv(resp, TAG_DATA_OBJECT)}

\* slot_object_tag
SlotObjectTag(slot) ==
  CASE slot = AUTH      -> {<<\h5F, \hC1, \h05>>}
    [] slot = SIGN      -> {<<\h5F, \hC1, \h0A>>}
    [] slot = KEY_MGMT  -> {<<\h5F, \hC1, \h0B>>}
    [] slot = CARD_AUTH -> {<<\h5F, \hC1, \h01>>}
    [] slot \in RETIRED_FIRST .. RETIRED_LAST ->
         {<<\h5F, \hC1, \h0D + (slot - RETIRED_FIRST)>>}
    [] OTHER -> {}

-----------------------------------------------------------------------------
(* Public keys, found by a pattern and not by structure.                    *)

Windows(data, pattern) ==
  {i \in 1 .. Len(data) - Len(pattern) + 1 :
     SubSeq(data, i, i + Len(pattern) - 1) = pattern}

First(s) == CHOOSE i \in s : \A j \in s : i <= j

\* Mutant: a key is taken to end where the data ends.
AfterToEnd(data, pattern, n) ==
  IF Windows(data, pattern) = {} \/ Len(data) < n THEN {}
  ELSE {SubSeq(data, Len(data) - n + 1, Len(data))}

\* The n bytes after the first occurrence of pattern, if there are as many.
After(data, pattern, n) ==
  LET start == First(Windows(data, pattern)) + Len(pattern) IN
  IF Windows(data, pattern) = {} \/ start + n - 1 > Len(data) THEN {}
  ELSE {SubSeq(data, start, start + n - 1)}

\* openpgp.rs extract_ed25519_pubkey and extract_secp256k1_pubkey.
Ed25519In(tlv)   == After(tlv, <<\h86, \h20>>, 32)
Secp256k1In(tlv) == {point \in After(tlv, <<\h86, \h41>>, 65) : point[1] = 4}

\* piv.rs extract_ed25519_from_cert
Ed25519InCert(der) == After(der, ED25519_SPKI_PREFIX, 32)

\* detect_account's choice: whatever can be read as an Ed25519 key is one.
DetectedIn(tlv) ==
  IF Ed25519In(tlv) # {} THEN {<<"ed25519", key>> : key \in Ed25519In(tlv)}
  ELSE {<<"secp256k1", point>> : point \in Secp256k1In(tlv)}

\* main.rs ssh_ed25519_to_solana: the key at a fixed place of the decoded blob.
KeyInSsh(raw) == IF Len(raw) >= 51 THEN {SubSeq(raw, 20, 51)} ELSE {}

-----------------------------------------------------------------------------
(* BER as the standard puts it, without an order of reading.                *)

\* What a digit counts for, from the last one on.
Weight == <<1, 256, 65536, 16777216>>

\* f is a length field for n, the shortest or not.
LengthField(f, n) ==
  \/ n < 128 /\ f = <<n>>
  \/ /\ Len(f) \in 2 .. 5 /\ f[1] = 127 + Len(f)
     /\ n \div Weight[Len(f) - 1] < 256
     /\ \A j \in 2 .. Len(f) : f[j] = (n \div Weight[Len(f) - j + 1]) % 256

\* The value of e, if it is one element with the tag.
ElementValue(e, tag) ==
  {SubSeq(e, m + 1, Len(e)) :
     m \in {k \in 2 .. 6 : /\ k <= Len(e) /\ e[1] = tag
                           /\ LengthField(SubSeq(e, 2, k), Len(e) - k)}}

\* The values that come first with a tag: data is cut into elements up to one
\* with it, at `last`, and none before has it.
FirstValues(data, tag) ==
  UNION {LET Piece(c) == SubSeq(data, c + 1, First({d \in cuts \cup {last} : d > c})) IN
         IF /\ 0 \in cuts /\ \A c \in cuts : c < last
            /\ \A c \in cuts : LET e == Piece(c) IN
                 IF \E d \in cuts : d > c
                 THEN e[1] # tag /\ ElementValue(e, e[1]) # {} ELSE e[1] = tag
         THEN ElementValue(Piece(First({c \in cuts : \A d \in cuts : d <= c})), tag) ELSE {} :
         cuts \in SUBSET (0 .. Len(data) - 1), last \in 1 .. Len(data)}

-----------------------------------------------------------------------------
(* Properties of one byte string, of one length, of one message.            *)

\* read_tlv gives the value of the first element with the tag, an error if
\* there is none or if the bytes before it are no elements, and it never runs
\* over the end or into a value (piv.rs read_tlv, read_ber_len).
ReadsFirst(data, tag) == ReadTlv(data, tag) = FirstValues(data, tag)

\* Every length under 2^24 is read back as it was written (piv.rs ber_len,
\* read_ber_len).
LengthReadBack(n) ==
  n < 16777216 =>
    /\ LengthField(BerLen(n), n)
    /\ ReadBerLen(BerLen(n), 1) = {<<n, Len(BerLen(n)) + 1>>}

\* The data of GENERAL AUTHENTICATE is one template, which asks for an empty
\* response and holds the whole message and nothing else; and a signature is
\* read back from the card's template, whatever its length and whatever
\* element comes before it (piv.rs build_general_authenticate_data,
\* parse_signature_response).
MessageReadBack(m) ==
  /\ \E d \in ElementValue(GeneralAuthenticateData(m), TAG_DYNAMIC_AUTH) :
       /\ SubSeq(d, 1, 2) = <<TAG_RESPONSE, 0>>
       /\ ElementValue(SubSeq(d, 3, Len(d)), TAG_CHALLENGE) = {m}
  /\ \A before \in {<< >>, <<TAG_CHALLENGE, 1, TAG_RESPONSE>>} :
       LET inner == before \o <<TAG_RESPONSE>> \o BerLen(Len(m)) \o m IN
       SignatureIn(<<TAG_DYNAMIC_AUTH>> \o BerLen(Len(inner)) \o inner) = {m}
=============================================================================
