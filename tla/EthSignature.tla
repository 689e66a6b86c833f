---------------------------- MODULE EthSignature ----------------------------
(***************************************************************************)
(* What eth.rs makes of a card's R || S.  A curve is a constant: a group   *)
(* of prime order N whose k-th multiple of the generator is Point[k], so a *)
(* key is its secret scalar, and Point hides it.  A Result is a set.       *)
(***************************************************************************)
EXTENDS Integers

CONSTANTS
  N,      \* the order of the group, a prime
  Point,  \* Point[k]: the coordinates of k times the generator
  Modulus \* how many values the word of v has: 2 ^ 64 in the code

Scalars == 1 .. N - 1
Parity(k) == Point[k][2] % 2

\* -k is the mirror image of k: the same abscissa and the other parity.
ASSUME CurveAssumption ==
  /\ N \in Nat /\ N > 2 /\ Modulus \in Nat /\ Modulus > 36
  /\ \A a \in Scalars : \E b \in Scalars : (a * b) % N = 1
  /\ \A k \in Scalars : Point[k] \in Nat \X Nat
  /\ \A j, k \in Scalars : Point[j][1] = Point[k][1] <=> j = k \/ j = N - k
  /\ \A k \in Scalars : Parity(k) # Parity(N - k)

ScalarInverse(a) == CHOOSE b \in Scalars : (a * b) % N = 1

-----------------------------------------------------------------------------
(* The card and the k256 crate.                                             *)

Signatures == [r : Scalars, s : Scalars]

\* An ECDSA signature over the hash z by key d with nonce k.
CardSigns(d, k, z) ==
  LET r == Point[k][1] % N IN
  {sig \in {[r |-> r, s |-> (ScalarInverse(k) * (z + r * d)) % N]} : sig.r # 0 /\ sig.s # 0}

\* The verification equation: it does not know low s from high s.
Verifies(q, z, sig) ==
  LET k == (ScalarInverse(sig.s) * (z + sig.r * q)) % N IN k # 0 /\ Point[k][1] % N = sig.r

IsLow(sig) == 2 * sig.s <= N

\* Signature::normalize_s
Normalized(sig) == IF IsLow(sig) THEN sig ELSE [sig EXCEPT !.s = N - @]

\* VerifyingKey::recover_from_prehash: recovery ids 0 and 1 take r itself for
\* the abscissa of the nonce's point, and the id for its parity.
Recovered(z, sig, rid) ==
  {(ScalarInverse(sig.r) * (sig.s * k - z)) % N :
     k \in {j \in Scalars : Point[j][1] = sig.r /\ Parity(j) = rid}} \ {0}

-----------------------------------------------------------------------------
(* eth.rs.                                                                  *)

\* Mutant: the chain id is not doubled.
Eip155VSingle(rid, chain) == (rid + chain + 35) % Modulus

\* eip155_v, with the wrapping arithmetic of a release build.
Eip155V(rid, chain) == (rid + 2 * chain + 35) % Modulus

\* Mutant: the recovery ids are those of the signature before it is normalized.
EthereumSignatureEarly(expected, z, rs, chain) ==
  LET rids == {rid \in {0, 1} : expected \in Recovered(z, rs, rid)} IN
  {[r |-> rs.r, s |-> Normalized(rs).s, v |-> Eip155V(rid, chain)] : rid \in rids}

\* ethereum_signature: the first recovery id that gives the expected key, or
\* an error.
EthereumSignature(expected, z, rs, chain) ==
  LET sig  == Normalized(rs)
      rids == {rid \in {0, 1} : expected \in Recovered(z, sig, rid)} IN
  {[r |-> sig.r, s |-> sig.s, v |-> Eip155V(rid, chain)] :
     rid \in {i \in rids : \A j \in rids : i <= j}}

\* The recovery id the native host answers with: v.saturating_sub(35), for
\* chain 0.
HostRecoveryId(v) == IF v >= 35 THEN v - 35 ELSE 0

\* The parity the Ethereum tool takes from v (examples/ethereum.rs).
ToolParity(v, chain) == IF (v - 2 * chain - 35) % Modulus = 1 THEN 1 ELSE 0

-----------------------------------------------------------------------------
(* Properties of one signature, and of one chain id.                        *)

\* Whatever ethereum_signature returns for a card's signature is a low-s
\* signature that verifies under the expected key, and from which the id in v
\* recovers that key and no other: the address the funds leave is the one
\* shown.  So it is for any expected key, a swapped card's or not.
SoundFor(expected, z, rs, chain) ==
  \A e \in EthereumSignature(expected, z, rs, chain) :
    LET sig == [r |-> e.r, s |-> e.s] IN
    /\ IsLow(sig) /\ Verifies(expected, z, sig)
    /\ Recovered(z, sig, ToolParity(e.v, chain)) = {expected}
    /\ chain = 0 => Recovered(z, sig, HostRecoveryId(e.v)) = {expected}

\* The signer's own key is recovered, by one id, unless the nonce's abscissa is
\* N or more (for secp256k1 a chance of 2^-128), which ids 0 and 1 cannot say:
\* then RecoveryFailed is the answer, and never a wrong id.
CompleteFor(d, k, z, chain) ==
  \A rs \in CardSigns(d, k, z) :
    EthereumSignature(d, z, rs, chain) # {} <=> Point[k][1] < N

\* v tells the chain a signature is for, so one chain's is of no use on another,
\* up to the chain ids whose v no longer fits the word.
ChainReadBack(chain) ==
  2 * chain + 36 < Modulus =>
    \A rid \in {0, 1} :
      /\ (Eip155V(rid, chain) - 35) \div 2 = chain
      /\ (Eip155V(rid, chain) - 35) % 2 = rid
=============================================================================
