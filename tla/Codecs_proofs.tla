--------------------------- MODULE Codecs_proofs ---------------------------
(***************************************************************************)
(* Proofs about the pure functions of the library: Ethereum signatures,    *)
(* for every group that satisfies CurveAssumption; the names of accounts;  *)
(* the bytes of a command; BER lengths, read_tlv and the templates it cuts *)
(* open, for every byte string.  Where an argument is by induction, a set  *)
(* of counterexamples has a least element (Least), which is none.          *)
(***************************************************************************)
EXTENDS MCCodecs, SequenceTheorems, WellFoundedInduction, TLAPS

-----------------------------------------------------------------------------
(* Arithmetic modulo N.                                                     *)

\* a and b differ by a multiple of N.
Congruent(a, b) == \E q \in Int : a - b = q * N

\* A remainder is less than N and congruent to its number.
LEMMA Reduced ==
  ASSUME NEW a \in Int
  PROVE  a % N \in 0 .. N - 1 /\ Congruent(a % N, a)
<1>1. N \in Nat /\ N > 2
  BY CurveAssumption
<1>2. a % N \in 0 .. N - 1 /\ a = N * (a \div N) + (a % N) /\ a \div N \in Int
  BY <1>1
<1>3. (a % N) - a = (0 - a \div N) * N
  BY <1>1, <1>2
<1> QED
  BY <1>2, <1>3 DEF Congruent

\* Congruence is an equivalence.
LEMMA CongruentEquivalence ==
  ASSUME NEW a \in Int, NEW b \in Int, NEW c \in Int
  PROVE  /\ Congruent(a, a)
         /\ Congruent(a, b) => Congruent(b, a)
         /\ Congruent(a, b) /\ Congruent(b, c) => Congruent(a, c)
<1>1. N \in Nat
  BY CurveAssumption
<1>2. Congruent(a, a)
  <2>1. a - a = 0 * N
    BY <1>1
  <2> QED
    BY <2>1 DEF Congruent
<1>3. ASSUME Congruent(a, b)
      PROVE  Congruent(b, a)
  <2>1. PICK q \in Int : a - b = q * N
    BY <1>3 DEF Congruent
  <2>2. b - a = (0 - q) * N
    BY <1>1, <2>1
  <2> QED
    BY <2>2 DEF Congruent
<1>4. ASSUME Congruent(a, b), Congruent(b, c)
      PROVE  Congruent(a, c)
  <2>1. PICK q \in Int : a - b = q * N
    BY <1>4 DEF Congruent
  <2>2. PICK t \in Int : b - c = t * N
    BY <1>4 DEF Congruent
  <2>3. a - c = (q + t) * N
    BY <1>1, <2>1, <2>2
  <2> QED
    BY <2>3 DEF Congruent
<1> QED
  BY <1>2, <1>3, <1>4

\* Sums, differences and products of congruent numbers are congruent.
LEMMA CongruentArithmetic ==
  ASSUME NEW a \in Int, NEW b \in Int, NEW c \in Int, NEW d \in Int,
         Congruent(a, b), Congruent(c, d)
  PROVE  Congruent(a + c, b + d) /\ Congruent(a - c, b - d) /\ Congruent(a * c, b * d)
<1>1. N \in Nat
  BY CurveAssumption
<1>2. PICK q \in Int : a - b = q * N
  BY DEF Congruent
<1>3. PICK t \in Int : c - d = t * N
  BY DEF Congruent
<1>4. Congruent(a + c, b + d)
  <2>1. (a + c) - (b + d) = (q + t) * N
    BY <1>1, <1>2, <1>3
  <2> QED
    BY <2>1 DEF Congruent
<1>5. Congruent(a - c, b - d)
  <2>1. (a - c) - (b - d) = (q - t) * N
    BY <1>1, <1>2, <1>3
  <2> QED
    BY <2>1 DEF Congruent
<1>6. Congruent(a * c, b * d)
  <2>1. a = b + q * N /\ c = d + t * N
    BY <1>1, <1>2, <1>3
  <2>2. a * c - b * d = (q * c + b * t) * N
    <3>1. a * c = b * c + (q * c) * N
      BY <1>1, <2>1
    <3>2. b * c = b * d + (b * t) * N
      BY <1>1, <2>1
    <3> QED
      BY <1>1, <3>1, <3>2
  <2> QED
    BY <2>2 DEF Congruent
<1> QED
  BY <1>4, <1>5, <1>6

\* Congruent remainders are equal.
LEMMA CongruentResidues ==
  ASSUME NEW a \in 0 .. N - 1, NEW b \in 0 .. N - 1, Congruent(a, b)
  PROVE  a = b
<1>1. N \in Nat /\ N > 2
  BY CurveAssumption
<1>2. PICK q \in Int : a - b = q * N
  BY DEF Congruent
<1>3. q < 1
  <2>1. SUFFICES ASSUME q >= 1 PROVE FALSE
    OBVIOUS
  <2>2. q * N >= N
    BY <1>1, <2>1
  <2> QED
    BY <1>1, <1>2, <2>2
<1>4. q > -1
  <2>1. SUFFICES ASSUME q <= -1 PROVE FALSE
    OBVIOUS
  <2>2. q * N <= -N
    BY <1>1, <2>1
  <2> QED
    BY <1>1, <1>2, <2>2
<1> QED
  BY <1>1, <1>2, <1>3, <1>4

\* A scalar times its inverse is 1.
LEMMA InverseProperty ==
  ASSUME NEW a \in Scalars
  PROVE  /\ ScalarInverse(a) \in Scalars
         /\ Congruent(a * ScalarInverse(a), 1)
<1>1. N \in Nat /\ N > 2 /\ Scalars \subseteq Int
  BY CurveAssumption DEF Scalars
<1>2. ScalarInverse(a) \in Scalars /\ (a * ScalarInverse(a)) % N = 1
  BY CurveAssumption DEF ScalarInverse
<1>3. a * ScalarInverse(a) \in Int
  <2>1. \A b \in Int : a * b \in Int
    BY <1>1
  <2> QED
    BY <1>1, <1>2, <2>1
<1>4. Congruent(1, a * ScalarInverse(a))
  BY <1>2, <1>3, Reduced
<1> QED
  BY <1>2, <1>3, <1>4, CongruentEquivalence

\* A factor that is a scalar cancels: the order is a prime.
LEMMA Cancelled ==
  ASSUME NEW s \in Scalars, NEW a \in Int, NEW b \in Int, Congruent(s * a, b)
  PROVE  Congruent(a, ScalarInverse(s) * b)
<1> DEFINE t == ScalarInverse(s)
<1>1. s \in Int /\ t \in Int
  BY InverseProperty, CurveAssumption DEF Scalars
<1>2. Congruent(s * t, 1)
  BY InverseProperty
<1> HIDE DEF t
<1>0. s * t \in Int /\ s * a \in Int /\ Congruent(a, a) /\ Congruent(t, t)
  BY <1>1, CongruentEquivalence
<1>3. Congruent((s * t) * a, 1 * a)
  BY <1>0, <1>2, CongruentArithmetic
<1>4. Congruent(t * (s * a), t * b)
  BY <1>0, <1>1, CongruentArithmetic
<1>5. (s * t) * a = t * (s * a) /\ 1 * a = a
  BY <1>1
<1>6. (s * t) * a \in Int /\ t * b \in Int
  BY <1>1
<1>7. Congruent(a, (s * t) * a)
  BY <1>3, <1>5, <1>6, CongruentEquivalence
<1>8. Congruent(a, t * b)
  BY <1>4, <1>5, <1>6, <1>7, CongruentEquivalence
<1> QED
  BY <1>8 DEF t


-----------------------------------------------------------------------------
(* Recovery of a key.                                                       *)

\* Scalars are numbers less than N.
LEMMA ScalarsAreIntegers == N \in Nat /\ N > 2 /\ \A a \in Scalars : a \in Int /\ a \in 0 .. N - 1
BY CurveAssumption DEF Scalars

\* Stated once: the solver does not see it inside longer terms.
LEMMA ProductsAreIntegers == \A a, b \in Int : a * b \in Int
OBVIOUS

\* An abscissa and a parity determine a point.
LEMMA OnePoint ==
  ASSUME NEW j \in Scalars, NEW k \in Scalars,
         Point[j][1] = Point[k][1], Parity(j) = Parity(k)
  PROVE  j = k
BY CurveAssumption

\* The coordinates of a point.
LEMMA Parities == \A k \in Scalars : Point[k][1] \in Nat /\ Parity(k) \in {0, 1}
<1> SUFFICES ASSUME NEW k \in Scalars
             PROVE  Point[k][1] \in Nat /\ Parity(k) \in {0, 1}
  OBVIOUS
<1>1. Point[k][1] \in Nat /\ Point[k][2] \in Nat
  BY CurveAssumption
<1> QED
  BY <1>1 DEF Parity

\* Normalizing keeps R, and S up to its sign.
LEMMA NormalizedSignature ==
  ASSUME NEW rs \in Signatures
  PROVE  /\ Normalized(rs) \in Signatures /\ IsLow(Normalized(rs))
         /\ Normalized(rs).r = rs.r /\ Normalized(rs).s \in {rs.s, N - rs.s}
<1>1. rs.r \in Scalars /\ rs.s \in Scalars /\ rs = [r |-> rs.r, s |-> rs.s]
  BY DEF Signatures
<1>2. CASE IsLow(rs)
  BY <1>2 DEF Normalized
<1>3. CASE ~IsLow(rs)
  <2>1. Normalized(rs) = [r |-> rs.r, s |-> N - rs.s]
    BY <1>1, <1>3 DEF Normalized
  <2>2. N - rs.s \in Scalars /\ 2 * (N - rs.s) <= N
    BY <1>1, <1>3, CurveAssumption DEF IsLow, Scalars
  <2> QED
    BY <1>1, <2>1, <2>2 DEF Signatures, IsLow
<1> QED
  BY <1>2, <1>3

\* The key recovered with the nonce j, and the equation of a signature.
KeyOf(r, s, j, z) == (ScalarInverse(r) * (s * j - z)) % N
Solves(q, r, s, j, z) == Congruent(s * j, z + r * q)

\* A key recovered from r, s and the nonce j is the one that solves the
\* equation of the signature.
LEMMA KeyEquation ==
  ASSUME NEW r \in Scalars, NEW s \in Scalars, NEW j \in Scalars, NEW z \in Int,
         NEW q \in 0 .. N - 1
  PROVE  q = KeyOf(r, s, j, z) <=> Solves(q, r, s, j, z)
<1> DEFINE t == ScalarInverse(r)
           w == s * j - z
<1>1. /\ r \in Int /\ s \in Int /\ j \in Int /\ q \in Int
      /\ t \in Int
      /\ Congruent(r * t, 1)
  BY ScalarsAreIntegers, InverseProperty
<1>2. w \in Int /\ s * j \in Int /\ r * q \in Int /\ r * t \in Int
  BY <1>1, ProductsAreIntegers
<1>3. w + z = s * j /\ (z + r * q) - z = r * q
  BY <1>2
<1>4. t * w \in Int
  BY <1>1, <1>2, ProductsAreIntegers
<1>5. Congruent(w, r * q) <=> Congruent(s * j, z + r * q)
  <2>1. Congruent(z, z)
    BY CongruentEquivalence
  <2>2. Congruent(w, r * q) => Congruent(w + z, r * q + z)
    BY <1>2, <2>1, CongruentArithmetic
  <2>3. Congruent(s * j, z + r * q) => Congruent(s * j - z, (z + r * q) - z)
    <3>1. z + r * q \in Int
      BY <1>2
    <3> HIDE DEF w
    <3> QED
      BY <1>2, <2>1, <3>1, CongruentArithmetic
  <2>4. r * q + z = z + r * q
    BY <1>2
  <2> QED
    BY <1>3, <2>2, <2>3, <2>4
<1>6. ASSUME Congruent(w, r * q)
      PROVE  q = (t * w) % N
  <2>1. Congruent(r * q, w)
    BY <1>2, <1>6, CongruentEquivalence
  <2>2. Congruent(q, t * w)
    BY <1>1, <1>2, <2>1, Cancelled
  <2> HIDE DEF t, w
  <2>3. (t * w) % N \in 0 .. N - 1 /\ Congruent((t * w) % N, t * w)
    BY <1>4, Reduced
  <2>4. (t * w) % N \in Int
    BY <2>3, ScalarsAreIntegers
  <2>5. Congruent(q, (t * w) % N)
    BY <1>1, <1>4, <2>2, <2>3, <2>4, CongruentEquivalence
  <2> QED
    BY <2>3, <2>5, CongruentResidues
<1>7. ASSUME q = (t * w) % N
      PROVE  Congruent(w, r * q)
  <2> HIDE DEF t, w
  <2>1. Congruent(q, t * w)
    BY <1>4, <1>7, Reduced
  <2>2. Congruent(r * q, r * (t * w))
    <3>1. Congruent(r, r)
      BY <1>1, CongruentEquivalence
    <3> QED
      BY <1>1, <1>4, <2>1, <3>1, CongruentArithmetic
  <2>3. Congruent((r * t) * w, 1 * w)
    <3>1. Congruent(w, w)
      BY <1>2, CongruentEquivalence
    <3> QED
      BY <1>1, <1>2, <3>1, CongruentArithmetic
  <2>4. r * (t * w) = (r * t) * w /\ 1 * w = w
    BY <1>1, <1>2
  <2>5. r * (t * w) \in Int
    BY <1>1, <1>4, ProductsAreIntegers
  <2> QED
    BY <1>2, <2>2, <2>3, <2>4, <2>5, CongruentEquivalence
<1> QED
  BY <1>5, <1>6, <1>7 DEF KeyOf, Solves

\* What is recovered is the one key under which the signature verifies with
\* that point.
LEMMA RecoveredVerifies ==
  ASSUME NEW z \in Int, NEW sig \in Signatures, NEW rid, NEW q \in Recovered(z, sig, rid)
  PROVE  /\ q \in Scalars
         /\ Verifies(q, z, sig)
         /\ Recovered(z, sig, rid) = {q}
<1> DEFINE r == sig.r
           s == sig.s
           x == ScalarInverse(s) * (z + r * q)
<1>1. r \in Scalars /\ s \in Scalars
  BY DEF Signatures
<1>2. PICK k \in Scalars : Point[k][1] = r /\ Parity(k) = rid /\ q = KeyOf(r, s, k, z) /\ q # 0
  BY DEF Recovered, KeyOf
<1>3. /\ r \in Int /\ s \in Int /\ k \in Int /\ k \in 0 .. N - 1
      /\ ScalarInverse(r) \in Int /\ ScalarInverse(s) \in Int
  BY <1>1, <1>2, ScalarsAreIntegers, InverseProperty
<1> HIDE DEF r, s
<1>4. q \in 0 .. N - 1
  <2>1. s * k - z \in Int
    BY <1>3, ProductsAreIntegers
  <2>2. ScalarInverse(r) * (s * k - z) \in Int
    BY <1>3, <2>1, ProductsAreIntegers
  <2> QED
    BY <1>2, <2>2, Reduced DEF KeyOf
<1>5. q \in Scalars /\ q \in Int
  BY <1>2, <1>4, ScalarsAreIntegers DEF Scalars
<1>6. Congruent(s * k, z + r * q)
  BY <1>1, <1>2, <1>4, KeyEquation DEF Solves
<1>7. x % N = k
  <2>1. z + r * q \in Int
    BY <1>3, <1>5, ProductsAreIntegers
  <2>2. x \in Int
    BY <1>3, <2>1, ProductsAreIntegers
  <2>3. Congruent(k, x)
    BY <1>1, <1>3, <1>6, <2>1, Cancelled
  <2> HIDE DEF x
  <2>4. x % N \in 0 .. N - 1 /\ Congruent(x % N, x)
    BY <2>2, Reduced
  <2>5. x % N \in Int
    BY <2>4, ScalarsAreIntegers
  <2>6. Congruent(x % N, k)
    BY <1>3, <2>2, <2>3, <2>4, <2>5, CongruentEquivalence
  <2> QED
    BY <1>3, <2>4, <2>6, CongruentResidues
<1>8. k # 0 /\ Point[k][1] % N = r
  BY <1>1, <1>2, ScalarsAreIntegers DEF Scalars
<1>9. Verifies(q, z, sig)
  BY <1>7, <1>8 DEF Verifies, r, s
<1>10. ASSUME NEW p \in Recovered(z, sig, rid)
       PROVE  p = q
  <2>1. PICK j \in Scalars : Point[j][1] = r /\ Parity(j) = rid /\ p = KeyOf(r, s, j, z)
    BY DEF Recovered, KeyOf, r, s
  <2>2. j = k
    BY <1>2, <2>1, OnePoint
  <2> QED
    BY <1>2, <2>1, <2>2
<1> QED
  BY <1>5, <1>9, <1>10

-----------------------------------------------------------------------------
(* The recovery id in v.                                                    *)

\* What is left of a number in v's word.
LEMMA WordOf ==
  ASSUME NEW a \in Int
  PROVE  /\ a % Modulus \in Nat
         /\ \E q \in Int : a % Modulus = a - q * Modulus
<1>1. Modulus \in Nat /\ Modulus > 36
  BY CurveAssumption
<1>2. a % Modulus \in Nat /\ a \div Modulus \in Int /\ a = Modulus * (a \div Modulus) + (a % Modulus)
  BY <1>1
<1>3. a % Modulus = a - (a \div Modulus) * Modulus
  BY <1>1, <1>2
<1> QED
  BY <1>2, <1>3

\* What is less than Modulus comes back from any number congruent to it.
LEMMA WordRead ==
  ASSUME NEW r \in 0 .. 36, NEW q \in Int
  PROVE  (r + q * Modulus) % Modulus = r
<1>1. Modulus \in Nat /\ Modulus > 36
  BY CurveAssumption
<1> DEFINE a == r + q * Modulus
<1>2. a \in Int /\ a % Modulus \in 0 .. Modulus - 1
  BY <1>1
<1>3. PICK p \in Int : a % Modulus = a - p * Modulus
  BY <1>2, WordOf
<1>4. (a % Modulus) - r = (q - p) * Modulus
  BY <1>1, <1>3
<1>5. q - p = 0
  <2>1. SUFFICES ASSUME q - p >= 1 \/ q - p <= -1 PROVE FALSE
    OBVIOUS
  <2>2. CASE q - p >= 1
    <3>1. (q - p) * Modulus >= Modulus
      BY <1>1, <2>2
    <3> QED
      BY <1>1, <1>2, <1>4, <3>1
  <2>3. CASE q - p <= -1
    <3>1. (q - p) * Modulus <= -Modulus
      BY <1>1, <2>3
    <3> QED
      BY <1>1, <1>2, <1>4, <3>1
  <2> QED
    BY <2>1, <2>2, <2>3
<1>6. (q - p) * Modulus = 0
  BY <1>1, <1>5
<1> QED
  BY <1>2, <1>4, <1>6

\* The tool and the host take out of v the recovery id that went into it,
\* even for the chain ids whose v wraps around.
LEMMA RecoveryIdRead ==
  ASSUME NEW rid \in {0, 1}, NEW chain \in Nat
  PROVE  /\ ToolParity(Eip155V(rid, chain), chain) = rid
         /\ chain = 0 => HostRecoveryId(Eip155V(rid, chain)) = rid
<1>1. Modulus \in Nat /\ Modulus > 36
  BY CurveAssumption
<1>2. PICK q \in Int : Eip155V(rid, chain) = rid + 2 * chain + 35 - q * Modulus
  <2> DEFINE a == rid + 2 * chain + 35
  <2>1. a \in Int /\ Eip155V(rid, chain) = a % Modulus
    BY DEF Eip155V
  <2> HIDE DEF a
  <2>2. PICK q \in Int : Eip155V(rid, chain) = a - q * Modulus
    BY <2>1, WordOf
  <2>3. Eip155V(rid, chain) = rid + 2 * chain + 35 - q * Modulus
    BY <1>1, <2>2 DEF a
  <2> QED
    BY <2>3
<1>3. Eip155V(rid, chain) - 2 * chain - 35 = rid + (0 - q) * Modulus
  BY <1>1, <1>2
<1>4. (Eip155V(rid, chain) - 2 * chain - 35) % Modulus = rid
  BY <1>3, WordRead
<1>5. ASSUME chain = 0
      PROVE  HostRecoveryId(Eip155V(rid, chain)) = rid
  <2>1. (rid + 35 + 0 * Modulus) % Modulus = rid + 35
    BY WordRead
  <2>2. rid + 2 * chain + 35 = rid + 35 + 0 * Modulus
    BY <1>1, <1>5
  <2>3. Eip155V(rid, chain) = rid + 35
    BY <2>1, <2>2 DEF Eip155V
  <2> QED
    BY <2>3 DEF HostRecoveryId
<1> QED
  BY <1>4, <1>5 DEF ToolParity

\* Every chain id that fits the word is read back, with the recovery id.
LEMMA ChainIdRead ==
  ASSUME NEW chain \in Nat
  PROVE  ChainReadBack(chain)
<1>1. Modulus \in Nat /\ Modulus > 36
  BY CurveAssumption
<1>2. SUFFICES ASSUME 2 * chain + 36 < Modulus, NEW rid \in {0, 1}
               PROVE  /\ (Eip155V(rid, chain) - 35) \div 2 = chain
                      /\ (Eip155V(rid, chain) - 35) % 2 = rid
  BY DEF ChainReadBack
<1>3. Eip155V(rid, chain) = rid + 2 * chain + 35
  BY <1>1, <1>2 DEF Eip155V
<1> QED
  BY <1>3

-----------------------------------------------------------------------------
(* Ethereum signatures.                                                     *)

\* Whatever ethereum_signature returns, for any R || S of scalars and any
\* expected key, recovers that key (eth.rs ethereum_signature).
THEOREM EthereumSignatureSound ==
  ASSUME NEW expected, NEW z \in Int, NEW rs \in Signatures, NEW chain \in Nat
  PROVE  SoundFor(expected, z, rs, chain)
<1> SUFFICES ASSUME NEW e \in EthereumSignature(expected, z, rs, chain)
             PROVE  LET sig == [r |-> e.r, s |-> e.s] IN
                    /\ IsLow(sig) /\ Verifies(expected, z, sig)
                    /\ Recovered(z, sig, ToolParity(e.v, chain)) = {expected}
                    /\ chain = 0 => Recovered(z, sig, HostRecoveryId(e.v)) = {expected}
  BY DEF SoundFor
<1> DEFINE sig == Normalized(rs)
<1>1. PICK rid \in {0, 1} : /\ expected \in Recovered(z, sig, rid)
                            /\ e = [r |-> sig.r, s |-> sig.s, v |-> Eip155V(rid, chain)]
  BY DEF EthereumSignature
<1>2. sig \in Signatures /\ IsLow(sig) /\ [r |-> e.r, s |-> e.s] = sig
  BY <1>1, NormalizedSignature DEF Signatures
<1> HIDE DEF sig
<1>3. Verifies(expected, z, sig) /\ Recovered(z, sig, rid) = {expected}
  BY <1>1, <1>2, RecoveredVerifies
<1>4. /\ ToolParity(e.v, chain) = rid
      /\ chain = 0 => HostRecoveryId(e.v) = rid
  BY <1>1, RecoveryIdRead
<1> QED
  BY <1>2, <1>3, <1>4

\* The card signs with scalars.
LEMMA CardSignatures ==
  ASSUME NEW d \in Scalars, NEW k \in Scalars, NEW z \in Int
  PROVE  CardSigns(d, k, z) \subseteq Signatures
<1> DEFINE r == Point[k][1] % N
           w == ScalarInverse(k) * (z + r * d)
<1>1. SUFFICES ASSUME NEW sig \in CardSigns(d, k, z)
               PROVE  sig \in Signatures
  OBVIOUS
<1>2. sig = [r |-> r, s |-> w % N] /\ r # 0 /\ w % N # 0
  BY DEF CardSigns
<1>3. N \in Nat /\ N > 2 /\ d \in Int /\ Point[k][1] \in Nat /\ ScalarInverse(k) \in Int
  BY ScalarsAreIntegers, Parities, InverseProperty
<1>4. r \in 0 .. N - 1 /\ r \in Int
  BY <1>3
<1> HIDE DEF r
<1>5. z + r * d \in Int
  BY <1>3, <1>4, ProductsAreIntegers
<1>6. w \in Int
  BY <1>3, <1>5, ProductsAreIntegers
<1> HIDE DEF w
<1>7. w % N \in 0 .. N - 1
  BY <1>6, Reduced
<1> QED
  BY <1>2, <1>4, <1>7 DEF Signatures, Scalars

\* Two nonces that give the same product are the same.
LEMMA SameProduct ==
  ASSUME NEW s \in Scalars, NEW a \in Scalars, NEW b \in Scalars, Congruent(s * a, s * b)
  PROVE  a = b
<1> DEFINE x == ScalarInverse(s) * (s * b)
<1>1. /\ s \in Int /\ a \in Int /\ b \in Int /\ a \in 0 .. N - 1 /\ b \in 0 .. N - 1
      /\ ScalarInverse(s) \in Int
  BY ScalarsAreIntegers, InverseProperty
<1>2. s * b \in Int /\ x \in Int
  BY <1>1, ProductsAreIntegers
<1>3. Congruent(s * b, s * b)
  BY <1>2, CongruentEquivalence
<1>4. Congruent(a, x) /\ Congruent(b, x)
  BY <1>1, <1>2, <1>3, Cancelled
<1> HIDE DEF x
<1>5. Congruent(a, b)
  BY <1>1, <1>2, <1>4, CongruentEquivalence
<1> QED
  BY <1>1, <1>5, CongruentResidues

\* Changing the sign of both factors gives the same product.
LEMMA MirrorProduct ==
  ASSUME NEW s \in Scalars, NEW k \in Scalars
  PROVE  N - s \in Scalars /\ N - k \in Scalars /\ Congruent((N - s) * (N - k), s * k)
<1>1. N \in Int /\ s \in Int /\ k \in Int
  BY ScalarsAreIntegers
<1>2. (N - s) * (N - k) - s * k = (N - s - k) * N
  BY <1>1
<1>3. N - s - k \in Int
  BY <1>1
<1>4. Congruent((N - s) * (N - k), s * k)
  BY <1>2, <1>3 DEF Congruent
<1>5. N - s \in Scalars /\ N - k \in Scalars
  BY <1>1 DEF Scalars
<1> QED
  BY <1>4, <1>5

\* The signer's own key is recovered exactly if the nonce's abscissa is less
\* than N (eth.rs ethereum_signature).
THEOREM EthereumSignatureComplete ==
  ASSUME NEW d \in Scalars, NEW k \in Scalars, NEW z \in Int, NEW chain \in Nat
  PROVE  CompleteFor(d, k, z, chain)
<1> SUFFICES ASSUME NEW rs \in CardSigns(d, k, z)
             PROVE  EthereumSignature(d, z, rs, chain) # {} <=> Point[k][1] < N
  BY DEF CompleteFor
<1> DEFINE px  == Point[k][1]
           r   == px % N
           w   == z + r * d
           t   == ScalarInverse(k)
           s   == (t * w) % N
           sig == Normalized(rs)
           m   == IF sig.s = s THEN k ELSE N - k
<1>1. /\ N \in Nat /\ N > 2 /\ d \in Int /\ k \in Int /\ d \in 0 .. N - 1 /\ d # 0
      /\ px \in Nat /\ t \in Int /\ Congruent(k * t, 1)
  BY ScalarsAreIntegers, Parities, InverseProperty DEF Scalars
<1>2. rs = [r |-> r, s |-> s] /\ r # 0 /\ s # 0
  BY DEF CardSigns
<1> HIDE DEF t, px
<1>3. r \in 0 .. N - 1 /\ r \in Int
  BY <1>1
<1>4. w \in Int
  BY <1>1, <1>3, ProductsAreIntegers
<1>5. t * w \in Int
  BY <1>1, <1>4, ProductsAreIntegers
<1> HIDE DEF r, w
<1>6. s \in 0 .. N - 1 /\ s \in Int /\ Congruent(s, t * w)
  <2>1. s \in 0 .. N - 1 /\ Congruent(s, t * w)
    BY <1>5, Reduced
  <2> QED
    BY <1>1, <2>1
<1> HIDE DEF s
<1>7. r \in Scalars /\ s \in Scalars
  BY <1>1, <1>2, <1>3, <1>6 DEF Scalars
<1>8. Congruent(s * k, w)
  <2>1. Congruent(s * k, (t * w) * k)
    BY <1>1, <1>5, <1>6, CongruentArithmetic, CongruentEquivalence
  <2>2. Congruent(w, w) /\ k * t \in Int
    BY <1>1, <1>4, ProductsAreIntegers, CongruentEquivalence
  <2>3. Congruent((k * t) * w, 1 * w)
    BY <1>1, <1>4, <2>2, CongruentArithmetic
  <2>4. (t * w) * k = (k * t) * w /\ 1 * w = w
    BY <1>1, <1>4
  <2>5. s * k \in Int /\ (t * w) * k \in Int
    BY <1>1, <1>5, <1>6, ProductsAreIntegers
  <2> QED
    BY <1>4, <2>1, <2>3, <2>4, <2>5, CongruentEquivalence
<1>9. sig \in Signatures /\ sig.r = r /\ sig.s \in Scalars /\ sig.s \in {s, N - s}
  BY <1>2, <1>7, NormalizedSignature DEF Signatures
<1> HIDE DEF sig
<1>10. m \in Scalars /\ Point[m][1] = px /\ Congruent(sig.s * m, s * k)
  <2>1. CASE sig.s = s
    <3>1. s * k \in Int
      BY <1>1, <1>6, ProductsAreIntegers
    <3> QED
      BY <2>1, <3>1, CongruentEquivalence DEF px
  <2>2. CASE sig.s # s
    <3>1. sig.s = N - s /\ m = N - k
      BY <1>9, <2>2
    <3>2. N - k \in Scalars /\ Congruent((N - s) * (N - k), s * k)
      BY <1>7, MirrorProduct
    <3>3. Point[N - k][1] = Point[k][1]
      <4>1. N - k = N - k
        OBVIOUS
      <4> QED
        BY <3>2, CurveAssumption
    <3> QED
      BY <3>1, <3>2, <3>3 DEF px
  <2> QED
    BY <2>1, <2>2
<1> HIDE DEF m
<1>11. \A j \in Scalars : sig.s * j \in Int
  BY <1>9, ScalarsAreIntegers, ProductsAreIntegers
<1>12. s * k \in Int
  BY <1>1, <1>6, ProductsAreIntegers
<1>13. \A j \in Scalars : d = KeyOf(r, sig.s, j, z) <=> j = m
  <2> SUFFICES ASSUME NEW j \in Scalars
               PROVE  d = KeyOf(r, sig.s, j, z) <=> j = m
    OBVIOUS
  <2>0. d = KeyOf(r, sig.s, j, z) <=> Congruent(sig.s * j, w)
    <3>0. r \in Scalars /\ sig.s \in Scalars /\ d \in 0 .. N - 1
      BY <1>1, <1>7, <1>9
    <3>1. d = KeyOf(r, sig.s, j, z) <=> Solves(d, r, sig.s, j, z)
      BY <3>0, KeyEquation
    <3> QED
      BY <3>1 DEF Solves, w
  <2>1. Congruent(sig.s * m, w)
    BY <1>4, <1>8, <1>10, <1>11, <1>12, CongruentEquivalence
  <2>2. ASSUME Congruent(sig.s * j, w)
        PROVE  j = m
    <3>1. Congruent(sig.s * j, sig.s * m)
      BY <1>4, <1>10, <1>11, <2>1, <2>2, CongruentEquivalence
    <3> QED
      BY <1>9, <1>10, <3>1, SameProduct
  <2> QED
    BY <2>0, <2>1, <2>2
<1>14. \A rid : d \in Recovered(z, sig, rid) <=> px = r /\ Parity(m) = rid
  BY <1>1, <1>9, <1>10, <1>13 DEF Recovered, KeyOf
<1>15. EthereumSignature(d, z, rs, chain) # {} <=> \E rid \in {0, 1} : d \in Recovered(z, sig, rid)
  <2> DEFINE rids == {rid \in {0, 1} : d \in Recovered(z, sig, rid)}
             least == {i \in rids : \A j \in rids : i <= j}
  <2>1. least # {} <=> rids # {}
    <3>1. 0 \in rids => 0 \in least
      OBVIOUS
    <3>2. 0 \notin rids /\ 1 \in rids => 1 \in least
      OBVIOUS
    <3> QED
      BY <3>1, <3>2
  <2>2. EthereumSignature(d, z, rs, chain) =
          {[r |-> sig.r, s |-> sig.s, v |-> Eip155V(rid, chain)] : rid \in least}
    BY DEF EthereumSignature, sig
  <2> HIDE DEF least
  <2>3. EthereumSignature(d, z, rs, chain) # {} <=> least # {}
    BY <2>2
  <2> QED
    BY <2>1, <2>3
<1>16. px = r <=> px < N
  BY <1>1 DEF r
<1> QED
  BY <1>10, <1>14, <1>15, <1>16, Parities DEF px

-----------------------------------------------------------------------------
(* The names of accounts.                                                   *)

\* from_str_radix over two digits, unfolded.
LEMMA TwoDigits ==
  ASSUME NEW h \in 0 .. 15, NEW l \in 0 .. 15
  PROVE  ParseHexByte(<<h, l>>) = {16 * h + l}
<1> DEFINE d == <<h, l>>
           F(f) == [k \in 0 .. Len(d) |-> IF k = 0 THEN 0 ELSE 16 * f[k - 1] + d[k]]
           Value == CHOOSE f : f = F(f)
           g == [k \in 0 .. 2 |-> IF k = 0 THEN 0 ELSE IF k = 1 THEN h ELSE 16 * h + l]
<1>1. Len(d) = 2 /\ d[1] = h /\ d[2] = l /\ d # << >>
  OBVIOUS
<1>2. ParseHexByte(d) = {Value[Len(d)]} \cap Slots
  BY <1>1 DEF ParseHexByte
<1> HIDE DEF d
<1>3. g = F(g)
  BY <1>1
<1>4. Value = F(Value)
  <2> HIDE DEF F, g
  <2> QED
    BY <1>3
<1>5. Value[0] = 0 /\ Value[1] = 16 * Value[0] + h /\ Value[2] = 16 * Value[1] + l
  <2> HIDE DEF Value
  <2> QED
    BY <1>1, <1>4
<1> HIDE DEF Value
<1>6. Value[2] = 16 * h + l /\ 16 * h + l \in Slots
  BY <1>5 DEF Slots
<1> QED
  BY <1>1, <1>2, <1>6 DEF d

\* The label of a slot that can be named is parsed as that slot.
LEMMA LabelRead ==
  ASSUME NEW a \in Account, NamedSlot(a.applet, a.slot)
  PROVE  ParseSlot(a.applet, Label(a)) = {a.slot}
<1>1. CASE a.applet = "openpgp"
  BY <1>1 DEF NamedSlot, OpenPgpSlots, ParseSlot, Label, OpenPgpSlot, Word, SIG, AUT
<1>2. CASE a.applet # "openpgp"
  <2> DEFINE h == a.slot \div 16
             l == a.slot % 16
  <2>1. a.slot \in 0 .. 255 /\ IsValid(a.slot)
    BY <1>2 DEF Account, Slots, NamedSlot
  <2>2. h \in 0 .. 15 /\ l \in 0 .. 15 /\ 16 * h + l = a.slot
    BY <2>1
  <2> HIDE DEF h, l
  <2>3. Label(a) = Hex(<<h, l>>)
    BY <1>2 DEF Label, h, l
  <2>4. PivSlot(Label(a)) = ParseHexByte(<<h, l>>)
    BY <2>3 DEF PivSlot, Hex
  <2>5. PivSlot(Label(a)) = {a.slot}
    BY <2>2, <2>4, TwoDigits
  <2> QED
    BY <1>2, <2>1, <2>5 DEF ParseSlot
<1> QED
  BY <1>1, <1>2

\* The id an account is listed under names that account, and no other.
LEMMA IdRead ==
  ASSUME NEW a \in Account, NamedSlot(a.applet, a.slot)
  PROVE  ParseAccount(IdOf(a)) = {a}
<1>1. a = [applet |-> a.applet, slot |-> a.slot, curve |-> a.curve]
  BY DEF Account
<1>2. ParseSlot(a.applet, Label(a)) = {a.slot}
  BY LabelRead
<1> QED
  BY <1>1, <1>2 DEF ParseAccount, IdOf

\* Every PIV slot that can be named has an object of its own.
LEMMA ObjectsDiffer ==
  ASSUME NEW slot \in Slots, IsValid(slot)
  PROVE  /\ SlotObjectTag(slot) # {}
         /\ \A s \in Slots \ {slot} : SlotObjectTag(s) \cap SlotObjectTag(slot) = {}
<1> USE DEF AUTH, SIGN, KEY_MGMT, CARD_AUTH, RETIRED_FIRST, RETIRED_LAST
<1> DEFINE Last(s) == CASE s = AUTH      -> \h05
                        [] s = SIGN      -> \h0A
                        [] s = KEY_MGMT  -> \h0B
                        [] s = CARD_AUTH -> \h01
                        [] s \in RETIRED_FIRST .. RETIRED_LAST -> \h0D + (s - RETIRED_FIRST)
                        [] OTHER -> 0
<1>1. \A s \in Slots : IF IsValid(s) THEN SlotObjectTag(s) = {<<\h5F, \hC1, Last(s)>>}
                       ELSE SlotObjectTag(s) = {}
  BY DEF SlotObjectTag, IsValid, Slots
<1>2. \A s \in Slots : IsValid(s) /\ Last(s) = Last(slot) => s = slot
  BY DEF IsValid, Slots
<1> HIDE DEF Last
<1>3. ASSUME NEW s \in Slots, s # slot
      PROVE  SlotObjectTag(s) \cap SlotObjectTag(slot) = {}
  <2>1. CASE ~IsValid(s)
    BY <1>1, <2>1
  <2>2. CASE IsValid(s)
    <3>1. Last(s) # Last(slot)
      BY <1>2, <1>3, <2>2
    <3>2. <<\h5F, \hC1, Last(s)>> # <<\h5F, \hC1, Last(slot)>>
      BY <3>1
    <3> QED
      BY <1>1, <2>2, <3>2
  <2> QED
    BY <2>1, <2>2
<1> QED
  BY <1>1, <1>3

-----------------------------------------------------------------------------
(* The bytes of a command.                                                  *)

\* What a concatenation is, byte by byte.
LEMMA ByteConcat ==
  ASSUME NEW s \in Seq(Byte), NEW t \in Seq(Byte)
  PROVE  /\ s \o t \in Seq(Byte) /\ Len(s) \in Nat /\ Len(t) \in Nat
         /\ Len(s \o t) = Len(s) + Len(t)
         /\ \A i \in 1 .. Len(s) + Len(t) : (s \o t)[i] = IF i <= Len(s) THEN s[i] ELSE t[i - Len(s)]
BY ConcatProperties, LenProperties

\* Concatenations can be regrouped.
LEMMA ByteAssociative ==
  \A s, t, u \in Seq(Byte) : (s \o t) \o u = s \o (t \o u)
BY ConcatAssociative

\* Taking a part of a concatenation, to its end.
LEMMA CutAfter ==
  ASSUME NEW s \in Seq(Byte), NEW t \in Seq(Byte)
  PROVE  SubSeq(s \o t, Len(s) + 1, Len(s) + Len(t)) = t
<1> DEFINE u == s \o t
           c == SubSeq(u, Len(s) + 1, Len(s) + Len(t))
<1>1. /\ u \in Seq(Byte) /\ Len(s) \in Nat /\ Len(t) \in Nat /\ Len(u) = Len(s) + Len(t)
      /\ \A i \in 1 .. Len(t) : u[Len(s) + i] = t[i]
  BY ByteConcat
<1> HIDE DEF u
<1>2. \A i \in Len(s) + 1 .. Len(s) + Len(t) : u[i] \in Byte
  BY <1>1, ElementOfSeq
<1>3. /\ c \in Seq(Byte)
      /\ Len(c) = IF Len(s) + 1 <= Len(s) + Len(t) THEN Len(t) ELSE 0
      /\ \A i \in 1 .. Len(t) : c[i] = u[Len(s) + i]
  <2>1. Len(s) + 1 \in Int /\ Len(s) + Len(t) \in Int
    BY <1>1
  <2>2. /\ c \in Seq(Byte)
        /\ Len(c) = IF Len(s) + 1 <= Len(s) + Len(t) THEN Len(s) + Len(t) - (Len(s) + 1) + 1 ELSE 0
        /\ \A i \in 1 .. Len(s) + Len(t) - (Len(s) + 1) + 1 : c[i] = u[Len(s) + 1 + i - 1]
    BY <1>2, <2>1, SubSeqProperties
  <2> QED
    BY <1>1, <2>2
<1> HIDE DEF c
<1>4. Len(c) = Len(t)
  BY <1>1, <1>3
<1>5. c = t
  BY <1>1, <1>3, <1>4, SeqEqual
<1> QED
  BY <1>5 DEF c, u

\* Taking a part from within: what stands between s and u.
LEMMA CutOut ==
  ASSUME NEW s \in Seq(Byte), NEW t \in Seq(Byte), NEW u \in Seq(Byte)
  PROVE  SubSeq((s \o t) \o u, Len(s) + 1, Len(s) + Len(t)) = t
<1>1. CASE t = << >>
  <2>1. Len(s) \in Nat /\ Len(t) = 0
    BY <1>1, LenProperties
  <2> QED
    BY <1>1, <2>1, SubSeqEmpty
<1>2. CASE t # << >>
  <2>1. Len(s) \in Nat /\ Len(t) \in Nat \ {0} /\ s \o t \in Seq(Byte) /\ Len(s \o t) = Len(s) + Len(t)
    BY <1>2, ByteConcat, EmptySeq
  <2>2. Len(s) + 1 \in 1 .. Len(s \o t) /\ Len(s) + Len(t) \in 1 .. Len(s \o t)
    BY <2>1
  <2>3. SubSeq((s \o t) \o u, Len(s) + 1, Len(s) + Len(t)) = SubSeq(s \o t, Len(s) + 1, Len(s) + Len(t))
    BY <2>1, <2>2, SubSeqOfConcat1
  <2> QED
    BY <2>3, CutAfter
<1> QED
  BY <1>1, <1>2

\* What follows the four bytes of a header.
LEMMA Body ==
  ASSUME NEW head \in Seq(Byte), Len(head) = 4, NEW x \in Seq(Byte)
  PROVE  SubSeq(head \o x, 5, Len(head \o x)) = x
<1>0. Len(head) + 1 = 5
  OBVIOUS
<1>1. Len(head \o x) = Len(head) + Len(x)
  BY ByteConcat
<1>2. SubSeq(head \o x, Len(head) + 1, Len(head) + Len(x)) = x
  BY CutAfter
<1> QED
  BY <1>0, <1>1, <1>2

\* A command with an extended length field, its data and a two-byte Le.
LEMMA ExtendedForm ==
  ASSUME NEW head \in Seq(Byte), Len(head) = 4, NEW d \in Seq(Byte)
  PROVE  LET n == Len(d)
             lc == <<0, (n \div 256) % 256, n % 256>> IN
         /\ lc \in Seq(Byte)
         /\ BuildApduExt(head, d, <<0>>) = head \o ((lc \o d) \o <<0, 0>>)
<1> DEFINE n == Len(d)
           lc == <<0, (n \div 256) % 256, n % 256>>
<1>1. n \in Nat
  BY LenProperties
<1> HIDE DEF n
<1>2. lc \in Seq(Byte)
  <2>1. (n \div 256) % 256 \in Byte /\ n % 256 \in Byte /\ 0 \in Byte
    BY <1>1 DEF Byte
  <2> QED
    BY <2>1
<1>3. BuildApduExt(head, d, <<0>>) = ((head \o lc) \o d) \o <<0, 0>>
  <2>1. <<0>>[1] \div 256 = 0 /\ <<0>>[1] % 256 = 0 /\ <<0>> # << >>
    OBVIOUS
  <2> QED
    BY <2>1 DEF BuildApduExt, n
<1> HIDE DEF lc
<1>4. <<0, 0>> \in Seq(Byte)
  <2>1. 0 \in Byte
    BY DEF Byte
  <2> QED
    BY <2>1
<1>5. ((head \o lc) \o d) \o <<0, 0>> = head \o ((lc \o d) \o <<0, 0>>)
  <2>1. (head \o lc) \o d = head \o (lc \o d)
    BY <1>2, ConcatAssociative, SMTT(60)
  <2>2. lc \o d \in Seq(Byte)
    BY <1>2, ByteConcat
  <2>3. (head \o (lc \o d)) \o <<0, 0>> = head \o ((lc \o d) \o <<0, 0>>)
    BY <1>4, <2>2, ConcatAssociative, SMTT(60)
  <2> QED
    BY <2>1, <2>3
<1> QED
  BY <1>2, <1>3, <1>5 DEF lc, n

\* An extended command is read with all of its data, or not at all: a length
\* that does not fit Lc never passes a part for the whole (apdu.rs
\* build_apdu_ext).
THEOREM ExtendedCommandRead ==
  ASSUME NEW head \in Seq(Byte), Len(head) = 4, NEW d \in Seq(Byte)
  PROVE  ExtReadBack(head, d)
<1> DEFINE n == Len(d)
           x == (n \div 256) % 256
           y == n % 256
           lc == <<0, x, y>>
           apdu == BuildApduExt(head, d, <<0>>)
           body == (lc \o d) \o <<0, 0>>
<1>0. n \in Nat /\ Len(d) = n
  BY LenProperties
<1>2. lc \in Seq(Byte) /\ apdu = head \o body
  BY ExtendedForm, SMTT(60)
<1>3. /\ Len(lc) = 3 /\ lc[1] = 0 /\ lc[2] = x /\ lc[3] = y
      /\ <<0, 0>> \in Seq(Byte) /\ Len(<<0, 0>>) = 2 /\ <<0, 0>>[1] = 0 /\ <<0, 0>>[2] = 0
  <2>1. 0 \in Byte
    BY DEF Byte
  <2> QED
    BY <2>1
<1> HIDE DEF n
<1>1. n \in Nat /\ x \in 0 .. 255 /\ y \in 0 .. 255
  BY <1>0
<1> HIDE DEF x, y, lc, apdu
<1>4. lc \o d \in Seq(Byte) /\ Len(lc \o d) = 3 + n /\ body \in Seq(Byte)
  <2>1. lc \o d \in Seq(Byte) /\ Len(lc \o d) = Len(lc) + Len(d)
    BY <1>2, ByteConcat
  <2>2. body \in Seq(Byte)
    BY <1>3, <2>1, ByteConcat
  <2> QED
    BY <1>0, <1>3, <2>1, <2>2
<1>5. /\ Len(body) = 5 + n
      /\ body[1] = 0 /\ body[2] = x /\ body[3] = y
      /\ body[4 + n] = 0 /\ body[5 + n] = 0
  <2>1. /\ Len(body) = 5 + n
        /\ \A i \in 1 .. 5 + n : body[i] = IF i <= 3 + n THEN (lc \o d)[i] ELSE <<0, 0>>[i - (3 + n)]
    <3> DEFINE front == lc \o d
               le == <<0, 0>>
    <3>1. front \in Seq(Byte) /\ Len(front) = 3 + n /\ le \in Seq(Byte) /\ Len(le) = 2
      BY <1>3, <1>4
    <3> HIDE DEF front, le
    <3>2. /\ Len(front \o le) = Len(front) + Len(le)
          /\ \A i \in 1 .. Len(front) + Len(le) :
               (front \o le)[i] = IF i <= Len(front) THEN front[i] ELSE le[i - Len(front)]
      BY <3>1, ByteConcat
    <3>3. 3 + n + 2 = 5 + n
      BY <1>1
    <3>4. /\ Len(front \o le) = 5 + n
          /\ \A i \in 1 .. 5 + n : (front \o le)[i] = IF i <= 3 + n THEN front[i] ELSE le[i - (3 + n)]
      BY <3>1, <3>2, <3>3
    <3> QED
      BY <3>4 DEF front, le
  <2>2. \A i \in 1 .. 3 : (lc \o d)[i] = lc[i]
    <3>1. \A i \in 1 .. Len(lc) + Len(d) : (lc \o d)[i] = IF i <= Len(lc) THEN lc[i] ELSE d[i - Len(lc)]
      BY <1>2, ByteConcat
    <3> SUFFICES ASSUME NEW i \in 1 .. 3
                 PROVE  (lc \o d)[i] = lc[i]
      OBVIOUS
    <3>2. i \in 1 .. Len(lc) + Len(d) /\ i <= Len(lc)
      BY <1>0, <1>3
    <3> QED
      BY <3>1, <3>2
  <2> HIDE DEF body
  <2>3. body[1] = lc[1] /\ body[2] = lc[2] /\ body[3] = lc[3]
    <3>1. \A i \in 1 .. 3 : i \in 1 .. 5 + n /\ i <= 3 + n
      BY <1>1
    <3>2. \A i \in 1 .. 3 : body[i] = lc[i]
      BY <2>1, <2>2, <3>1
    <3> QED
      BY <3>2
  <2>4. body[4 + n] = <<0, 0>>[1] /\ body[5 + n] = <<0, 0>>[2]
    BY <1>1, <2>1
  <2> QED
    BY <1>3, <2>1, <2>3, <2>4
<1>6. SubSeq(apdu, 5, Len(apdu)) = body
  BY <1>2, <1>4, Body
<1>7. SubSeq(body, 4, 3 + n) = d
  <2>1. SubSeq((lc \o d) \o <<0, 0>>, Len(lc) + 1, Len(lc) + Len(d)) = d
    BY <1>2, <1>3, CutOut
  <2> QED
    <3>1. Len(lc) + 1 = 4 /\ Len(lc) + Len(d) = 3 + n
      BY <1>0, <1>3
    <3> QED
      BY <2>1, <3>1
<1> HIDE DEF body
<1> DEFINE long == 256 * x + y
<1>8. long = n % 65536 /\ long \in Nat
  BY <1>1 DEF x, y
<1>9. long = n <=> n < 65536
  BY <1>1, <1>8
<1>10. 256 * body[2] + body[3] = long
  BY <1>1, <1>5
<1>11. CardReads(apdu) = LongCommand(body, long)
  <2>1. Len(body) # 0 /\ Len(body) # 1 /\ ~(Len(body) < 3) /\ Len(body) # 3 /\ ~(body[1] # 0)
    BY <1>1, <1>5
  <2>2. BodyReads(body) = LongCommand(body, 256 * body[2] + body[3])
    BY <2>1 DEF BodyReads
  <2> QED
    BY <1>6, <1>10, <2>2 DEF CardReads
<1> HIDE DEF long
<1>12. CASE 0 < n /\ n < 65536
  <2>1. long = n /\ n # 0 /\ 5 + n # 3 + n
    BY <1>1, <1>9, <1>12
  <2>2. 256 * body[4 + n] + body[5 + n] = 0 /\ Len(body) - 1 = 4 + n
    BY <1>1, <1>5
  <2>3. OrMost(256 * body[Len(body) - 1] + body[Len(body)], 65536) = 65536
    BY <1>5, <2>2 DEF OrMost
  <2>4. LongCommand(body, n) = Command(SubSeq(body, 4, 3 + n), 65536)
    BY <1>5, <2>1, <2>3 DEF LongCommand
  <2>5. CardReads(apdu) = Command(d, 65536)
    <3>1. long = n
      BY <2>1
    <3>2. CardReads(apdu) = LongCommand(body, n)
      BY <1>11, <3>1
    <3> QED
      <4> DEFINE part == SubSeq(body, 4, 3 + n)
      <4>1. part = d /\ LongCommand(body, n) = Command(part, 65536)
        BY <1>7, <2>4
      <4> HIDE DEF part
      <4> QED
        BY <3>2, <4>1
  <2>6. 0 < Len(d) /\ Len(d) < 65536
    BY <1>0, <1>12
  <2> QED
    BY <2>5, <2>6 DEF ExtReadBack, apdu
<1>13. CASE ~(0 < n /\ n < 65536)
  <2>1. long = 0 \/ (5 + n # 3 + long /\ 5 + n # 5 + long)
    BY <1>1, <1>8, <1>13
  <2>2. LongCommand(body, long) = {}
    BY <1>5, <2>1 DEF LongCommand
  <2>3. ~(0 < Len(d) /\ Len(d) < 65536)
    BY <1>0, <1>13
  <2> QED
    BY <1>11, <2>2, <2>3 DEF ExtReadBack, apdu
<1> QED
  BY <1>12, <1>13

\* A short command with a data field, and no Le or one of 00.
LEMMA ShortForm ==
  ASSUME NEW head \in Seq(Byte), Len(head) = 4, NEW d \in Seq(Byte), Len(d) <= 255,
         NEW le \in {<< >>, << 0 >>}
  PROVE  LET lc   == <<Len(d)>>
             body == (lc \o d) \o le IN
         /\ lc \in Seq(Byte) /\ le \in Seq(Byte) /\ body \in Seq(Byte)
         /\ Len(body) = 1 + Len(d) + Len(le)
         /\ body[1] = Len(d) /\ (le = <<0>> => body[2 + Len(d)] = 0)
         /\ UNION {CardReads(a) : a \in BuildApdu(head, <<d>>, le)} = BodyReads(body)
<1> DEFINE n == Len(d)
           lc == <<n>>
           body == (lc \o d) \o le
           apdu == (head \o (lc \o d)) \o le
<1>1. n \in Nat /\ n <= 255 /\ Len(d) = n
  BY LenProperties
<1>2. ~(Len(<<d>>[1]) > 255) /\ <<d>> # << >> /\ <<d>>[1] = d
  BY <1>1
<1>3. BuildApdu(head, <<d>>, le) = {apdu}
  BY <1>2 DEF BuildApdu
<1> HIDE DEF n
<1>4. lc \in Seq(Byte) /\ Len(lc) = 1 /\ lc[1] = n /\ le \in Seq(Byte) /\ Len(le) \in {0, 1}
  <2>1. n \in Byte /\ 0 \in Byte
    BY <1>1 DEF Byte
  <2>2. lc \in Seq(Byte) /\ Len(lc) = 1 /\ lc[1] = n
    BY <2>1
  <2>3. CASE le = << >>
    BY <2>2, <2>3
  <2>4. CASE le = <<0>>
    <3>1. le \in Seq(Byte) /\ Len(le) = 1
      BY <2>1, <2>4
    <3> QED
      BY <2>2, <3>1
  <2> QED
    BY <2>3, <2>4
<1> HIDE DEF lc
<1>5. lc \o d \in Seq(Byte) /\ Len(lc \o d) = 1 + n /\ (lc \o d)[1] = n
  <2>1. /\ lc \o d \in Seq(Byte) /\ Len(lc \o d) = Len(lc) + Len(d)
        /\ \A i \in 1 .. Len(lc) + Len(d) : (lc \o d)[i] = IF i <= Len(lc) THEN lc[i] ELSE d[i - Len(lc)]
    BY <1>4, ByteConcat
  <2>2. 1 \in 1 .. Len(lc) + Len(d) /\ 1 <= Len(lc)
    BY <1>1, <1>4
  <2>3. (lc \o d)[1] = lc[1]
    BY <2>1, <2>2
  <2> QED
    BY <1>1, <1>4, <2>1, <2>3
<1>6. apdu = head \o body /\ body \in Seq(Byte)
  <2> DEFINE front == lc \o d
  <2>1. front \in Seq(Byte)
    BY <1>5
  <2> HIDE DEF front
  <2>2. (head \o front) \o le = head \o (front \o le)
    BY <1>4, <2>1, ByteAssociative, SMTT(60)
  <2>3. front \o le \in Seq(Byte)
    BY <1>4, <2>1, ByteConcat
  <2> QED
    BY <2>2, <2>3 DEF front
<1>7. /\ Len(body) = 1 + n + Len(le)
      /\ body[1] = n /\ (le = <<0>> => body[2 + n] = 0)
  <2> DEFINE front == lc \o d
  <2>1. front \in Seq(Byte) /\ Len(front) = 1 + n /\ front[1] = n
    BY <1>5
  <2> HIDE DEF front
  <2>2. /\ Len(front \o le) = Len(front) + Len(le)
        /\ \A i \in 1 .. Len(front) + Len(le) :
             (front \o le)[i] = IF i <= Len(front) THEN front[i] ELSE le[i - Len(front)]
    BY <1>4, <2>1, ByteConcat
  <2>3. 1 \in 1 .. Len(front) + Len(le) /\ 1 <= Len(front)
    BY <1>1, <1>4, <2>1
  <2>4. (front \o le)[1] = n
    BY <2>1, <2>2, <2>3
  <2>5. ASSUME le = << 0 >>
        PROVE  (front \o le)[2 + n] = 0
    <3>1. Len(le) = 1 /\ le[1] = 0
      BY <2>5
    <3>2. 2 + n \in 1 .. Len(front) + Len(le) /\ ~(2 + n <= Len(front)) /\ 2 + n - Len(front) = 1
      BY <1>1, <2>1, <3>1
    <3> DEFINE i == 2 + n
    <3>3. i \in 1 .. Len(front) + Len(le) /\ ~(i <= Len(front)) /\ i - Len(front) = 1
      BY <1>1, <2>1, <3>2
    <3> HIDE DEF i
    <3>4. (front \o le)[i] = le[i - Len(front)]
      BY <2>2, <3>3
    <3>5. (front \o le)[i] = 0
      BY <3>1, <3>3, <3>4
    <3> QED
      BY <3>5, Zenon DEF i
  <2>6. Len(front \o le) = 1 + n + Len(le)
    BY <2>1, <2>2
  <2> QED
    BY <2>4, <2>5, <2>6 DEF front
<1> HIDE DEF body, apdu
<1>8. SubSeq(apdu, 5, Len(apdu)) = body
  BY <1>6, Body
<1>9. UNION {CardReads(a) : a \in BuildApdu(head, <<d>>, le)} = BodyReads(body)
  BY <1>3, <1>8 DEF CardReads
<1> QED
  BY <1>4, <1>6, <1>7, <1>9 DEF body, lc, n

\* A short command is read with all of its data, or refused before it is sent;
\* only an empty data field is taken for an Le (apdu.rs build_apdu).
THEOREM ShortCommandRead ==
  ASSUME NEW head \in Seq(Byte), Len(head) = 4, NEW d \in Seq(Byte)
  PROVE  ShortReadBack(head, d)
<1> DEFINE n == Len(d)
           Read(le) == UNION {CardReads(a) : a \in BuildApdu(head, <<d>>, le)}
<1>1. n \in Nat
  BY LenProperties
<1>2. CASE n > 255
  <2>1. \A le : BuildApdu(head, <<d>>, le) = {}
    BY <1>2 DEF BuildApdu
  <2>2. Read(<< >>) = {} /\ Read(<<0>>) = {}
    BY <2>1
  <2> QED
    BY <1>2, <2>2 DEF ShortReadBack
<1>3. CASE n <= 255
  <2> DEFINE lc == <<n>>
             b0 == (lc \o d) \o << >>
             b1 == (lc \o d) \o <<0>>
  <2>1. /\ Len(b0) = 1 + n + Len(<< >>) /\ b0[1] = n
        /\ Read(<< >>) = BodyReads(b0)
        /\ lc \in Seq(Byte)
    BY <1>3, ShortForm
  <2>2. /\ Len(b1) = 1 + n + Len(<<0>>) /\ b1[1] = n /\ b1[2 + n] = 0
        /\ Read(<<0>>) = BodyReads(b1)
        /\ << 0 >> \in Seq(Byte)
    BY <1>3, ShortForm
  <2>3. << >> \in Seq(Byte) /\ Len(<< >>) = 0 /\ Len(<<0>>) = 1 /\ Len(lc) = 1
    OBVIOUS
  <2>4. SubSeq(b0, Len(lc) + 1, Len(lc) + Len(d)) = d /\ SubSeq(b1, Len(lc) + 1, Len(lc) + Len(d)) = d
    BY <2>1, <2>2, <2>3, CutOut
  <2> HIDE DEF n, lc, b0, b1, Read
  <2>5. Len(d) = n
    BY DEF n
  <2>6. Len(lc) + 1 = 2 /\ Len(lc) + Len(d) = 1 + n
    BY <2>3, <2>5
  <2>7. Len(b0) = 1 + n /\ Len(b1) = 2 + n
    BY <1>1, <2>1, <2>2, <2>3
  <2>8. SubSeq(b0, 2, 1 + n) = d /\ SubSeq(b1, 2, 1 + n) = d
    BY <2>4, <2>6
  <2>9. OrMost(0, 256) = 256
    BY DEF OrMost
  <2>10. CASE n = 0
    <3>1. BodyReads(b0) = Command(<< >>, 256)
      <4>1. Len(b0) = 1 /\ b0[1] = 0
        BY <2>1, <2>7, <2>10
      <4> QED
        BY <2>9, <4>1 DEF BodyReads
    <3>2. BodyReads(b1) = {}
      <4>1. Len(b1) = 2 /\ b1[1] = 0
        BY <2>2, <2>7, <2>10
      <4> QED
        BY <4>1 DEF BodyReads
    <3>3. Read(<< >>) = Command(<< >>, 256) /\ Read(<<0>>) = {}
      BY <2>1, <2>2, <3>1, <3>2
    <3> QED
      BY <2>10, <3>3 DEF ShortReadBack, Read, n
  <2>11. CASE n # 0
    <3>1. BodyReads(b0) = Command(d, 0)
      <4>1. BodyReads(b0) = ShortCommand(b0, n)
        BY <1>1, <2>1, <2>7, <2>11 DEF BodyReads
      <4>2. ShortCommand(b0, n) = Command(SubSeq(b0, 2, 1 + n), 0)
        BY <2>7 DEF ShortCommand
      <4> QED
        BY <2>8, <4>1, <4>2
    <3>2. BodyReads(b1) = Command(d, 256)
      <4>1. BodyReads(b1) = ShortCommand(b1, n)
        BY <1>1, <2>2, <2>7, <2>11 DEF BodyReads
      <4>2. ShortCommand(b1, n) = Command(SubSeq(b1, 2, 1 + n), OrMost(b1[Len(b1)], 256))
        BY <1>1, <2>7 DEF ShortCommand
      <4>3. b1[Len(b1)] = 0
        BY <2>2, <2>7
      <4> QED
        BY <2>8, <2>9, <4>1, <4>2, <4>3
    <3>3. Read(<< >>) = Command(d, 0) /\ Read(<<0>>) = Command(d, 256)
      BY <2>1, <2>2, <3>1, <3>2
    <3>4. ~(n > 255)
      BY <1>1, <1>3
    <3> QED
      BY <2>11, <3>3, <3>4 DEF ShortReadBack, Read, n
  <2> QED
    BY <2>10, <2>11
<1> QED
  BY <1>1, <1>2, <1>3

-----------------------------------------------------------------------------
(* BER lengths.                                                             *)

\* The first k bytes after place i, as a number.
Digits(data, i, k) ==
  CASE k = 1 -> data[i + 1]
    [] k = 2 -> 256 * data[i + 1] + data[i + 2]
    [] k = 3 -> 65536 * data[i + 1] + 256 * data[i + 2] + data[i + 3]
    [] k = 4 -> 16777216 * data[i + 1] + 65536 * data[i + 2] + 256 * data[i + 3] + data[i + 4]

\* read_ber_len, with its loop unfolded.
LEMMA LoopUnfolded ==
  ASSUME NEW data \in Seq(Byte), NEW i \in Nat \ {0}
  PROVE  /\ i > Len(data) => ReadBerLen(data, i) = {}
         /\ i <= Len(data) /\ data[i] < 128 => ReadBerLen(data, i) = {<<data[i], i + 1>>}
         /\ i <= Len(data) /\ data[i] >= 128 =>
              \/ ReadBerLen(data, i) = {}
              \/ \E k \in 1 .. 4 :
                   /\ data[i] = 128 + k /\ i + k <= Len(data)
                   /\ ReadBerLen(data, i) = {<<Digits(data, i, k), i + k + 1>>}
         /\ \A k \in 1 .. 4 :
              i + k <= Len(data) /\ data[i] = 128 + k =>
                ReadBerLen(data, i) = {<<Digits(data, i, k), i + k + 1>>}
<1> DEFINE F(f) == [k \in 0 .. 4 |-> IF k = 0 THEN 0 ELSE 256 * f[k - 1] + data[i + k]]
           Value == CHOOSE f : f = F(f)
           g1 == 256 * 0 + data[i + 1]
           g2 == 256 * g1 + data[i + 2]
           g3 == 256 * g2 + data[i + 3]
           g4 == 256 * g3 + data[i + 4]
           g == [k \in 0 .. 4 |-> CASE k = 0 -> 0 [] k = 1 -> g1 [] k = 2 -> g2 [] k = 3 -> g3 [] OTHER -> g4]
           num == data[i] - 128
           Ks == {num} \cap {n \in 1 .. 4 : i + n <= Len(data)}
<1>1. ReadBerLen(data, i) =
        IF i > Len(data) THEN {}
        ELSE IF data[i] < 128 THEN {<<data[i], i + 1>>}
        ELSE {<<Value[k], i + k + 1>> : k \in Ks}
  BY DEF ReadBerLen
<1>2. g = F(g)
  <2>1. g[0] = 0 /\ g[1] = g1 /\ g[2] = g2 /\ g[3] = g3 /\ g[4] = g4
    <3> HIDE DEF g1, g2, g3, g4
    <3> QED
      OBVIOUS
  <2>2. g1 = 256 * g[0] + data[i + 1]
    BY <2>1
  <2>3. g2 = 256 * g[1] + data[i + 2]
    <3> HIDE DEF g1, g
    <3> QED
      BY <2>1
  <2>4. g3 = 256 * g[2] + data[i + 3]
    <3> HIDE DEF g2, g
    <3> QED
      BY <2>1
  <2>5. g4 = 256 * g[3] + data[i + 4]
    <3> HIDE DEF g3, g
    <3> QED
      BY <2>1
  <2>6. \A k \in 0 .. 4 : g[k] = F(g)[k]
    <3> HIDE DEF g1, g2, g3, g4, g
    <3> TAKE k \in 0 .. 4
    <3>1. F(g)[k] = IF k = 0 THEN 0 ELSE 256 * g[k - 1] + data[i + k]
      OBVIOUS
    <3> HIDE DEF F
    <3>2. CASE k = 0
      BY <3>1, <3>2, <2>1
    <3>3. CASE k = 1
      BY <3>1, <3>3, <2>1, <2>2
    <3>4. CASE k = 2
      BY <3>1, <3>4, <2>1, <2>3
    <3>5. CASE k = 3
      BY <3>1, <3>5, <2>1, <2>4
    <3>6. CASE k = 4
      BY <3>1, <3>6, <2>1, <2>5
    <3> QED
      BY <3>2, <3>3, <3>4, <3>5, <3>6
  <2>7. g = [k \in 0 .. 4 |-> g[k]]
    <3> HIDE DEF g1, g2, g3, g4
    <3> QED
      OBVIOUS
  <2> HIDE DEF g
  <2> QED
    BY <2>6, <2>7
<1>3. Value = F(Value)
  <2> HIDE DEF F, g
  <2> QED
    BY <1>2
<1> HIDE DEF Value
<1>4. /\ Value[0] = 0
      /\ Value[1] = 256 * Value[0] + data[i + 1]
      /\ Value[2] = 256 * Value[1] + data[i + 2]
      /\ Value[3] = 256 * Value[2] + data[i + 3]
      /\ Value[4] = 256 * Value[3] + data[i + 4]
  BY <1>3
<1>5. \A n \in 1 .. Len(data) : data[n] \in Nat
  <2>1. \A b \in Byte : b \in Nat
    BY DEF Byte
  <2> QED
    BY <2>1, ElementOfSeq
<1>6. Len(data) \in Nat
  OBVIOUS
<1>7. \A k \in 1 .. 4 : i + k <= Len(data) => Value[k] = Digits(data, i, k)
  <2> TAKE k \in 1 .. 4
  <2> HAVE i + k <= Len(data)
  <2>1. \A n \in 1 .. k : data[i + n] \in Nat
    BY <1>5, <1>6
  <2>2. CASE k = 1
    BY <1>4, <2>1, <2>2 DEF Digits
  <2>3. CASE k = 2
    BY <1>4, <2>1, <2>3 DEF Digits
  <2>4. CASE k = 3
    BY <1>4, <2>1, <2>4, SMTT(60) DEF Digits
  <2>5. CASE k = 4
    <3> DEFINE a == data[i + 1]
               b == data[i + 2]
               c == data[i + 3]
               d == data[i + 4]
    <3>1. a \in Nat /\ b \in Nat /\ c \in Nat /\ d \in Nat
      BY <2>1, <2>5
    <3>2. /\ Value[1] = 256 * 0 + a /\ Value[2] = 256 * Value[1] + b
          /\ Value[3] = 256 * Value[2] + c /\ Value[4] = 256 * Value[3] + d
      BY <1>4
    <3>3. Digits(data, i, k) = 16777216 * a + 65536 * b + 256 * c + d
      BY <2>5 DEF Digits
    <3> HIDE DEF a, b, c, d
    <3>4. Value[1] = a
      BY <3>1, <3>2
    <3>5. Value[2] = 256 * a + b
      BY <3>1, <3>2, <3>4
    <3>6. Value[3] = 65536 * a + 256 * b + c
      BY <3>1, <3>2, <3>5
    <3> QED
      BY <3>1, <3>2, <3>3, <3>6, <2>5
  <2> QED
    BY <2>2, <2>3, <2>4, <2>5
<1>8. i <= Len(data) => data[i] \in Nat
  BY <1>5, <1>6
<1>9. ASSUME NEW k \in 1 .. 4, i + k <= Len(data), data[i] = 128 + k
      PROVE  ReadBerLen(data, i) = {<<Digits(data, i, k), i + k + 1>>}
  <2>1. ~(i > Len(data)) /\ ~(data[i] < 128) /\ Ks = {k}
    BY <1>6, <1>9
  <2>2. ReadBerLen(data, i) = {<<Value[k], i + k + 1>>}
    <3> HIDE DEF Ks
    <3> QED
      BY <1>1, <2>1
  <2> QED
    BY <1>7, <1>9, <2>2
<1>10. ASSUME i <= Len(data), data[i] >= 128
       PROVE  \/ ReadBerLen(data, i) = {}
              \/ \E k \in 1 .. 4 : data[i] = 128 + k /\ i + k <= Len(data)
  <2>1. Ks = {} \/ \E k \in 1 .. 4 : data[i] = 128 + k /\ i + k <= Len(data)
    BY <1>6, <1>8, <1>10
  <2>2. ~(i > Len(data)) /\ ~(data[i] < 128)
    BY <1>6, <1>8, <1>10
  <2> HIDE DEF Ks
  <2> QED
    BY <1>1, <2>1, <2>2
<1>11. i > Len(data) => ReadBerLen(data, i) = {}
  BY <1>1
<1>12. i <= Len(data) /\ data[i] < 128 => ReadBerLen(data, i) = {<<data[i], i + 1>>}
  BY <1>1, <1>6
<1> HIDE DEF Ks, F
<1> QED
  BY <1>9, <1>10, <1>11, <1>12

\* Division with a remainder.
LEMMA Divided ==
  ASSUME NEW n \in Nat, NEW base \in Nat, base > 0
  PROVE  n \div base \in Nat /\ n % base \in 0 .. base - 1 /\ n = base * (n \div base) + (n % base)
<1>1. n % base \in 0 .. base - 1 /\ n = base * (n \div base) + (n % base) /\ n \div base \in Int
  OBVIOUS
<1>2. n \div base \in Nat
  OBVIOUS
<1> QED
  BY <1>1, <1>2

\* A number without its last digit in base 256, and that digit.
HighBytes(n) == n \div 256
LowByte(n) == n % 256

\* What a number is, by its last digit and the others.
LEMMA LastDigit ==
  ASSUME NEW n \in Nat
  PROVE  /\ HighBytes(n) \in Nat /\ LowByte(n) \in 0 .. 255 /\ n = 256 * HighBytes(n) + LowByte(n)
         /\ n < 256 => LowByte(n) = n
<1>1. n = 256 * (n \div 256) + (n % 256) /\ n \div 256 \in Nat /\ n % 256 \in 0 .. 255
  BY Divided, SMT
<1>2. n < 256 => n % 256 = n
  BY SMT
<1> QED
  BY <1>1, <1>2 DEF HighBytes, LowByte

\* Division by a power of 256 drops that many digits.
LEMMA Shifts ==
  ASSUME NEW n \in Nat
  PROVE  /\ n \div 1 = n /\ n \div 256 = HighBytes(n) /\ n \div 65536 = HighBytes(HighBytes(n))
         /\ n \div 16777216 = HighBytes(HighBytes(HighBytes(n)))
<1>1. n \div 1 = n
  BY SMT
<1>2. n \div 65536 = (n \div 256) \div 256
  BY SMT
<1>3. n \div 16777216 = (n \div 65536) \div 256
  BY SMT
<1>4. n \div 256 = HighBytes(n)
  BY DEF HighBytes
<1>5. n \div 65536 = HighBytes(HighBytes(n))
  BY <1>2 DEF HighBytes
<1>6. n \div 16777216 = HighBytes(n \div 65536)
  BY <1>3 DEF HighBytes
<1>7. n \div 16777216 = HighBytes(HighBytes(HighBytes(n)))
  BY <1>5, <1>6
<1> QED
  BY <1>1, <1>4, <1>5, <1>7

\* The digits of a number, and what is left of it.
LEMMA LastDigits ==
  ASSUME NEW n \in Nat
  PROVE  LET r == HighBytes(n)
             q == HighBytes(r)
             p == HighBytes(q) IN
         /\ n = 256 * r + LowByte(n) /\ r \in Nat /\ LowByte(n) \in 0 .. 255 /\ (n < 256 => LowByte(n) = n)
         /\ r = 256 * q + LowByte(r) /\ q \in Nat /\ LowByte(r) \in 0 .. 255 /\ (r < 256 => LowByte(r) = r)
         /\ q = 256 * p + LowByte(q) /\ p \in Nat /\ LowByte(q) \in 0 .. 255 /\ (q < 256 => LowByte(q) = q)
         /\ p < 256 => LowByte(p) = p
<1> DEFINE r == HighBytes(n)
           q == HighBytes(r)
           p == HighBytes(q)
<1>1. n = 256 * r + LowByte(n) /\ r \in Nat /\ LowByte(n) \in 0 .. 255 /\ (n < 256 => LowByte(n) = n)
  BY LastDigit
<1>2. r = 256 * q + LowByte(r) /\ q \in Nat /\ LowByte(r) \in 0 .. 255 /\ (r < 256 => LowByte(r) = r)
  <2> HIDE DEF r
  <2> QED
    BY <1>1, LastDigit, ZenonT(60)
<1>3. q = 256 * p + LowByte(q) /\ p \in Nat /\ LowByte(q) \in 0 .. 255 /\ (q < 256 => LowByte(q) = q)
  <2> HIDE DEF q
  <2> QED
    BY <1>2, LastDigit, ZenonT(60)
<1>4. p < 256 => LowByte(p) = p
  <2> HIDE DEF p
  <2> QED
    BY <1>3, LastDigit
<1> QED
  BY <1>1, <1>2, <1>3, <1>4

\* A number and its four last digits.
Number(a, b, c, d) == 16777216 * a + 65536 * b + 256 * c + d

\* The digits of a two-byte number.
LEMMA TwoPlaces ==
  ASSUME NEW n \in Nat, NEW c \in Byte, NEW d \in Byte
  PROVE  HighBytes(n) < 256 /\ c = LowByte(HighBytes(n)) /\ d = LowByte(n) <=> n = Number(0, 0, c, d)
<1> DEFINE r == HighBytes(n)
           u == LowByte(n)
           v == LowByte(r)
<1>1. n = 256 * r + u /\ r \in Nat /\ u \in 0 .. 255 /\ v \in 0 .. 255 /\ (r < 256 => v = r)
  BY LastDigits
<1> HIDE DEF r, u, v
<1>2. r < 256 /\ c = v /\ d = u <=> n = Number(0, 0, c, d)
  BY <1>1, SMT DEF Number, Byte
<1> QED
  BY <1>2 DEF r, u, v

\* The digits of a three-byte number.
LEMMA ThreePlaces ==
  ASSUME NEW n \in Nat, NEW b \in Byte, NEW c \in Byte, NEW d \in Byte
  PROVE  /\ HighBytes(HighBytes(n)) < 256 /\ b = LowByte(HighBytes(HighBytes(n)))
         /\ c = LowByte(HighBytes(n)) /\ d = LowByte(n)
         <=> n = Number(0, b, c, d)
<1> DEFINE r == HighBytes(n)
           q == HighBytes(r)
           u == LowByte(n)
           v == LowByte(r)
           w == LowByte(q)
<1>1. /\ n = 256 * r + u /\ r \in Nat /\ u \in 0 .. 255
      /\ r = 256 * q + v /\ q \in Nat /\ v \in 0 .. 255 /\ w \in 0 .. 255 /\ (q < 256 => w = q)
  BY LastDigits
<1> HIDE DEF r, q, u, v, w
<1>2. q < 256 /\ b = w /\ c = v /\ d = u <=> n = Number(0, b, c, d)
  BY <1>1, SMT DEF Number, Byte
<1> QED
  BY <1>2, SMT DEF r, q, u, v, w

\* The digits of a four-byte number.
LEMMA FourPlaces ==
  ASSUME NEW n \in Nat,
         NEW a \in Byte, NEW b \in Byte, NEW c \in Byte, NEW d \in Byte
  PROVE  /\ HighBytes(HighBytes(HighBytes(n))) < 256
         /\ a = LowByte(HighBytes(HighBytes(HighBytes(n)))) /\ b = LowByte(HighBytes(HighBytes(n)))
         /\ c = LowByte(HighBytes(n)) /\ d = LowByte(n)
         <=> n = Number(a, b, c, d)
<1> DEFINE r == HighBytes(n)
           q == HighBytes(r)
           p == HighBytes(q)
           u == LowByte(n)
           v == LowByte(r)
           w == LowByte(q)
           x == LowByte(p)
<1>1. /\ n = 256 * r + u /\ r \in Nat /\ u \in 0 .. 255
      /\ r = 256 * q + v /\ q \in Nat /\ v \in 0 .. 255
      /\ q = 256 * p + w /\ p \in Nat /\ w \in 0 .. 255 /\ (p < 256 => x = p)
  BY LastDigits, SMT
<1> HIDE DEF r, q, p, u, v, w, x
<1>2. p < 256 /\ a = p /\ b = w /\ c = v /\ d = u <=> n = Number(a, b, c, d)
  BY <1>1, SMT DEF Number, Byte
<1>3. p < 256 /\ a = x <=> p < 256 /\ a = p
  BY <1>1, SMT DEF Byte
<1>4. p < 256 /\ a = x /\ b = w /\ c = v /\ d = u <=> n = Number(a, b, c, d)
  BY <1>2, <1>3, SMT
<1> QED
  BY <1>4, SMT DEF r, q, p, u, v, w, x

\* A length field of more than one byte gives its number in base 256.
LEMMA LongField ==
  ASSUME NEW k \in 1 .. 4, NEW f \in Seq(Byte), Len(f) = k + 1, NEW n \in Nat
  PROVE  LengthField(f, n) <=> f[1] = 128 + k /\ n = Digits(f, 1, k)
<1>1. \A j \in 1 .. k + 1 : f[j] \in Byte
  BY ElementOfSeq
<1>2. f # <<n>>
  <2>1. Len(<<n>>) = 1
    BY SMT
  <2> QED
    BY <2>1, SMT
<1>3. LengthField(f, n) <=> /\ f[1] = 128 + k /\ n \div Weight[k] < 256
                            /\ \A j \in 2 .. k + 1 : f[j] = (n \div Weight[k + 2 - j]) % 256
  <2>1. Len(f) \in 2 .. 5 /\ 127 + Len(f) = 128 + k /\ Len(f) - 1 = k
    BY SMT
  <2>2. \A j \in 2 .. k + 1 : Len(f) - j + 1 = k + 2 - j
    BY SMT
  <2> QED
    BY <1>2, <2>1, <2>2, SMT DEF LengthField
<1>4. Weight[1] = 1 /\ Weight[2] = 256 /\ Weight[3] = 65536 /\ Weight[4] = 16777216
  BY SMT DEF Weight
<1>5. /\ n \div 1 = n /\ n \div 256 = HighBytes(n) /\ n \div 65536 = HighBytes(HighBytes(n))
      /\ n \div 16777216 = HighBytes(HighBytes(HighBytes(n)))
  BY Shifts, SMT
<1> DEFINE D(i) == (n \div Weight[i]) % 256
<1>6. /\ D(1) = LowByte(n) /\ D(2) = LowByte(HighBytes(n)) /\ D(3) = LowByte(HighBytes(HighBytes(n)))
      /\ D(4) = LowByte(HighBytes(HighBytes(HighBytes(n))))
  <2>1. \A x : x % 256 = LowByte(x)
    BY SMT DEF LowByte
  <2>2. Weight[1] = 1 /\ Weight[2] = 256 /\ Weight[3] = 65536 /\ Weight[4] = 16777216
    BY <1>4, SMT
  <2>3. \A i : D(i) = LowByte(n \div Weight[i])
    BY SMT DEF LowByte
  <2> HIDE DEF D
  <2> QED
    BY <1>5, <2>2, <2>3, SMT
<1>7. LengthField(f, n) <=> /\ f[1] = 128 + k /\ n \div Weight[k] < 256
                            /\ \A j \in 2 .. k + 1 : f[j] = D(k + 2 - j)
  BY <1>3, SMT
<1> HIDE DEF D
<1> DEFINE s == f[2]
           t == f[3]
           u == f[4]
           w == f[5]
<1>8. CASE k = 1
  <2>1. LengthField(f, n) <=> f[1] = 128 + k /\ n < 256 /\ s = D(1)
    BY <1>4, <1>5, <1>7, <1>8, SMT
  <2>2. Digits(f, 1, k) = s /\ s \in Byte
    BY <1>1, <1>8, SMT DEF Digits
  <2> HIDE DEF s
  <2>3. n < 256 /\ s = LowByte(n) <=> n = s
    <3> DEFINE low == LowByte(n)
    <3>1. low \in 0 .. 255 /\ (n < 256 => low = n)
      BY LastDigit
    <3> HIDE DEF low
    <3>2. n < 256 /\ s = low <=> n = s
      BY <2>2, <3>1, SMT DEF Byte
    <3> QED
      BY <3>2 DEF low
  <2> QED
    BY <1>6, <2>1, <2>2, <2>3, SMT
<1>9. CASE k = 2
  <2>1. LengthField(f, n) <=> f[1] = 128 + k /\ HighBytes(n) < 256 /\ s = D(2) /\ t = D(1)
    BY <1>4, <1>5, <1>7, <1>9, SMT
  <2>2. Digits(f, 1, k) = 256 * s + t
    BY <1>1, <1>9, SMT DEF Digits
  <2>4. s \in Byte /\ t \in Byte
    BY <1>1, <1>9
  <2> HIDE DEF s, t
  <2>5. Digits(f, 1, k) = Number(0, 0, s, t)
    BY <2>2, <2>4, SMT DEF Number, Byte
  <2>3. HighBytes(n) < 256 /\ s = LowByte(HighBytes(n)) /\ t = LowByte(n) <=> n = Number(0, 0, s, t)
    BY <2>4, TwoPlaces
  <2> QED
    BY <1>6, <2>1, <2>5, <2>3, SMT
<1>10. CASE k = 3
  <2>1. LengthField(f, n) <=> /\ f[1] = 128 + k /\ HighBytes(HighBytes(n)) < 256
                              /\ s = D(3) /\ t = D(2) /\ u = D(1)
    BY <1>4, <1>5, <1>7, <1>10, SMT
  <2>2. Digits(f, 1, k) = 65536 * s + 256 * t + u
    BY <1>1, <1>10, SMT DEF Digits
  <2>4. s \in Byte /\ t \in Byte /\ u \in Byte
    BY <1>1, <1>10
  <2> HIDE DEF s, t, u
  <2>5. Digits(f, 1, k) = Number(0, s, t, u)
    BY <2>2, <2>4, SMT DEF Number, Byte
  <2>3. /\ HighBytes(HighBytes(n)) < 256 /\ s = LowByte(HighBytes(HighBytes(n)))
        /\ t = LowByte(HighBytes(n)) /\ u = LowByte(n)
        <=> n = Number(0, s, t, u)
    BY <2>4, ThreePlaces
  <2> QED
    BY <1>6, <2>1, <2>5, <2>3, SMT
<1>11. CASE k = 4
  <2>1. LengthField(f, n) <=> /\ f[1] = 128 + k /\ HighBytes(HighBytes(HighBytes(n))) < 256
                              /\ s = D(4) /\ t = D(3) /\ u = D(2) /\ w = D(1)
    BY <1>4, <1>5, <1>7, <1>11, SMT
  <2>2. Digits(f, 1, k) = 16777216 * s + 65536 * t + 256 * u + w
    BY <1>1, <1>11, SMT DEF Digits
  <2>4. s \in Byte /\ t \in Byte /\ u \in Byte /\ w \in Byte
    BY <1>1, <1>11
  <2> HIDE DEF s, t, u, w
  <2>5. Digits(f, 1, k) = Number(s, t, u, w)
    BY <2>2, <2>4, SMT DEF Number, Byte
  <2>3. /\ HighBytes(HighBytes(HighBytes(n))) < 256
        /\ s = LowByte(HighBytes(HighBytes(HighBytes(n)))) /\ t = LowByte(HighBytes(HighBytes(n)))
        /\ u = LowByte(HighBytes(n)) /\ w = LowByte(n)
        <=> n = Number(s, t, u, w)
    BY <2>4, FourPlaces
  <2> QED
    BY <1>6, <2>1, <2>5, <2>3, SMT
<1> QED
  BY <1>8, <1>9, <1>10, <1>11, SMT

\* A part of a byte string.
LEMMA Cut ==
  ASSUME NEW data \in Seq(Byte), NEW i \in Nat \ {0}, NEW j \in Nat, i <= j, j <= Len(data)
  PROVE  /\ SubSeq(data, i, j) \in Seq(Byte) /\ Len(SubSeq(data, i, j)) = j - i + 1
         /\ \A m \in 1 .. j - i + 1 : SubSeq(data, i, j)[m] = data[i + m - 1]
<1>1. Len(data) \in Nat
  BY LenProperties
<1>2. i \in 1 .. Len(data) + 1 /\ j \in i - 1 .. Len(data) /\ i \in 1 .. Len(data) /\ j \in 1 .. Len(data)
  BY <1>1
<1> QED
  BY <1>1, <1>2, SubSeqProperties, SMTT(60)

\* The digits after a place are those of the field that is cut out there.
LEMMA DigitsMoved ==
  ASSUME NEW k \in 1 .. 4, NEW f, NEW data, NEW i \in Nat,
         \A m \in 1 .. k : f[1 + m] = data[i + m] /\ data[i + m] \in Byte
  PROVE  Digits(f, 1, k) = Digits(data, i, k) /\ Digits(data, i, k) \in Nat
<1>1. f[1 + 1] = data[i + 1] /\ data[i + 1] \in Nat
  BY DEF Byte
<1>2. CASE k = 1
  BY <1>1, <1>2, SMT DEF Digits
<1>3. CASE k = 2
  <2>1. f[1 + 2] = data[i + 2] /\ data[i + 2] \in Nat
    BY <1>3 DEF Byte
  <2> QED
    BY <1>1, <1>3, <2>1, SMT DEF Digits
<1>4. CASE k = 3
  <2>1. /\ f[1 + 2] = data[i + 2] /\ data[i + 2] \in Nat
        /\ f[1 + 3] = data[i + 3] /\ data[i + 3] \in Nat
    BY <1>4 DEF Byte
  <2> QED
    BY <1>1, <1>4, <2>1, SMT DEF Digits
<1>5. CASE k = 4
  <2>1. /\ f[1 + 2] = data[i + 2] /\ data[i + 2] \in Nat
        /\ f[1 + 3] = data[i + 3] /\ data[i + 3] \in Nat
        /\ f[1 + 4] = data[i + 4] /\ data[i + 4] \in Nat
    BY <1>5 DEF Byte
  <2> QED
    BY <1>1, <1>5, <2>1, SMT DEF Digits
<1> QED
  BY <1>2, <1>3, <1>4, <1>5

\* A length field for n at place i is what read_ber_len reads there.
LEMMA FieldIsRead ==
  ASSUME NEW data \in Seq(Byte), NEW i \in Nat \ {0}, NEW j \in Nat, i < j, j <= Len(data) + 1,
         NEW n \in Nat, LengthField(SubSeq(data, i, j - 1), n)
  PROVE  ReadBerLen(data, i) = {<<n, j>>} /\ j <= i + 5
<1> DEFINE f == SubSeq(data, i, j - 1)
<1>1. Len(data) \in Nat /\ j - 1 \in Nat /\ j - 1 <= Len(data) /\ i <= j - 1
  BY LenProperties
<1>2. f \in Seq(Byte) /\ Len(f) = j - i /\ \A m \in 1 .. j - i : f[m] = data[i + m - 1]
  BY <1>1, Cut
<1>3. LengthField(f, n)
  OBVIOUS
<1> HIDE DEF f
<1>4. f[1] = data[i]
  BY <1>1, <1>2
<1>5. CASE n < 128 /\ f = <<n>>
  <2>1. j = i + 1 /\ data[i] = n
    BY <1>1, <1>2, <1>4, <1>5
  <2> QED
    BY <1>1, <1>5, <2>1, LoopUnfolded
<1>6. CASE ~(n < 128 /\ f = <<n>>)
  <2>1. Len(f) \in 2 .. 5
    BY <1>3, <1>6 DEF LengthField
  <2> DEFINE k == Len(f) - 1
  <2>2. k \in 1 .. 4 /\ Len(f) = k + 1 /\ j = i + k + 1
    BY <1>1, <1>2, <2>1
  <2> HIDE DEF k
  <2>3. f[1] = 128 + k /\ n = Digits(f, 1, k)
    BY <1>2, <1>3, <2>2, LongField
  <2>4. \A m \in 1 .. k : f[1 + m] = data[i + m] /\ data[i + m] \in Byte
    <3>1. \A m \in 1 .. k : /\ 1 + m \in 1 .. j - i /\ i + (1 + m) - 1 = i + m
                           /\ i + m \in 1 .. Len(data)
      BY <1>1, <2>2
    <3>2. \A m \in 1 .. k : f[1 + m] = data[i + m]
      BY <1>2, <3>1
    <3>3. \A m \in 1 .. k : data[i + m] \in Byte
      BY <3>1, ElementOfSeq
    <3> QED
      BY <3>2, <3>3
  <2>5. Digits(f, 1, k) = Digits(data, i, k)
    BY <2>2, <2>4, DigitsMoved
  <2>6. ReadBerLen(data, i) = {<<Digits(data, i, k), i + k + 1>>}
    <3>1. i + k <= Len(data) /\ data[i] = 128 + k
      BY <1>1, <1>4, <2>2, <2>3
    <3> QED
      BY <2>2, <3>1, LoopUnfolded
  <2> QED
    BY <1>1, <2>2, <2>3, <2>5, <2>6
<1> QED
  BY <1>5, <1>6

\* And what read_ber_len reads is a length field.
LEMMA ReadIsField ==
  ASSUME NEW data \in Seq(Byte), NEW i \in Nat \ {0}, ReadBerLen(data, i) # {}
  PROVE  \E n \in Nat, j \in Nat :
           /\ i < j /\ j <= Len(data) + 1 /\ j <= i + 5
           /\ ReadBerLen(data, i) = {<<n, j>>}
           /\ LengthField(SubSeq(data, i, j - 1), n)
<1>1. Len(data) \in Nat
  BY LenProperties
<1>2. i <= Len(data)
  BY <1>1, LoopUnfolded
<1>3. data[i] \in Byte /\ data[i] \in Nat
  <2>1. i \in 1 .. Len(data)
    BY <1>1, <1>2
  <2>2. data[i] \in Byte
    BY <2>1, ElementOfSeq
  <2>3. \A b \in Byte : b \in Nat
    BY DEF Byte
  <2> QED
    BY <2>2, <2>3
<1>4. CASE data[i] < 128
  <2> DEFINE f == SubSeq(data, i, (i + 1) - 1)
  <2>1. f \in Seq(Byte) /\ Len(f) = 1 /\ f[1] = data[i]
    BY <1>1, <1>2, Cut
  <2>2. f = <<data[i]>>
    <3>1. <<data[i]>> \in Seq(Byte) /\ Len(<<data[i]>>) = 1 /\ <<data[i]>>[1] = data[i]
      BY <1>3
    <3> HIDE DEF f
    <3>2. \A m \in 1 .. Len(f) : f[m] = <<data[i]>>[m]
      BY <2>1, <3>1
    <3> QED
      BY <2>1, <3>1, <3>2, SeqEqual
  <2>3. LengthField(f, data[i])
    <3> HIDE DEF f
    <3> QED
      BY <1>4, <2>2 DEF LengthField
  <2>4. ReadBerLen(data, i) = {<<data[i], i + 1>>}
    BY <1>2, <1>4, LoopUnfolded
  <2>5. i + 1 \in Nat /\ i < i + 1 /\ i + 1 <= Len(data) + 1 /\ i + 1 <= i + 5
    BY <1>1, <1>2
  <2> QED
    BY <1>3, <2>3, <2>4, <2>5
<1>5. CASE ~(data[i] < 128)
  <2>1. PICK k \in 1 .. 4 : /\ data[i] = 128 + k /\ i + k <= Len(data)
                            /\ ReadBerLen(data, i) = {<<Digits(data, i, k), i + k + 1>>}
    BY <1>2, <1>3, <1>5, LoopUnfolded
  <2> DEFINE j == i + k + 1
             f == SubSeq(data, i, j - 1)
             n == Digits(data, i, k)
  <2>2. j \in Nat /\ j - 1 \in Nat /\ i <= j - 1 /\ j - 1 <= Len(data) /\ j - 1 - i + 1 = k + 1
    BY <1>1, <2>1
  <2>3. f \in Seq(Byte) /\ Len(f) = k + 1 /\ \A m \in 1 .. k + 1 : f[m] = data[i + m - 1]
    <3> HIDE DEF j
    <3> QED
      BY <2>2, Cut
  <2> HIDE DEF f
  <2>4. f[1] = 128 + k /\ \A m \in 1 .. k : f[1 + m] = data[i + m] /\ data[i + m] \in Byte
    <3>1. f[1] = 128 + k
      BY <2>1, <2>3
    <3>2. \A m \in 1 .. k : 1 + m \in 1 .. k + 1 /\ i + (1 + m) - 1 = i + m /\ i + m \in 1 .. Len(data)
      BY <1>1, <2>1
    <3>3. \A m \in 1 .. k : f[1 + m] = data[i + m]
      BY <2>3, <3>2
    <3>4. \A m \in 1 .. k : data[i + m] \in Byte
      BY <3>2, ElementOfSeq
    <3> QED
      BY <3>1, <3>3, <3>4
  <2>5. Digits(f, 1, k) = n /\ n \in Nat
    BY <2>4, DigitsMoved
  <2> HIDE DEF n
  <2>6. LengthField(f, n)
    BY <2>3, <2>4, <2>5, LongField
  <2>7. ReadBerLen(data, i) = {<<n, j>>}
    BY <2>1 DEF n
  <2>8. i < j /\ j <= Len(data) + 1 /\ j <= i + 5
    BY <1>1, <2>1
  <2> HIDE DEF j
  <2> QED
    BY <2>2, <2>5, <2>6, <2>7, <2>8 DEF f
<1> QED
  BY <1>4, <1>5

\* A field read from its first byte to its last.
LEMMA WholeField ==
  ASSUME NEW n \in Nat, NEW f \in Seq(Byte), f # << >>, LengthField(f, n)
  PROVE  ReadBerLen(f, 1) = {<<n, Len(f) + 1>>}
<1> DEFINE j == Len(f) + 1
<1>1. Len(f) \in Nat /\ Len(f) > 0
  BY EmptySeq
<1>2. j \in Nat /\ 1 < j /\ j <= Len(f) + 1 /\ j - 1 = Len(f) /\ 1 \in Nat \ {0}
  BY <1>1
<1>3. SubSeq(f, 1, Len(f)) = f
  BY SubSeqFull
<1>4. LengthField(SubSeq(f, 1, j - 1), n)
  BY <1>2, <1>3
<1> HIDE DEF j
<1>5. ReadBerLen(f, 1) = {<<n, j>>}
  BY <1>2, <1>4, FieldIsRead
<1> QED
  BY <1>5 DEF j

\* What ber_len writes.
LEMMA LengthWritten ==
  ASSUME NEW n \in Nat, n < Weight[4]
  PROVE  LET f == BerLen(n) IN
         /\ f \in Seq(Byte) /\ Len(f) \in Nat /\ 0 < Len(f) /\ Len(f) < 5
         /\ LengthField(f, n)
<1> DEFINE f == BerLen(n)
<1> USE DEF BerLen
<1>1. n < 128 \/ (~(n < 128) /\ n <= 255) \/ (~(n < 128) /\ ~(n <= 255) /\ n <= 65535)
      \/ (~(n < 128) /\ ~(n <= 255) /\ ~(n <= 65535))
  BY SMT
<1>2. CASE n < 128
  <2>1. f = <<n>>
    BY <1>2
  <2>2. n \in Byte
    BY <1>2 DEF Byte
  <2> HIDE DEF f
  <2>3. f \in Seq(Byte) /\ Len(f) = 1
    BY <2>1, <2>2
  <2>4. LengthField(f, n)
    BY <1>2, <2>1 DEF LengthField
  <2> QED
    BY <2>3, <2>4 DEF f
<1>3. CASE ~(n < 128) /\ n <= 255
  <2>1. f = <<129, n>>
    BY <1>3
  <2>2. n \in Byte /\ 129 \in Byte
    BY <1>3 DEF Byte
  <2> HIDE DEF f
  <2>3. f \in Seq(Byte) /\ Len(f) = 1 + 1 /\ f[1] = 128 + 1 /\ f[1 + 1] = n
    BY <2>1, <2>2
  <2>4. n = Digits(f, 1, 1)
    BY <2>3, SMT DEF Digits
  <2>5. LengthField(f, n)
    BY <2>3, <2>4, LongField
  <2> QED
    BY <2>3, <2>5 DEF f
<1>4. CASE ~(n < 128) /\ ~(n <= 255) /\ n <= 65535
  <2> DEFINE a == n \div 256
             b == n % 256
  <2>1. f = <<130, a, b>>
    BY <1>4, SMT
  <2>2. a \in Nat /\ b \in 0 .. 255 /\ n = 256 * a + b
    BY Divided, SMT
  <2> HIDE DEF f, a, b
  <2>3. a < 256
    BY <1>4, <2>2, SMT
  <2>4. a \in Byte /\ b \in Byte /\ 130 \in Byte
    BY <2>2, <2>3 DEF Byte
  <2>5. f \in Seq(Byte) /\ Len(f) = 2 + 1 /\ f[1] = 128 + 2 /\ f[1 + 1] = a /\ f[1 + 2] = b
    BY <2>1, <2>4
  <2>6. n = Digits(f, 1, 2)
    BY <2>2, <2>5, SMT DEF Digits
  <2>7. LengthField(f, n)
    BY <2>5, <2>6, LongField
  <2> QED
    BY <2>5, <2>7 DEF f
<1>5. CASE ~(n < 128) /\ ~(n <= 255) /\ ~(n <= 65535)
  <2> DEFINE r == HighBytes(n)
             q == HighBytes(r)
             a == LowByte(q)
             b == LowByte(r)
             c == LowByte(n)
  <2>1. f = <<131, a, b, c>>
    <3>1. f = <<131, (n \div 65536) % 256, (n \div 256) % 256, n % 256>>
      BY <1>5, SMT
    <3>2. n \div 65536 = q /\ n \div 256 = r
      BY Shifts, SMT
    <3> HIDE DEF f, q, r
    <3> QED
      BY <3>1, <3>2, SMT DEF LowByte
  <2>2. /\ n = 256 * r + c /\ r \in Nat /\ c \in Byte
        /\ r = 256 * q + b /\ q \in Nat /\ b \in Byte /\ a \in Byte
    BY LastDigits DEF Byte
  <2> HIDE DEF f
  <2>3. n < 16777216
    BY SMT DEF Weight
  <2>4. q < 256
    <3> HIDE DEF r, q, a, b, c
    <3> QED
      BY <2>2, <2>3, SMT DEF Byte
  <2>5. n = Number(0, a, b, c)
    BY <2>2, <2>4, ThreePlaces
  <2> HIDE DEF r, q, a, b, c
  <2>6. 131 \in Byte
    BY DEF Byte
  <2>7. /\ f \in Seq(Byte) /\ Len(f) = 3 + 1 /\ f[1] = 128 + 3
        /\ f[1 + 1] = a /\ f[1 + 2] = b /\ f[1 + 3] = c
    BY <2>1, <2>2, <2>6
  <2>8. Number(0, a, b, c) = 65536 * a + 256 * b + c
    BY <2>2, SMT DEF Number, Byte
  <2>9. Digits(f, 1, 3) = 65536 * a + 256 * b + c
    BY <2>7, SMT DEF Digits
  <2>10. LengthField(f, n)
    BY <2>5, <2>7, <2>8, <2>9, LongField
  <2> QED
    BY <2>7, <2>10 DEF f
<1> HIDE DEF f
<1> QED
  BY <1>1, <1>2, <1>3, <1>4, <1>5 DEF f

\* Every length under 2^24 is read back as it was written.
LEMMA LengthsReadBack ==
  ASSUME NEW n \in Nat
  PROVE  LengthReadBack(n)
<1>1. Weight[4] = 16777216
  BY SMT DEF Weight
<1>2. ASSUME n < Weight[4]
      PROVE  LengthField(BerLen(n), n) /\ ReadBerLen(BerLen(n), 1) = {<<n, Len(BerLen(n)) + 1>>}
  <2>1. BerLen(n) \in Seq(Byte) /\ BerLen(n) # << >> /\ LengthField(BerLen(n), n)
    BY <1>2, LengthWritten
  <2> QED
    BY <2>1, WholeField
<1> QED
  BY <1>1, <1>2, SMT DEF LengthReadBack

-----------------------------------------------------------------------------
(* Reading elements one after the other.                                    *)

\* A set of natural numbers has a least one.
LEMMA Least ==
  ASSUME NEW T \in SUBSET Nat, T # {}
  PROVE  \E m \in T : \A n \in T : m <= n
<1> DEFINE R == OpToRel(<, Nat)
<1>1. \A a, b \in Nat : a < b => <<a, b>> \in R
  BY DEF OpToRel
<1>2. IsWellFoundedOn(R, Nat)
  BY NatLessThanWellFounded
<1> HIDE DEF R
<1>3. PICK m \in T : \A n \in T : ~(<<n, m>> \in R)
  BY <1>2, WFMin
<1>4. \A n \in T : ~(n < m)
  BY <1>1, <1>3
<1> QED
  BY <1>4

\* What read_tlv does at place i, given what it does at the places after it.
At(data, tag, rest, i) ==
  IF i > Len(data) THEN {}
  ELSE UNION {LET start == h[2]
                  end   == start + h[1] IN
              IF end > Len(data) + 1 THEN {}
              ELSE IF data[i] = tag THEN {SubSeq(data, start, end - 1)}
              ELSE rest[end] : h \in ReadBerLen(data, i + 1)}
Found(data, tag) == CHOOSE f : f = [i \in 1 .. Len(data) + 1 |-> At(data, tag, f, i)]

\* read_tlv searches from the first byte on.
LEMMA ReadTlvStarts ==
  \A data, tag : ReadTlv(data, tag) = Found(data, tag)[1]
BY DEF ReadTlv, Found, At

\* At an element.
LEMMA AtElement ==
  ASSUME NEW data \in Seq(Byte), NEW tag, NEW rest, NEW i \in Nat, NEW n \in Nat, NEW j \in Nat,
         i <= Len(data), ReadBerLen(data, i + 1) = {<<n, j>>}
  PROVE  At(data, tag, rest, i) =
           IF j + n > Len(data) + 1 THEN {}
           ELSE IF data[i] = tag THEN {SubSeq(data, j, (j + n) - 1)}
           ELSE rest[j + n]
<1> DEFINE G(h) == LET start == h[2]
                       end   == start + h[1] IN
                   IF end > Len(data) + 1 THEN {}
                   ELSE IF data[i] = tag THEN {SubSeq(data, start, end - 1)}
                   ELSE rest[end]
<1>1. ~(i > Len(data))
  <2>1. Len(data) \in Nat
    BY LenProperties
  <2> QED
    BY <2>1
<1>2. At(data, tag, rest, i) = UNION {G(h) : h \in ReadBerLen(data, i + 1)}
  BY <1>1 DEF At
<1>3. G(<<n, j>>) = IF j + n > Len(data) + 1 THEN {}
                    ELSE IF data[i] = tag THEN {SubSeq(data, j, (j + n) - 1)}
                    ELSE rest[j + n]
  OBVIOUS
<1> HIDE DEF G
<1>4. UNION {G(h) : h \in ReadBerLen(data, i + 1)} = G(<<n, j>>)
  OBVIOUS
<1> QED
  BY <1>2, <1>3, <1>4

\* It looks only ahead.
LEMMA LooksAhead ==
  ASSUME NEW data \in Seq(Byte), NEW tag, NEW i \in 1 .. Len(data) + 1, NEW f, NEW g,
         \A j \in i + 1 .. Len(data) + 1 : f[j] = g[j]
  PROVE  At(data, tag, f, i) = At(data, tag, g, i)
<1>1. Len(data) \in Nat
  BY LenProperties
<1>2. CASE i > Len(data)
  BY <1>2 DEF At
<1>3. CASE ReadBerLen(data, i + 1) = {}
  BY <1>3 DEF At
<1>4. CASE ~(i > Len(data)) /\ ReadBerLen(data, i + 1) # {}
  <2>1. i + 1 \in Nat \ {0} /\ i \in Nat /\ i <= Len(data)
    BY <1>1, <1>4
  <2>2. PICK n \in Nat, j \in Nat : i + 1 < j /\ ReadBerLen(data, i + 1) = {<<n, j>>}
    BY <1>4, <2>1, ReadIsField
  <2>3. ~(j + n > Len(data) + 1) => f[j + n] = g[j + n]
    BY <1>1, <2>1, <2>2
  <2> DEFINE E(rest) == IF j + n > Len(data) + 1 THEN {}
                        ELSE IF data[i] = tag THEN {SubSeq(data, j, (j + n) - 1)}
                        ELSE rest[j + n]
  <2>4. E(f) = E(g)
    BY <2>3
  <2>5. At(data, tag, f, i) = E(f)
    BY <2>1, <2>2, AtElement, SMTT(60)
  <2>6. At(data, tag, g, i) = E(g)
    BY <2>1, <2>2, AtElement, SMTT(60)
  <2> QED
    BY <2>4, <2>5, <2>6
<1> QED
  BY <1>2, <1>3, <1>4

\* So its loop is defined at every place.
LEMMA FoundUnfolds ==
  ASSUME NEW data \in Seq(Byte), NEW tag
  PROVE  Found(data, tag) = [i \in 1 .. Len(data) + 1 |-> At(data, tag, Found(data, tag), i)]
<1> DEFINE len == Len(data)
           Places(k) == len + 1 - k .. len + 1
           T == {k \in 0 .. len : ~ \E f : \A i \in Places(k) : f[i] = At(data, tag, f, i)}
<1>1. len \in Nat
  BY LenProperties
<1>2. T = {}
  <2>1. SUFFICES ASSUME T # {}
                 PROVE  FALSE
    OBVIOUS
  <2>2. T \in SUBSET Nat
    BY <1>1
  <2>3. PICK k \in T : \A n \in T : k <= n
    <3> HIDE DEF T
    <3> QED
      BY <2>1, <2>2, Least
  <2>4. k \in 0 .. len
    OBVIOUS
  <2> DEFINE at == len + 1 - k
  <2>5. \E f : \A i \in Places(k) \ {at} : f[i] = At(data, tag, f, i)
    <3>1. CASE k = 0
      <4>1. Places(k) \ {at} = {}
        BY <1>1, <3>1
      <4> QED
        BY <4>1
    <3>2. CASE k # 0
      <4>1. k - 1 \in 0 .. len /\ ~(k <= k - 1)
        BY <1>1, <2>4, <3>2
      <4>2. k - 1 \notin T
        BY <2>3, <4>1
      <4>3. \E f : \A i \in Places(k - 1) : f[i] = At(data, tag, f, i)
        BY <4>1, <4>2
      <4>4. Places(k) \ {at} \subseteq Places(k - 1)
        BY <1>1, <2>4
      <4> HIDE DEF Places, at
      <4> QED
        BY <4>3, <4>4
    <3> QED
      BY <3>1, <3>2
  <2>6. PICK f : \A i \in Places(k) \ {at} : f[i] = At(data, tag, f, i)
    BY <2>5
  <2> DEFINE g == [i \in Places(k) |-> IF i = at THEN At(data, tag, f, at) ELSE f[i]]
  <2>7. ASSUME NEW i \in Places(k)
        PROVE  g[i] = At(data, tag, g, i)
    <3>1. i \in 1 .. len + 1 /\ at <= i
      BY <1>1, <2>4, <2>7
    <3>2. \A j \in i + 1 .. len + 1 : j \in Places(k) /\ j # at
      BY <1>1, <2>4, <3>1
    <3>3. \A j \in i + 1 .. len + 1 : f[j] = g[j]
      <4> HIDE DEF at, Places
      <4> QED
        BY <3>2
    <3>4. At(data, tag, f, i) = At(data, tag, g, i)
      <4> HIDE DEF g
      <4> QED
        BY <3>1, <3>3, LooksAhead
    <3>5. g[i] = At(data, tag, f, i)
      <4> HIDE DEF at, Places
      <4> QED
        BY <2>6, <2>7
    <3> QED
      BY <3>4, <3>5
  <2>8. k \notin T
    <3> HIDE DEF g, Places
    <3> QED
      BY <2>7
  <2> QED
    BY <2>3, <2>8
<1>3. \E f : \A i \in 1 .. len + 1 : f[i] = At(data, tag, f, i)
  <2>1. len \in 0 .. len /\ len \notin T /\ Places(len) = 1 .. len + 1
    BY <1>1, <1>2
  <2> HIDE DEF Places
  <2>2. \E f : \A i \in Places(len) : f[i] = At(data, tag, f, i)
    BY <2>1
  <2> QED
    BY <2>1, <2>2
<1>4. PICK f : \A i \in 1 .. len + 1 : f[i] = At(data, tag, f, i)
  BY <1>3
<1> DEFINE g == [i \in 1 .. len + 1 |-> f[i]]
<1>5. g = [i \in 1 .. len + 1 |-> At(data, tag, g, i)]
  <2>1. ASSUME NEW i \in 1 .. len + 1
        PROVE  f[i] = At(data, tag, g, i)
    <3>1. \A j \in i + 1 .. len + 1 : j \in 1 .. len + 1
      BY <1>1
    <3>2. \A j \in i + 1 .. len + 1 : f[j] = g[j]
      BY <3>1
    <3> HIDE DEF g
    <3>3. At(data, tag, f, i) = At(data, tag, g, i)
      BY <3>2, LooksAhead
    <3> QED
      BY <1>4, <3>3
  <2>2. \A i \in 1 .. len + 1 : f[i] = At(data, tag, g, i)
    <3> HIDE DEF g
    <3> QED
      BY <2>1
  <2>3. g = [i \in 1 .. len + 1 |-> f[i]]
    OBVIOUS
  <2> HIDE DEF g
  <2> QED
    BY <2>2, <2>3
<1> DEFINE F(h) == [i \in 1 .. len + 1 |-> At(data, tag, h, i)]
<1>6. Found(data, tag) = CHOOSE h : h = F(h)
  BY DEF Found
<1>7. g = F(g)
  BY <1>5
<1> HIDE DEF F, g
<1>8. Found(data, tag) = F(Found(data, tag))
  BY <1>6, <1>7
<1> QED
  BY <1>8 DEF F

\* What it does at an element, and where there is none.
LEMMA FoundAt ==
  ASSUME NEW data \in Seq(Byte), NEW tag, NEW i \in Nat \ {0}
  PROVE  /\ i = Len(data) + 1 => Found(data, tag)[i] = {}
         /\ i <= Len(data) /\ ReadBerLen(data, i + 1) = {} => Found(data, tag)[i] = {}
         /\ \A n, j \in Nat : i <= Len(data) /\ ReadBerLen(data, i + 1) = {<<n, j>>} =>
              Found(data, tag)[i] =
                IF j + n > Len(data) + 1 THEN {}
                ELSE IF data[i] = tag THEN {SubSeq(data, j, (j + n) - 1)}
                ELSE Found(data, tag)[j + n]
<1> DEFINE rest == Found(data, tag)
<1>1. Len(data) \in Nat
  BY LenProperties
<1>2. i <= Len(data) + 1 => rest[i] = At(data, tag, rest, i)
  <2>1. rest = [k \in 1 .. Len(data) + 1 |-> At(data, tag, rest, k)]
    BY FoundUnfolds
  <2>2. i <= Len(data) + 1 => i \in 1 .. Len(data) + 1
    BY <1>1
  <2> HIDE DEF rest
  <2> QED
    BY <2>1, <2>2
<1> HIDE DEF rest
<1>3. i = Len(data) + 1 => rest[i] = {}
  BY <1>1, <1>2 DEF At
<1>4. i <= Len(data) => i <= Len(data) + 1 /\ ~(i > Len(data))
  BY <1>1
<1>5. i <= Len(data) /\ ReadBerLen(data, i + 1) = {} => rest[i] = {}
  BY <1>2, <1>4 DEF At
<1>6. ASSUME NEW n \in Nat, NEW j \in Nat, i <= Len(data), ReadBerLen(data, i + 1) = {<<n, j>>}
      PROVE  rest[i] = IF j + n > Len(data) + 1 THEN {}
                       ELSE IF data[i] = tag THEN {SubSeq(data, j, (j + n) - 1)}
                       ELSE rest[j + n]
  <2>1. rest[i] = At(data, tag, rest, i)
    BY <1>2, <1>4, <1>6
  <2>2. At(data, tag, rest, i) = IF j + n > Len(data) + 1 THEN {}
                                 ELSE IF data[i] = tag THEN {SubSeq(data, j, (j + n) - 1)}
                                 ELSE rest[j + n]
    BY <1>6, AtElement
  <2> QED
    BY <2>1, <2>2
<1> QED
  BY <1>3, <1>5, <1>6 DEF rest

-----------------------------------------------------------------------------
(* Elements as the standard has them.                                       *)

\* A part of a part.
LEMMA CutOfCut ==
  ASSUME NEW data \in Seq(Byte), NEW i \in Nat \ {0}, NEW m \in Nat, i <= m, m <= Len(data),
         NEW a \in Nat \ {0}, NEW b \in Nat, a <= b + 1, b <= m - i + 1
  PROVE  SubSeq(SubSeq(data, i, m), a, b) = SubSeq(data, i + a - 1, i + b - 1)
<1> DEFINE e == SubSeq(data, i, m)
<1>1. Len(data) \in Nat
  BY LenProperties
<1>2. e \in Seq(Byte) /\ Len(e) = m - i + 1
  BY Cut
<1>3. CASE a = b + 1
  <2>1. b < a /\ i + b - 1 < i + a - 1
    BY <1>3
  <2>2. SubSeq(e, a, b) = << >>
    BY <2>1, SubSeqEmpty
  <2>3. SubSeq(data, i + a - 1, i + b - 1) = << >>
    BY <2>1, SubSeqEmpty
  <2> QED
    BY <2>2, <2>3
<1>4. CASE a # b + 1
  <2>1. a \in 1 .. m - i + 1 /\ b \in 1 .. m - i + 1 /\ i \in 1 .. Len(data) /\ m \in 1 .. Len(data)
    BY <1>1, <1>4
  <2>2. \A S : \A s \in Seq(S) : \A x, y \in 1 .. Len(s) : \A u, v \in 1 .. y - x + 1 :
          SubSeq(SubSeq(s, x, y), u, v) = SubSeq(s, x + u - 1, x + v - 1)
    BY SubSeqOfSubSeq
  <2> QED
    BY <2>1, <2>2
<1> QED
  BY <1>3, <1>4

\* A part of a byte string is an element exactly if read_ber_len reads the
\* length that takes it to its end.
LEMMA PieceIsElement ==
  ASSUME NEW data \in Seq(Byte), NEW i \in Nat \ {0}, NEW m \in Nat, i <= m, m <= Len(data),
         NEW tag, NEW v
  PROVE  v \in ElementValue(SubSeq(data, i, m), tag) <=>
           \E n, j \in Nat : /\ data[i] = tag /\ ReadBerLen(data, i + 1) = {<<n, j>>}
                             /\ i + 1 < j /\ j + n = m + 1
                             /\ v = SubSeq(data, j, m)
<1> DEFINE e == SubSeq(data, i, m)
<1>1. Len(data) \in Nat
  BY LenProperties
<1>2. e \in Seq(Byte) /\ Len(e) = m - i + 1 /\ e[1] = data[i]
  BY Cut
<1>3. ASSUME NEW k \in Nat, 2 <= k, k <= Len(e)
      PROVE  /\ SubSeq(e, 2, k) = SubSeq(data, i + 1, (i + k) - 1)
             /\ SubSeq(e, k + 1, Len(e)) = SubSeq(data, i + k, m)
  <2>1. SubSeq(e, 2, k) = SubSeq(data, i + 2 - 1, i + k - 1)
    BY <1>2, <1>3, CutOfCut
  <2>2. SubSeq(e, k + 1, Len(e)) = SubSeq(data, i + (k + 1) - 1, i + Len(e) - 1)
    <3>1. k + 1 \in Nat \ {0} /\ Len(e) \in Nat /\ k + 1 <= Len(e) + 1 /\ Len(e) <= m - i + 1
      BY <1>2, <1>3
    <3> QED
      BY <3>1, CutOfCut
  <2>3. i + 2 - 1 = i + 1 /\ i + k - 1 = (i + k) - 1 /\ i + (k + 1) - 1 = i + k /\ i + Len(e) - 1 = m
    BY <1>2, <1>3
  <2> QED
    BY <2>1, <2>2, <2>3
<1>4. v \in ElementValue(e, tag) <=>
        \E k \in 2 .. 6 : /\ k <= Len(e) /\ e[1] = tag
                          /\ LengthField(SubSeq(e, 2, k), Len(e) - k)
                          /\ v = SubSeq(e, k + 1, Len(e))
  BY DEF ElementValue
<1> HIDE DEF e
<1>5. ASSUME NEW k \in 2 .. 6, k <= Len(e), e[1] = tag,
             LengthField(SubSeq(e, 2, k), Len(e) - k), v = SubSeq(e, k + 1, Len(e))
      PROVE  \E n, j \in Nat : /\ data[i] = tag /\ ReadBerLen(data, i + 1) = {<<n, j>>}
                               /\ i + 1 < j /\ j + n = m + 1 /\ v = SubSeq(data, j, m)
  <2> DEFINE j == i + k
             n == Len(e) - k
  <2>1. j \in Nat /\ n \in Nat /\ i + 1 < j /\ j <= Len(data) + 1 /\ j + n = m + 1 /\ i + 1 \in Nat \ {0}
    BY <1>1, <1>2, <1>5
  <2>2. LengthField(SubSeq(data, i + 1, j - 1), n) /\ v = SubSeq(data, j, m)
    <3>1. k \in Nat /\ 2 <= k
      BY <1>5
    <3>2. /\ SubSeq(e, 2, k) = SubSeq(data, i + 1, (i + k) - 1)
          /\ SubSeq(e, k + 1, Len(e)) = SubSeq(data, i + k, m)
      BY <1>3, <1>5, <3>1
    <3> QED
      BY <1>5, <3>2
  <2> HIDE DEF j, n
  <2>3. ReadBerLen(data, i + 1) = {<<n, j>>}
    BY <2>1, <2>2, FieldIsRead
  <2> QED
    BY <1>2, <1>5, <2>1, <2>2, <2>3
<1>6. ASSUME NEW n \in Nat, NEW j \in Nat, data[i] = tag, ReadBerLen(data, i + 1) = {<<n, j>>},
             i + 1 < j, j + n = m + 1, v = SubSeq(data, j, m)
      PROVE  \E k \in 2 .. 6 : /\ k <= Len(e) /\ e[1] = tag
                               /\ LengthField(SubSeq(e, 2, k), Len(e) - k)
                               /\ v = SubSeq(e, k + 1, Len(e))
  <2> DEFINE k == j - i
  <2>1. /\ j <= (i + 1) + 5 /\ j <= Len(data) + 1
        /\ LengthField(SubSeq(data, i + 1, j - 1), n)
    <3>1. i + 1 \in Nat \ {0}
      OBVIOUS
    <3>2. ReadBerLen(data, i + 1) # {}
      BY <1>6
    <3>3. PICK p \in Nat, q \in Nat :
            /\ q <= Len(data) + 1 /\ q <= (i + 1) + 5
            /\ ReadBerLen(data, i + 1) = {<<p, q>>}
            /\ LengthField(SubSeq(data, i + 1, q - 1), p)
      BY <3>1, <3>2, ReadIsField
    <3>4. <<n, j>> = <<p, q>>
      BY <1>6, <3>3
    <3>5. n = p /\ j = q
      BY <3>4
    <3> QED
      BY <3>3, <3>5
  <2>2. k \in Nat /\ k \in 2 .. 6 /\ 2 <= k /\ k <= Len(e) /\ Len(e) - k = n /\ i + k = j
    BY <1>2, <1>6, <2>1
  <2> HIDE DEF k
  <2>3. SubSeq(e, 2, k) = SubSeq(data, i + 1, j - 1) /\ SubSeq(e, k + 1, Len(e)) = SubSeq(data, j, m)
    BY <1>3, <2>2
  <2> QED
    BY <1>2, <1>6, <2>1, <2>2, <2>3
<1> QED
  BY <1>4, <1>5, <1>6 DEF e

-----------------------------------------------------------------------------
(* read_tlv finds what comes first.                                         *)

\* The least number of a set is one of its members.
LEMMA FirstIsLeast ==
  ASSUME NEW S \in SUBSET Nat, S # {}
  PROVE  First(S) \in S /\ \A n \in S : First(S) <= n
BY Least DEF First

\* The least of one number.
LEMMA FirstOfOne ==
  ASSUME NEW m \in Nat
  PROVE  First({m}) = m
<1>1. {m} \in SUBSET Nat /\ {m} # {}
  OBVIOUS
<1>2. First({m}) \in {m}
  BY <1>1, FirstIsLeast
<1> QED
  BY <1>2

\* Some cut is the last.
LEMMA Greatest ==
  ASSUME NEW b \in Nat, NEW S \in SUBSET Nat, S # {}, \A c \in S : c <= b
  PROVE  \E c \in S : \A d \in S : d <= c
<1> DEFINE T == {n \in Nat : \E c \in S : n = b - c}
<1>1. T \in SUBSET Nat /\ T # {}
  <2>1. PICK c \in S : TRUE
    OBVIOUS
  <2>2. b - c \in Nat
    OBVIOUS
  <2> QED
    BY <2>2
<1>2. PICK m \in T : \A n \in T : m <= n
  <2> HIDE DEF T
  <2> QED
    BY <1>1, Least
<1>3. PICK c \in S : m = b - c
  OBVIOUS
<1>4. \A d \in S : b - c <= b - d
  <2> TAKE d \in S
  <2>1. b - d \in T
    OBVIOUS
  <2> HIDE DEF T
  <2> QED
    BY <1>2, <1>3, <2>1
<1>5. \A d \in S : d <= c
  BY <1>4
<1> QED
  BY <1>5

\* The parts of FirstValues: where an element ends, the element that begins at
\* a cut, the last cut, and what a cutting has to be.
Ending(cuts, last, c) == First({d \in cuts \cup {last} : d > c})
Piece(data, cuts, last, c) == SubSeq(data, c + 1, Ending(cuts, last, c))
LastCut(cuts) == First({c \in cuts : \A d \in cuts : d <= c})
Proper(data, tag, cuts, last) ==
  /\ \A c \in cuts : c < last
  /\ \A c \in cuts :
       IF \E d \in cuts : d > c
       THEN /\ Piece(data, cuts, last, c)[1] # tag
            /\ ElementValue(Piece(data, cuts, last, c), Piece(data, cuts, last, c)[1]) # {}
       ELSE Piece(data, cuts, last, c)[1] = tag

\* v comes first after c bytes.
ComesFirst(data, tag, c, v) ==
  \E cuts \in SUBSET (c .. Len(data) - 1), last \in 1 .. Len(data) :
    /\ c \in cuts /\ Proper(data, tag, cuts, last)
    /\ v \in ElementValue(Piece(data, cuts, last, LastCut(cuts)), tag)

\* FirstValues is what comes first from the beginning.
LEMMA FirstValuesComeFirst ==
  ASSUME NEW data, NEW tag, NEW v
  PROVE  v \in FirstValues(data, tag) <=> ComesFirst(data, tag, 0, v)
<1> DEFINE Value(cuts, last) ==
      IF 0 \in cuts /\ Proper(data, tag, cuts, last)
      THEN ElementValue(Piece(data, cuts, last, LastCut(cuts)), tag) ELSE {}
<1>1. FirstValues(data, tag) =
        UNION {Value(cuts, last) : cuts \in SUBSET (0 .. Len(data) - 1), last \in 1 .. Len(data)}
  BY DEF FirstValues, Proper, Piece, Ending, LastCut
<1>2. \A cuts, last : v \in Value(cuts, last) <=>
        /\ 0 \in cuts /\ Proper(data, tag, cuts, last)
        /\ v \in ElementValue(Piece(data, cuts, last, LastCut(cuts)), tag)
  OBVIOUS
<1> HIDE DEF Value
<1>3. v \in FirstValues(data, tag) <=>
        \E cuts \in SUBSET (0 .. Len(data) - 1), last \in 1 .. Len(data) : v \in Value(cuts, last)
  BY <1>1
<1> QED
  BY <1>2, <1>3 DEF ComesFirst

\* Where the element that begins at a cut ends.
LEMMA EndingIsNext ==
  ASSUME NEW data \in Seq(Byte), NEW c \in Nat,
         NEW cuts \in SUBSET (c .. Len(data) - 1), NEW last \in 1 .. Len(data),
         NEW x \in cuts, \A d \in cuts : d < last
  PROVE  LET m == Ending(cuts, last, x) IN
         /\ m \in cuts \cup {last} /\ x < m /\ m <= Len(data) /\ m \in Nat
         /\ \A d \in cuts \cup {last} : d > x => m <= d
         /\ m \notin cuts => m = last /\ ~ \E d \in cuts : d > x
<1> DEFINE S == {d \in cuts \cup {last} : d > x}
           m == Ending(cuts, last, x)
<1>1. Len(data) \in Nat
  BY LenProperties
<1>2. \A d \in cuts \cup {last} : d \in Nat /\ d <= Len(data)
  BY <1>1
<1>3. S \in SUBSET Nat /\ last \in S
  BY <1>2
<1>4. m = First(S)
  BY DEF Ending
<1>5. m \in S /\ \A n \in S : m <= n
  <2> HIDE DEF S, m
  <2> QED
    BY <1>3, <1>4, FirstIsLeast
<1> HIDE DEF m
<1>6. m \in cuts \cup {last} /\ x < m /\ m <= Len(data) /\ m \in Nat
  BY <1>2, <1>5
<1>7. \A d \in cuts \cup {last} : d > x => m <= d
  BY <1>5
<1>8. ASSUME m \notin cuts
      PROVE  m = last /\ ~ \E d \in cuts : d > x
  <2>1. m = last
    BY <1>6, <1>8
  <2>2. ASSUME NEW d \in cuts, d > x
        PROVE  FALSE
    <3>1. m <= d /\ d < last /\ d \in Nat
      BY <1>2, <1>7, <2>2
    <3> QED
      BY <1>6, <2>1, <3>1
  <2> QED
    BY <2>1, <2>2
<1> QED
  BY <1>6, <1>7, <1>8 DEF m

\* Cuts are those that come after c, and c; none is after b.
Precedes(c, cuts, fewer, b) ==
  /\ c \in Nat /\ b \in Nat /\ fewer \in SUBSET Nat /\ fewer # {} /\ cuts = fewer \cup {c}
  /\ \A d \in fewer : c < d /\ d <= b

\* A cut before all the others leaves their elements as they are.
LEMMA CutBefore ==
  ASSUME NEW cuts, NEW fewer, NEW c, NEW b, NEW last, Precedes(c, cuts, fewer, b)
  PROVE  /\ \A x \in fewer : Ending(cuts, last, x) = Ending(fewer, last, x)
         /\ \A x \in fewer : (\E d \in cuts : d > x) <=> (\E d \in fewer : d > x)
         /\ LastCut(cuts) = LastCut(fewer) /\ LastCut(fewer) \in fewer
<1> USE DEF Precedes
<1>1. ASSUME NEW x \in fewer
      PROVE  /\ Ending(cuts, last, x) = Ending(fewer, last, x)
             /\ (\E d \in cuts : d > x) <=> (\E d \in fewer : d > x)
  <2>1. ~(c > x)
    OBVIOUS
  <2>2. {d \in cuts \cup {last} : d > x} = {d \in fewer \cup {last} : d > x}
    BY <2>1
  <2> QED
    BY <2>1, <2>2 DEF Ending
<1>2. {x \in cuts : \A d \in cuts : d <= x} = {x \in fewer : \A d \in fewer : d <= x}
  <2>1. ~ \A d \in cuts : d <= c
    <3>1. PICK d \in fewer : TRUE
      OBVIOUS
    <3>2. d \in cuts /\ d \in Nat /\ c < d
      BY <3>1
    <3> QED
      BY <3>2
  <2>2. \A x \in fewer : c <= x
    OBVIOUS
  <2> QED
    BY <2>1, <2>2
<1>3. LastCut(cuts) = LastCut(fewer)
  BY <1>2 DEF LastCut
<1> DEFINE G == {x \in fewer : \A d \in fewer : d <= x}
<1>4. G \in SUBSET Nat /\ G # {}
  BY Greatest
<1>5. First(G) \in G
  <2> HIDE DEF G
  <2> QED
    BY <1>4, FirstIsLeast
<1>6. LastCut(fewer) \in fewer
  BY <1>5 DEF LastCut
<1> QED
  BY <1>1, <1>3, <1>6

\* So the others are proper cuts exactly if all are and the first element is
\* one of another tag.
LeavesRest(data, tag, cuts, fewer, last, c) ==
  /\ Proper(data, tag, cuts, last) <=>
       /\ Proper(data, tag, fewer, last)
       /\ Piece(data, cuts, last, c)[1] # tag
       /\ ElementValue(Piece(data, cuts, last, c), Piece(data, cuts, last, c)[1]) # {}
  /\ Piece(data, cuts, last, LastCut(cuts)) = Piece(data, fewer, last, LastCut(fewer))

\* A cut put before the others leaves them as they are.
LEMMA ProperBefore ==
  ASSUME NEW data, NEW tag, NEW cuts, NEW fewer, NEW c, NEW b, NEW last \in Nat,
         Precedes(c, cuts, fewer, b)
  PROVE  LeavesRest(data, tag, cuts, fewer, last, c)
<1>1. /\ \A x \in fewer : Ending(cuts, last, x) = Ending(fewer, last, x)
      /\ \A x \in fewer : (\E d \in cuts : d > x) <=> (\E d \in fewer : d > x)
      /\ LastCut(cuts) = LastCut(fewer) /\ LastCut(fewer) \in fewer
  BY CutBefore
<1>2. \A x \in fewer : Piece(data, cuts, last, x) = Piece(data, fewer, last, x)
  BY <1>1 DEF Piece
<1> DEFINE Well(x, all) ==
      IF \E d \in all : d > x
      THEN /\ Piece(data, all, last, x)[1] # tag
           /\ ElementValue(Piece(data, all, last, x), Piece(data, all, last, x)[1]) # {}
      ELSE Piece(data, all, last, x)[1] = tag
<1>3. \A all : Proper(data, tag, all, last) <=> (\A x \in all : x < last) /\ (\A x \in all : Well(x, all))
  BY DEF Proper
<1>4. \A x \in fewer : Well(x, cuts) <=> Well(x, fewer)
  BY <1>1, <1>2
<1>5. \E d \in cuts : d > c
  BY DEF Precedes
<1>6. Well(c, cuts) <=>
        /\ Piece(data, cuts, last, c)[1] # tag
        /\ ElementValue(Piece(data, cuts, last, c), Piece(data, cuts, last, c)[1]) # {}
  BY <1>5
<1>7. (\A x \in fewer : x < last) => c < last
  <2>1. PICK d \in fewer : c < d
    BY DEF Precedes
  <2> QED
    BY <2>1 DEF Precedes
<1> HIDE DEF Well
<1>8. Proper(data, tag, cuts, last) <=> Proper(data, tag, fewer, last) /\ Well(c, cuts)
  <2>1. (\A x \in cuts : x < last) <=> (\A x \in fewer : x < last)
    BY <1>7 DEF Precedes
  <2>2. (\A x \in cuts : Well(x, cuts)) <=> (\A x \in fewer : Well(x, fewer)) /\ Well(c, cuts)
    BY <1>4 DEF Precedes
  <2>3. Proper(data, tag, cuts, last) <=>
          (\A x \in cuts : x < last) /\ (\A x \in cuts : Well(x, cuts))
    BY <1>3
  <2>4. Proper(data, tag, fewer, last) <=>
          (\A x \in fewer : x < last) /\ (\A x \in fewer : Well(x, fewer))
    BY <1>3
  <2> QED
    BY <2>1, <2>2, <2>3, <2>4
<1>9. Piece(data, cuts, last, LastCut(cuts)) = Piece(data, fewer, last, LastCut(fewer))
  BY <1>1, <1>2
<1> QED
  BY <1>6, <1>8, <1>9 DEF LeavesRest

\* What comes first begins with an element, and is its value or comes first
\* after it.
LEMMA FirstIsOneStep ==
  ASSUME NEW data \in Seq(Byte), NEW tag, NEW v, NEW c \in Nat, c < Len(data),
         ComesFirst(data, tag, c, v)
  PROVE  \E n, j \in Nat : /\ ReadBerLen(data, c + 2) = {<<n, j>>} /\ c + 2 < j
                           /\ j + n <= Len(data) + 1
                           /\ IF data[c + 1] = tag THEN v = SubSeq(data, j, (j + n) - 1)
                              ELSE ComesFirst(data, tag, (j + n) - 1, v)
<1>1. Len(data) \in Nat
  BY LenProperties
<1>2. PICK cuts \in SUBSET (c .. Len(data) - 1), last \in 1 .. Len(data) :
        /\ c \in cuts /\ Proper(data, tag, cuts, last)
        /\ v \in ElementValue(Piece(data, cuts, last, LastCut(cuts)), tag)
  BY DEF ComesFirst
<1>3. cuts \in SUBSET Nat /\ last \in Nat /\ \A d \in cuts : c <= d /\ d < last /\ d <= Len(data)
  BY <1>1, <1>2 DEF Proper
<1> DEFINE m == Ending(cuts, last, c)
           i == c + 1
<1>4. /\ m \in cuts \cup {last} /\ c < m /\ m <= Len(data) /\ m \in Nat
      /\ \A d \in cuts \cup {last} : d > c => m <= d
      /\ m \notin cuts => m = last /\ ~ \E d \in cuts : d > c
  BY <1>2, <1>3, EndingIsNext
<1>5. Piece(data, cuts, last, c) = SubSeq(data, i, m)
  BY DEF Piece
<1> HIDE DEF m
<1>6. i \in Nat \ {0} /\ i <= m /\ i + 1 = c + 2
  BY <1>4
<1>7. SubSeq(data, i, m)[1] = data[i]
  BY <1>4, <1>6, Cut
<1> HIDE DEF i
<1>8. CASE m \notin cuts
  <2>1. cuts = {c}
    <3>1. \A d \in cuts : d = c
      BY <1>3, <1>4, <1>8
    <3> QED
      BY <1>2, <3>1
  <2>2. LastCut(cuts) = c
    <3>1. {x \in cuts : \A d \in cuts : d <= x} = {c}
      BY <2>1
    <3>2. First({c}) = c
      BY FirstIsLeast
    <3> QED
      BY <3>1, <3>2 DEF LastCut
  <2>3. v \in ElementValue(SubSeq(data, i, m), tag)
    BY <1>2, <1>5, <2>2
  <2>4. PICK n \in Nat, j \in Nat : /\ data[i] = tag /\ ReadBerLen(data, i + 1) = {<<n, j>>}
                                    /\ i + 1 < j /\ j + n = m + 1 /\ v = SubSeq(data, j, m)
    BY <1>4, <1>6, <2>3, PieceIsElement
  <2>5. j + n <= Len(data) + 1 /\ (j + n) - 1 = m
    BY <1>1, <1>4, <2>4
  <2>6. /\ ReadBerLen(data, c + 2) = {<<n, j>>} /\ c + 2 < j /\ data[c + 1] = tag
    BY <1>6, <2>4 DEF i
  <2> QED
    BY <2>4, <2>5, <2>6
<1>9. CASE m \in cuts
  <2> DEFINE fewer == cuts \ {c}
  <2>1. /\ cuts = fewer \cup {c} /\ m \in fewer /\ fewer # {} /\ fewer \in SUBSET Nat
        /\ \A d \in fewer : c < d /\ m <= d
    BY <1>2, <1>3, <1>4, <1>9
  <2>2. fewer \in SUBSET (m .. Len(data) - 1)
    BY <1>1, <1>2, <1>3, <1>4, <2>1
  <2> HIDE DEF fewer
  <2>3. /\ Proper(data, tag, fewer, last)
        /\ SubSeq(data, i, m)[1] # tag
        /\ ElementValue(SubSeq(data, i, m), SubSeq(data, i, m)[1]) # {}
        /\ Piece(data, cuts, last, LastCut(cuts)) = Piece(data, fewer, last, LastCut(fewer))
    <3>1. Precedes(c, cuts, fewer, Len(data))
      BY <1>1, <1>3, <2>1 DEF Precedes
    <3>2. last \in Nat
      BY <1>3
    <3>3. LeavesRest(data, tag, cuts, fewer, last, c)
      BY <3>1, <3>2, ProperBefore
    <3> QED
      BY <1>2, <1>5, <3>3 DEF LeavesRest
  <2>4. ComesFirst(data, tag, m, v)
    BY <1>2, <2>1, <2>2, <2>3 DEF ComesFirst
  <2>5. PICK u : u \in ElementValue(SubSeq(data, i, m), data[i])
    BY <1>7, <2>3
  <2>6. PICK n \in Nat, j \in Nat : ReadBerLen(data, i + 1) = {<<n, j>>} /\ i + 1 < j /\ j + n = m + 1
    BY <1>4, <1>6, <2>5, PieceIsElement, SMTT(60)
  <2>7. j + n <= Len(data) + 1 /\ (j + n) - 1 = m
    BY <1>1, <1>4, <2>6
  <2>8. ReadBerLen(data, c + 2) = {<<n, j>>} /\ c + 2 < j /\ data[c + 1] # tag
    BY <1>6, <1>7, <2>3, <2>6 DEF i
  <2> QED
    BY <2>4, <2>7, <2>8
<1> QED
  BY <1>8, <1>9

\* An element is its own value's.
LEMMA ElementFits ==
  ASSUME NEW data \in Seq(Byte), NEW i \in Nat \ {0}, NEW m \in Nat, i <= m, m <= Len(data),
         NEW n \in Nat, NEW j \in Nat, ReadBerLen(data, i + 1) = {<<n, j>>},
         i + 1 < j, j + n = m + 1
  PROVE  SubSeq(data, j, m) \in ElementValue(SubSeq(data, i, m), data[i])
<1>1. \A tag, v : (v \in ElementValue(SubSeq(data, i, m), tag)) <=>
        \E p, q \in Nat : /\ data[i] = tag /\ ReadBerLen(data, i + 1) = {<<p, q>>}
                         /\ i + 1 < q /\ q + p = m + 1 /\ v = SubSeq(data, q, m)
  BY PieceIsElement
<1>2. \A tag, v : data[i] = tag /\ v = SubSeq(data, j, m) => v \in ElementValue(SubSeq(data, i, m), tag)
  BY <1>1
<1> QED
  BY <1>2

\* And conversely.
LEMMA OneStepIsFirst ==
  ASSUME NEW data \in Seq(Byte), NEW tag, NEW v, NEW c \in Nat, c < Len(data),
         NEW n \in Nat, NEW j \in Nat, ReadBerLen(data, c + 2) = {<<n, j>>}, c + 2 < j,
         j + n <= Len(data) + 1,
         IF data[c + 1] = tag THEN v = SubSeq(data, j, (j + n) - 1)
         ELSE ComesFirst(data, tag, (j + n) - 1, v)
  PROVE  ComesFirst(data, tag, c, v)
<1> DEFINE m == (j + n) - 1
           i == c + 1
<1>1. Len(data) \in Nat
  BY LenProperties
<1>2. /\ i \in Nat \ {0} /\ m \in Nat /\ i <= m /\ m <= Len(data) /\ i + 1 = c + 2 /\ c < m
      /\ i + 1 < j /\ j + n = m + 1 /\ m \in 1 .. Len(data) /\ c \in c .. Len(data) - 1
  BY <1>1
<1>3. \A t, u : t = data[i] /\ u = SubSeq(data, j, m) => u \in ElementValue(SubSeq(data, i, m), t)
  <2> TAKE t, u
  <2> HAVE t = data[i] /\ u = SubSeq(data, j, m)
  <2> HIDE DEF m, i
  <2>1. ReadBerLen(data, i + 1) = {<<n, j>>}
    BY <1>2
  <2>2. SubSeq(data, j, m) \in ElementValue(SubSeq(data, i, m), data[i])
    BY <1>2, <2>1, ElementFits
  <2> QED
    BY <2>2
<1>4. SubSeq(data, i, m)[1] = data[i]
  <2> HIDE DEF m, i
  <2> QED
    BY <1>2, Cut
<1>5. CASE data[i] = tag
  <2> DEFINE cuts == {c}
  <2>1. Ending(cuts, m, c) = m
    <3>1. {d \in {c} \cup {m} : d > c} = {m}
      BY <1>2
    <3>2. First({m}) = m
      <4> HIDE DEF m
      <4> QED
        BY <1>2, FirstOfOne
    <3> QED
      BY <3>1, <3>2 DEF Ending
  <2>2. LastCut(cuts) = c
    <3>1. {x \in cuts : \A d \in cuts : d <= x} = {c}
      OBVIOUS
    <3>2. First({c}) = c
      BY FirstOfOne
    <3> QED
      BY <3>1, <3>2 DEF LastCut
  <2>3. Piece(data, cuts, m, c) = SubSeq(data, i, m)
    BY <2>1 DEF Piece
  <2>4. v = SubSeq(data, j, m)
    BY <1>5
  <2> HIDE DEF m, i
  <2>5. v \in ElementValue(Piece(data, cuts, m, LastCut(cuts)), tag)
    BY <1>3, <1>5, <2>2, <2>3, <2>4
  <2>6. Proper(data, tag, cuts, m)
    <3>1. ~ \E d \in cuts : d > c
      OBVIOUS
    <3>2. Piece(data, cuts, m, c)[1] = tag
      BY <1>4, <1>5, <2>3
    <3> QED
      BY <1>2, <3>1, <3>2 DEF Proper
  <2>7. cuts \in SUBSET (c .. Len(data) - 1) /\ c \in cuts
    BY <1>2
  <2> HIDE DEF cuts
  <2> QED
    BY <1>2, <2>5, <2>6, <2>7 DEF ComesFirst
<1>6. CASE data[i] # tag
  <2>1. ComesFirst(data, tag, m, v)
    BY <1>6
  <2> HIDE DEF m, i
  <2>2. PICK fewer \in SUBSET (m .. Len(data) - 1), last \in 1 .. Len(data) :
          /\ m \in fewer /\ Proper(data, tag, fewer, last)
          /\ v \in ElementValue(Piece(data, fewer, last, LastCut(fewer)), tag)
    BY <2>1 DEF ComesFirst
  <2> DEFINE cuts == fewer \cup {c}
  <2>3. Precedes(c, cuts, fewer, Len(data))
    BY <1>1, <1>2, <2>2 DEF Precedes
  <2>4. last \in Nat /\ \A d \in fewer : m <= d /\ d < last /\ d \in Nat
    BY <1>2, <2>2 DEF Proper
  <2>5. Piece(data, cuts, last, c) = SubSeq(data, i, m)
    <3>1. Ending(cuts, last, c) = m
      <4> DEFINE S == {d \in cuts \cup {last} : d > c}
      <4>1. S \in SUBSET Nat /\ m \in S /\ \A d \in S : m <= d
        <5>1. m \in fewer /\ m > c /\ m < last /\ m \in Nat
          BY <1>2, <2>2, <2>4
        <5>2. \A d \in S : d \in fewer \cup {last}
          OBVIOUS
        <5>3. \A d \in fewer \cup {last} : d \in Nat /\ m <= d
          BY <2>4, <5>1
        <5>4. m \in S
          BY <5>1
        <5> HIDE DEF S
        <5> QED
          BY <5>2, <5>3, <5>4
      <4>2. First(S) \in S /\ First(S) <= m
        <5> HIDE DEF S
        <5> QED
          BY <4>1, FirstIsLeast
      <4>3. First(S) = m
        <5> HIDE DEF S
        <5>1. First(S) \in Nat /\ m <= First(S)
          BY <4>1, <4>2
        <5> QED
          BY <1>2, <4>2, <5>1
      <4> QED
        BY <4>3 DEF Ending
    <3> QED
      BY <3>1 DEF Piece, i
  <2>6. SubSeq(data, j, m) \in ElementValue(SubSeq(data, i, m), data[i])
    BY <1>3
  <2>7. /\ Piece(data, cuts, last, c)[1] # tag
        /\ ElementValue(Piece(data, cuts, last, c), Piece(data, cuts, last, c)[1]) # {}
    BY <1>4, <1>6, <2>5, <2>6
  <2>8. c \in cuts /\ cuts \in SUBSET (c .. Len(data) - 1)
    BY <1>1, <1>2
  <2> HIDE DEF cuts
  <2>9. /\ Proper(data, tag, cuts, last)
        /\ Piece(data, cuts, last, LastCut(cuts)) = Piece(data, fewer, last, LastCut(fewer))
    <3>1. last \in Nat
      BY <2>4
    <3>2. LeavesRest(data, tag, cuts, fewer, last, c)
      BY <2>3, <3>1, ProperBefore
    <3> QED
      BY <2>2, <2>7, <3>2 DEF LeavesRest
  <2> QED
    BY <2>2, <2>8, <2>9 DEF ComesFirst
<1> QED
  BY <1>5, <1>6

\* Nothing comes first at the end.
LEMMA NothingAtEnd ==
  ASSUME NEW data \in Seq(Byte), NEW tag, NEW v
  PROVE  ~ComesFirst(data, tag, Len(data), v)
<1>1. Len(data) \in Nat
  BY LenProperties
<1> QED
  BY <1>1 DEF ComesFirst

\* Sets with the same members are equal.
LEMMA SetEqual ==
  ASSUME NEW A, NEW B, \A v : v \in A <=> v \in B
  PROVE  A = B
OBVIOUS

\* read_tlv gives the value of the first element with the tag, for every byte
\* string (piv.rs read_tlv).
THEOREM ReadTlvFindsTheFirst ==
  ASSUME NEW data \in Seq(Byte), NEW tag
  PROVE  ReadsFirst(data, tag)
<1> DEFINE len == Len(data)
           Right(c) == \A v : v \in Found(data, tag)[c + 1] <=> ComesFirst(data, tag, c, v)
           T == {k \in 0 .. len : ~Right(len - k)}
<1>1. len \in Nat
  BY LenProperties
<1>2. T = {}
  <2>1. SUFFICES ASSUME T # {}
                 PROVE  FALSE
    OBVIOUS
  <2>2. T \in SUBSET Nat
    BY <1>1
  <2>3. PICK k \in T : \A x \in T : k <= x
    <3> HIDE DEF T
    <3> QED
      BY <2>1, <2>2, Least
  <2>4. k \in 0 .. len /\ ~Right(len - k)
    OBVIOUS
  <2> DEFINE c == len - k
             i == c + 1
  <2>5. /\ c \in Nat /\ c <= len /\ i \in Nat \ {0} /\ i + 1 = c + 2 /\ i + 1 \in Nat \ {0}
        /\ (c < len => i <= len)
    BY <1>1, <2>4
  <2>6. ASSUME NEW d \in Nat, c < d, d <= len
        PROVE  Right(d)
    <3>1. len - d \in 0 .. len /\ ~(k <= len - d) /\ len - (len - d) = d
      BY <1>1, <2>4, <2>6
    <3>2. len - d \notin T
      BY <2>3, <3>1
    <3> HIDE DEF Right
    <3> QED
      BY <3>1, <3>2
  <2>7. ~Right(c)
    BY <2>4
  <2> HIDE DEF T, c, Right
  <2>8. CASE c = len
    <3>1. \A v : ~ComesFirst(data, tag, c, v)
      BY <2>8, NothingAtEnd
    <3>2. Found(data, tag)[c + 1] = {}
      BY <2>5, <2>8, FoundAt
    <3> QED
      BY <2>7, <3>1, <3>2 DEF Right
  <2>9. CASE c < len /\ ReadBerLen(data, c + 2) = {}
    <3>1. ASSUME NEW v, ComesFirst(data, tag, c, v)
          PROVE  FALSE
      <4>1. c < Len(data)
        BY <2>9
      <4>2. \E n, j \in Nat : /\ ReadBerLen(data, c + 2) = {<<n, j>>} /\ c + 2 < j
                             /\ j + n <= Len(data) + 1
                             /\ IF data[c + 1] = tag THEN v = SubSeq(data, j, (j + n) - 1)
                                ELSE ComesFirst(data, tag, (j + n) - 1, v)
        BY <2>5, <3>1, <4>1, FirstIsOneStep
      <4> QED
        BY <2>9, <4>2
    <3>2. Found(data, tag)[c + 1] = {}
      BY <2>5, <2>9, FoundAt
    <3> QED
      BY <2>7, <3>1, <3>2 DEF Right
  <2>10. CASE c < len /\ ReadBerLen(data, c + 2) # {}
    <3>1. PICK n \in Nat, j \in Nat : i + 1 < j /\ ReadBerLen(data, i + 1) = {<<n, j>>}
      BY <2>5, <2>10, ReadIsField
    <3>2. Found(data, tag)[i] = IF j + n > len + 1 THEN {}
                                ELSE IF data[i] = tag THEN {SubSeq(data, j, (j + n) - 1)}
                                ELSE Found(data, tag)[j + n]
      <4>1. i \in Nat \ {0} /\ i <= Len(data)
        BY <2>5, <2>10
      <4>2. \A p, q \in Nat : i <= Len(data) /\ ReadBerLen(data, i + 1) = {<<p, q>>} =>
              Found(data, tag)[i] =
                IF q + p > Len(data) + 1 THEN {}
                ELSE IF data[i] = tag THEN {SubSeq(data, q, (q + p) - 1)}
                ELSE Found(data, tag)[q + p]
        BY <4>1, FoundAt, ZenonT(60)
      <4> HIDE DEF i
      <4> QED
        BY <3>1, <4>1, <4>2
    <3>3. ASSUME NEW v
          PROVE  ComesFirst(data, tag, c, v) <=>
                   /\ j + n <= len + 1
                   /\ IF data[i] = tag THEN v = SubSeq(data, j, (j + n) - 1)
                      ELSE ComesFirst(data, tag, (j + n) - 1, v)
      <4>1. ASSUME ComesFirst(data, tag, c, v)
            PROVE  /\ j + n <= len + 1
                   /\ IF data[i] = tag THEN v = SubSeq(data, j, (j + n) - 1)
                      ELSE ComesFirst(data, tag, (j + n) - 1, v)
        <5>1. PICK p \in Nat, q \in Nat :
                /\ ReadBerLen(data, c + 2) = {<<p, q>>} /\ q + p <= len + 1
                /\ IF data[c + 1] = tag THEN v = SubSeq(data, q, (q + p) - 1)
                   ELSE ComesFirst(data, tag, (q + p) - 1, v)
          BY <2>5, <2>10, <4>1, FirstIsOneStep
        <5>2. <<n, j>> = <<p, q>>
          BY <2>5, <3>1, <5>1
        <5>3. n = p /\ j = q
          BY <5>2
        <5> QED
          BY <5>1, <5>3
      <4>2. ASSUME j + n <= len + 1, IF data[i] = tag THEN v = SubSeq(data, j, (j + n) - 1)
                                     ELSE ComesFirst(data, tag, (j + n) - 1, v)
            PROVE  ComesFirst(data, tag, c, v)
        <5>1. ReadBerLen(data, c + 2) = {<<n, j>>} /\ c + 2 < j
          BY <2>5, <3>1
        <5> QED
          BY <2>5, <2>10, <4>2, <5>1, OneStepIsFirst
      <4> QED
        BY <4>1, <4>2
    <3>4. CASE ~(j + n <= len + 1)
      <4>1. Found(data, tag)[i] = {}
        BY <1>1, <3>1, <3>2, <3>4
      <4> QED
        BY <2>7, <3>3, <3>4, <4>1 DEF Right
    <3>5. CASE j + n <= len + 1 /\ data[i] = tag
      <4>1. Found(data, tag)[i] = {SubSeq(data, j, (j + n) - 1)}
        BY <1>1, <3>1, <3>2, <3>5
      <4> QED
        BY <2>7, <3>3, <3>5, <4>1 DEF Right
    <3>6. CASE j + n <= len + 1 /\ data[i] # tag
      <4> DEFINE d == (j + n) - 1
      <4>1. d \in Nat /\ c < d /\ d <= len /\ d + 1 = j + n
        BY <1>1, <2>5, <3>1, <3>6
      <4>2. Found(data, tag)[i] = Found(data, tag)[d + 1]
        BY <1>1, <3>1, <3>2, <3>6
      <4>3. Right(d)
        <5> HIDE DEF d
        <5> QED
          BY <2>6, <4>1
      <4> QED
        BY <2>7, <3>3, <3>6, <4>2, <4>3 DEF Right
    <3> QED
      BY <3>4, <3>5, <3>6
  <2> QED
    BY <1>1, <2>5, <2>8, <2>9, <2>10
<1>3. Right(0)
  <2>1. len \in 0 .. len /\ len - len = 0
    BY <1>1
  <2> HIDE DEF Right
  <2> QED
    BY <1>2, <2>1
<1>4. \A v : v \in ReadTlv(data, tag) <=> v \in FirstValues(data, tag)
  <2>1. 0 + 1 = 1
    OBVIOUS
  <2> QED
    BY <1>3, <2>1, ReadTlvStarts, FirstValuesComeFirst
<1>5. ReadTlv(data, tag) = FirstValues(data, tag)
  BY <1>4, SetEqual
<1> QED
  BY <1>5 DEF ReadsFirst

-----------------------------------------------------------------------------
(* Templates.                                                               *)

\* p, and an element with tag t and value v after it.
Laid(p, t, v) == ((p \o <<t>>) \o BerLen(Len(v))) \o v

\* At place i of data, after p, is an element with tag t; its value begins at
\* place j and goes on to the end.
EndsWith(data, i, j, p, t, v) ==
  /\ data \in Seq(Byte) /\ i \in Nat \ {0} /\ i <= Len(data) /\ data[i] = t
  /\ i = Len(p) + 1 /\ \A k \in 1 .. Len(p) : data[k] = p[k]
  /\ Len(v) \in Nat /\ j \in Nat /\ i + 1 < j /\ j + Len(v) = Len(data) + 1
  /\ ReadBerLen(data, i + 1) = {<<Len(v), j>>}
  /\ SubSeq(data, j, Len(data)) = v

\* An element laid after p is read as one.
LEMMA LaidIsRead ==
  ASSUME NEW p \in Seq(Byte), NEW t \in Byte, NEW v \in Seq(Byte), Len(v) < Weight[4]
  PROVE  \E i, j : EndsWith(Laid(p, t, v), i, j, p, t, v)
<1> DEFINE f == BerLen(Len(v))
           q == p \o <<t>>
           data == (q \o f) \o v
           i == Len(p) + 1
           j == i + 1 + Len(f)
<1>1. /\ Len(v) \in Nat /\ f \in Seq(Byte) /\ Len(f) \in Nat /\ 0 < Len(f)
      /\ LengthField(f, Len(v))
  BY LengthWritten, LenProperties
<1> HIDE DEF f
<1>2. /\ q \in Seq(Byte) /\ Len(p) \in Nat /\ Len(q) = Len(p) + 1 /\ q[Len(p) + 1] = t
      /\ \A k \in 1 .. Len(p) : q[k] = p[k]
  <2>1. <<t>> \in Seq(Byte) /\ Len(<<t>>) = 1 /\ <<t>>[1] = t
    OBVIOUS
  <2> QED
    BY <2>1, ByteConcat
<1> HIDE DEF q
<1>3. /\ q \o f \in Seq(Byte) /\ Len(q \o f) = Len(q) + Len(f)
      /\ \A k \in 1 .. Len(q) : (q \o f)[k] = q[k]
  BY <1>1, <1>2, ByteConcat
<1>4. /\ data \in Seq(Byte) /\ Len(data) = Len(q) + Len(f) + Len(v)
      /\ \A k \in 1 .. Len(q) : data[k] = q[k]
  <2>1. /\ data \in Seq(Byte) /\ Len(data) = Len(q \o f) + Len(v)
        /\ \A k \in 1 .. Len(q \o f) : data[k] = (q \o f)[k]
    BY <1>3, ByteConcat
  <2> QED
    BY <1>1, <1>2, <1>3, <2>1
<1>5. SubSeq(data, Len(q) + 1, Len(q) + Len(f)) = f
  BY <1>1, <1>2, CutOut
<1>6. SubSeq(data, Len(q \o f) + 1, Len(q \o f) + Len(v)) = v
  BY <1>3, CutAfter
<1> HIDE DEF data
<1>7. /\ i \in Nat \ {0} /\ i + 1 = Len(q) + 1 /\ j \in Nat /\ i + 1 < j /\ j - 1 = Len(q) + Len(f)
      /\ i <= Len(data) /\ j <= Len(data) + 1 /\ j + Len(v) = Len(data) + 1
      /\ j = Len(q \o f) + 1 /\ Len(data) = Len(q \o f) + Len(v)
  BY <1>1, <1>2, <1>3, <1>4
<1>8. data[i] = t /\ \A k \in 1 .. Len(p) : data[k] = p[k]
  BY <1>2, <1>4
<1>9. ReadBerLen(data, i + 1) = {<<Len(v), j>>}
  <2>1. SubSeq(data, i + 1, j - 1) = f
    BY <1>5, <1>7
  <2> DEFINE a == i + 1
             n == Len(v)
  <2>2. a \in Nat \ {0} /\ j \in Nat /\ a < j /\ j <= Len(data) + 1
    BY <1>7
  <2>3. n \in Nat /\ LengthField(SubSeq(data, a, j - 1), n)
    BY <1>1, <2>1
  <2> HIDE DEF i, j, a, n
  <2>4. ReadBerLen(data, a) = {<<n, j>>}
    BY <1>4, <2>2, <2>3, FieldIsRead
  <2> QED
    BY <2>4 DEF a, n
<1>10. SubSeq(data, j, Len(data)) = v
  BY <1>6, <1>7
<1> HIDE DEF i, j
<1> QED
  <2>1. i = Len(p) + 1 /\ data = Laid(p, t, v)
    BY DEF i, data, q, f, Laid
  <2>2. EndsWith(data, i, j, p, t, v)
    BY <1>1, <1>4, <1>7, <1>8, <1>9, <1>10, <2>1 DEF EndsWith
  <2> QED
    BY <2>1, <2>2

\* What is at the end is found by read_tlv where the search reaches it.
LEMMA LastIsFound ==
  ASSUME NEW data, NEW i, NEW j, NEW p, NEW t, NEW v, EndsWith(data, i, j, p, t, v)
  PROVE  Found(data, t)[i] = {v}
<1>1. /\ data \in Seq(Byte) /\ i \in Nat \ {0} /\ i <= Len(data) /\ data[i] = t
      /\ Len(v) \in Nat /\ j \in Nat /\ j + Len(v) = Len(data) + 1
      /\ ReadBerLen(data, i + 1) = {<<Len(v), j>>} /\ SubSeq(data, j, Len(data)) = v
  BY DEF EndsWith
<1>2. \A n, k \in Nat : i <= Len(data) /\ ReadBerLen(data, i + 1) = {<<n, k>>} =>
        Found(data, t)[i] = IF k + n > Len(data) + 1 THEN {}
                            ELSE IF data[i] = t THEN {SubSeq(data, k, (k + n) - 1)}
                            ELSE Found(data, t)[k + n]
  <2>1. data \in Seq(Byte) /\ i \in Nat \ {0} /\ i <= Len(data)
    BY <1>1
  <2> QED
    BY <2>1, FoundAt, ZenonT(60)
<1>3. Len(data) \in Nat
  BY <1>1, LenProperties
<1> DEFINE n == Len(v)
<1> HIDE DEF n
<1>4. Found(data, t)[i] = IF j + n > Len(data) + 1 THEN {}
                          ELSE IF data[i] = t THEN {SubSeq(data, j, (j + n) - 1)}
                          ELSE Found(data, t)[j + n]
  BY <1>1, <1>2 DEF n
<1>5. ~(j + n > Len(data) + 1) /\ (j + n) - 1 = Len(data)
  BY <1>1, <1>3 DEF n
<1> QED
  BY <1>1, <1>4, <1>5

\* A byte string that is one element with a tag has that element's value.
LEMMA OneElement ==
  ASSUME NEW data, NEW i, NEW j, NEW p, NEW t, NEW v, EndsWith(data, i, j, p, t, v), i = 1
  PROVE  ElementValue(data, t) = {v}
<1> DEFINE n == Len(v)
           len == Len(data)
<1>1. /\ data \in Seq(Byte) /\ i \in Nat \ {0} /\ i <= len /\ data[i] = t
      /\ n \in Nat /\ j \in Nat /\ i + 1 < j /\ j + n = len + 1
      /\ ReadBerLen(data, i + 1) = {<<n, j>>} /\ SubSeq(data, j, len) = v
  BY DEF EndsWith
<1>2. len \in Nat /\ len <= Len(data)
  BY <1>1, LenProperties
<1>3. SubSeq(data, i, len) = data
  BY <1>1
<1> HIDE DEF n, len
<1>4. \A u : u \in ElementValue(SubSeq(data, i, len), t) <=>
        \E m, k \in Nat : /\ data[i] = t /\ ReadBerLen(data, i + 1) = {<<m, k>>}
                          /\ i + 1 < k /\ k + m = len + 1 /\ u = SubSeq(data, k, len)
  BY <1>1, <1>2, PieceIsElement, SMTT(60)
<1>5. v \in ElementValue(data, t)
  BY <1>1, <1>3, <1>4
<1>6. ASSUME NEW u \in ElementValue(data, t)
      PROVE  u = v
  <2>1. PICK m \in Nat, k \in Nat : ReadBerLen(data, i + 1) = {<<m, k>>} /\ u = SubSeq(data, k, len)
    BY <1>3, <1>4
  <2>2. <<m, k>> = <<n, j>>
    BY <1>1, <2>1
  <2>3. k = j
    BY <2>2
  <2> QED
    BY <1>1, <2>1, <2>3
<1> QED
  BY <1>5, <1>6

\* An element with tag t and value v.
Element(t, v) == (<<t>> \o BerLen(Len(v))) \o v

\* Its value is v, and that is what read_tlv finds.
LEMMA ElementRead ==
  ASSUME NEW t \in Byte, NEW v \in Seq(Byte), Len(v) < Weight[4]
  PROVE  /\ Element(t, v) \in Seq(Byte)
         /\ ElementValue(Element(t, v), t) = {v}
         /\ ReadTlv(Element(t, v), t) = {v}
<1> DEFINE p == << >>
           e == Laid(p, t, v)
<1>1. p \in Seq(Byte) /\ Len(p) = 0
  OBVIOUS
<1>2. e = Element(t, v)
  BY DEF Laid, Element
<1> HIDE DEF p
<1>3. PICK i, j : EndsWith(e, i, j, p, t, v)
  BY <1>1, LaidIsRead
<1> HIDE DEF e
<1>4. e \in Seq(Byte) /\ i = 1
  BY <1>1, <1>3 DEF EndsWith
<1>5. ElementValue(e, t) = {v}
  BY <1>3, <1>4, OneElement
<1>6. ReadTlv(e, t) = {v}
  <2>1. Found(e, t)[i] = {v}
    BY <1>3, LastIsFound
  <2> QED
    BY <1>4, <2>1, ReadTlvStarts
<1> QED
  BY <1>2, <1>4, <1>5, <1>6

\* How many bytes a length takes.
TakesThree(n) ==
  /\ n <= 65535 => Len(BerLen(n)) <= 3
  /\ n >= 256 => Len(BerLen(n)) >= 3

\* Lengths up to 65535 take three bytes at most, those from 256 on three at least.
LEMMA LengthSizes ==
  ASSUME NEW n \in Nat
  PROVE  TakesThree(n)
<1> USE DEF TakesThree
<1>1. CASE n < 128
  <2>1. BerLen(n) = <<n>>
    BY <1>1 DEF BerLen
  <2> QED
    BY <1>1, <2>1
<1>2. CASE ~(n < 128) /\ n <= 255
  <2>1. BerLen(n) = <<\h81, n>>
    BY <1>2 DEF BerLen
  <2> QED
    BY <1>2, <2>1
<1>3. CASE ~(n < 128) /\ ~(n <= 255) /\ n <= 65535
  <2>1. BerLen(n) = <<\h82, n \div 256, n % 256>>
    BY <1>3, SMT DEF BerLen
  <2>2. Len(BerLen(n)) = 3
    BY <2>1
  <2> QED
    BY <2>2
<1>4. CASE ~(n < 128) /\ ~(n <= 255) /\ ~(n <= 65535)
  <2>1. BerLen(n) = <<\h83, (n \div 65536) % 256, (n \div 256) % 256, n % 256>>
    BY <1>4, SMT DEF BerLen
  <2>2. Len(BerLen(n)) = 4
    BY <2>1
  <2> QED
    BY <1>4, <2>2, SMT
<1> QED
  BY <1>1, <1>2, <1>3, <1>4, SMT

\* The bytes a template is made of.
LEMMA Tags ==
  /\ TAG_DYNAMIC_AUTH \in Byte /\ TAG_RESPONSE \in Byte /\ TAG_CHALLENGE \in Byte
  /\ TAG_CHALLENGE # TAG_RESPONSE
BY DEF TAG_DYNAMIC_AUTH, TAG_RESPONSE, TAG_CHALLENGE, Byte

\* The size of a template's inside, with at most four bytes before it.
LEMMA InnerSize ==
  ASSUME NEW p \in Seq(Byte), NEW m \in Seq(Byte), Len(p) < 5, Len(m) + 8 < Weight[4]
  PROVE  LET inner == (p \o BerLen(Len(m))) \o m IN
         /\ inner \in Seq(Byte) /\ Len(inner) < Weight[4] /\ Len(m) < Weight[4]
         /\ Len(inner) = Len(p) + Len(BerLen(Len(m))) + Len(m)
         /\ Len(inner) \in Nat /\ Len(p) \in Nat /\ Len(BerLen(Len(m))) \in Nat /\ Len(m) \in Nat
<1> DEFINE f == BerLen(Len(m))
           inner == (p \o f) \o m
<1>1. Len(m) \in Nat /\ Len(p) \in Nat /\ Len(m) < Weight[4]
  BY LenProperties, SMT DEF Weight
<1>2. f \in Seq(Byte) /\ Len(f) \in Nat /\ Len(f) < 5
  BY <1>1, LengthWritten
<1> HIDE DEF f
<1>3. p \o f \in Seq(Byte) /\ Len(p \o f) = Len(p) + Len(f)
  BY <1>2, ByteConcat
<1>4. inner \in Seq(Byte) /\ Len(inner) = Len(p \o f) + Len(m)
  BY <1>3, ByteConcat
<1> HIDE DEF inner
<1>5. Len(inner) = Len(p) + Len(f) + Len(m) /\ Len(inner) \in Nat /\ Len(inner) < Weight[4]
  BY <1>1, <1>2, <1>3, <1>4, SMT DEF Weight
<1> QED
  BY <1>1, <1>2, <1>4, <1>5 DEF inner, f

\* build_general_authenticate_data makes one template that asks for an empty
\* response and then holds the message.
LEMMA TemplateHolds ==
  ASSUME NEW m \in Seq(Byte), Len(m) + 8 < Weight[4]
  PROVE  \E d \in ElementValue(GeneralAuthenticateData(m), TAG_DYNAMIC_AUTH) :
           /\ SubSeq(d, 1, 2) = <<TAG_RESPONSE, 0>>
           /\ ElementValue(SubSeq(d, 3, Len(d)), TAG_CHALLENGE) = {m}
<1> DEFINE head == <<TAG_RESPONSE, 0, TAG_CHALLENGE>>
           asks == <<TAG_RESPONSE, 0>>
           one == <<TAG_CHALLENGE>>
           f == BerLen(Len(m))
           d == (head \o f) \o m
           x == Element(TAG_CHALLENGE, m)
<1>1. /\ head \in Seq(Byte) /\ Len(head) = 3 /\ asks \in Seq(Byte) /\ Len(asks) = 2
      /\ one \in Seq(Byte) /\ head = asks \o one
  <2>1. 0 \in Byte
    BY DEF Byte
  <2> QED
    BY <2>1, Tags
<1>2. d \in Seq(Byte) /\ Len(d) < Weight[4] /\ Len(m) < Weight[4]
  <2>1. head \in Seq(Byte) /\ Len(head) < 5
    BY <1>1
  <2> HIDE DEF head
  <2> QED
    BY <2>1, InnerSize
<1>3. Len(m) \in Nat /\ f \in Seq(Byte)
  BY <1>2, LengthWritten, LenProperties
<1>4. x \in Seq(Byte) /\ ElementValue(x, TAG_CHALLENGE) = {m}
  BY <1>2, Tags, ElementRead
<1>5. d = asks \o x
  <2>1. x = (one \o f) \o m
    BY DEF Element
  <2> HIDE DEF x, asks, one, f, head
  <2>2. d = ((asks \o one) \o f) \o m
    BY <1>1
  <2>3. (asks \o one) \o f = asks \o (one \o f)
    BY <1>1, <1>3, ByteAssociative, SMTT(60)
  <2>4. one \o f \in Seq(Byte)
    BY <1>1, <1>3, ByteConcat
  <2>5. (asks \o (one \o f)) \o m = asks \o ((one \o f) \o m)
    BY <1>1, <2>4, ByteAssociative, SMTT(60)
  <2> QED
    BY <2>1, <2>2, <2>3, <2>5
<1> HIDE DEF d, x
<1>6. SubSeq(d, 3, Len(d)) = x
  <2>1. Len(d) = Len(asks) + Len(x)
    BY <1>1, <1>4, <1>5, ByteConcat
  <2>2. SubSeq(asks \o x, Len(asks) + 1, Len(asks) + Len(x)) = x
    BY <1>1, <1>4, CutAfter
  <2> QED
    BY <1>1, <1>5, <2>1, <2>2
<1>7. SubSeq(d, 1, 2) = asks
  <2> DEFINE none == << >>
  <2>1. none \in Seq(Byte) /\ Len(none) = 0 /\ none \o asks = asks
    OBVIOUS
  <2> HIDE DEF none
  <2>2. SubSeq((none \o asks) \o x, Len(none) + 1, Len(none) + Len(asks)) = asks
    BY <1>1, <1>4, <2>1, CutOut, ZenonT(60)
  <2> HIDE DEF asks
  <2> QED
    BY <1>1, <1>5, <2>1, <2>2
<1>8. ElementValue(GeneralAuthenticateData(m), TAG_DYNAMIC_AUTH) = {d}
  <2>1. GeneralAuthenticateData(m) = Element(TAG_DYNAMIC_AUTH, d)
    BY DEF GeneralAuthenticateData, Element, d
  <2>2. ElementValue(Element(TAG_DYNAMIC_AUTH, d), TAG_DYNAMIC_AUTH) = {d}
    BY <1>2, Tags, ElementRead
  <2> QED
    BY <2>1, <2>2
<1> QED
  BY <1>4, <1>6, <1>7, <1>8

\* The elements that may come before a signature are passed over.
LEMMA SignatureIsFound ==
  ASSUME NEW m \in Seq(Byte), Len(m) < Weight[4],
         NEW before \in {<< >>, <<TAG_CHALLENGE, 1, TAG_RESPONSE>>}
  PROVE  ReadTlv(Laid(before, TAG_RESPONSE, m), TAG_RESPONSE) = {m}
<1> DEFINE e == Laid(before, TAG_RESPONSE, m)
<1>1. before \in Seq(Byte)
  <2>1. 1 \in Byte
    BY DEF Byte
  <2>2. << >> \in Seq(Byte) /\ <<TAG_CHALLENGE, 1, TAG_RESPONSE>> \in Seq(Byte)
    BY <2>1, Tags
  <2> QED
    BY <2>2
<1>2. PICK i, j : EndsWith(e, i, j, before, TAG_RESPONSE, m)
  BY <1>1, Tags, LaidIsRead
<1> HIDE DEF e
<1>3. Found(e, TAG_RESPONSE)[i] = {m}
  BY <1>2, LastIsFound
<1>4. CASE before = << >>
  <2>1. i = 1
    BY <1>2, <1>4 DEF EndsWith
  <2> QED
    BY <1>3, <2>1, ReadTlvStarts DEF e
<1>5. CASE before = <<TAG_CHALLENGE, 1, TAG_RESPONSE>>
  <2>1. /\ e \in Seq(Byte) /\ i = 4 /\ Len(e) >= 4
        /\ e[1] = TAG_CHALLENGE /\ e[2] = 1
    <3>1. Len(before) = 3 /\ before[1] = TAG_CHALLENGE /\ before[2] = 1
      BY <1>5
    <3>2. e \in Seq(Byte) /\ i = Len(before) + 1 /\ i <= Len(e) /\ \A k \in 1 .. Len(before) : e[k] = before[k]
      BY <1>2 DEF EndsWith
    <3>3. Len(e) \in Nat
      BY <3>2, LenProperties
    <3>4. e[1] = before[1] /\ e[2] = before[2]
      BY <3>1, <3>2
    <3> QED
      BY <3>1, <3>2, <3>3, <3>4
  <2>2. Len(e) \in Nat
    BY <2>1, LenProperties
  <2> DEFINE one == 1
             two == 2
             three == 3
  <2>3. /\ one \in Nat \ {0} /\ one + 1 = two /\ two \in Nat \ {0} /\ three \in Nat
        /\ two + 1 = three /\ three + one = i /\ one <= Len(e) /\ two <= Len(e)
        /\ e[one] = TAG_CHALLENGE /\ e[two] = one /\ e[two] < 128 /\ one \in Nat
        /\ ~(three + one > Len(e) + 1)
    BY <2>1, <2>2
  <2> HIDE DEF one, two, three
  <2>4. ReadBerLen(e, two) = {<<one, three>>}
    <3>1. two <= Len(e) /\ e[two] < 128 => ReadBerLen(e, two) = {<<e[two], two + 1>>}
      BY <2>1, <2>3, LoopUnfolded
    <3> QED
      BY <2>3, <3>1
  <2>5. \A n, k \in Nat : one <= Len(e) /\ ReadBerLen(e, one + 1) = {<<n, k>>} =>
          Found(e, TAG_RESPONSE)[one] =
            IF k + n > Len(e) + 1 THEN {}
            ELSE IF e[one] = TAG_RESPONSE THEN {SubSeq(e, k, (k + n) - 1)}
            ELSE Found(e, TAG_RESPONSE)[k + n]
    <3>1. e \in Seq(Byte) /\ one \in Nat \ {0} /\ one <= Len(e)
      BY <2>1, <2>3
    <3> QED
      BY <3>1, FoundAt
  <2>6. Found(e, TAG_RESPONSE)[one] = Found(e, TAG_RESPONSE)[i]
    <3>1. one <= Len(e) /\ ReadBerLen(e, one + 1) = {<<one, three>>}
      BY <2>3, <2>4
    <3>2. Found(e, TAG_RESPONSE)[one] =
            IF three + one > Len(e) + 1 THEN {}
            ELSE IF e[one] = TAG_RESPONSE THEN {SubSeq(e, three, (three + one) - 1)}
            ELSE Found(e, TAG_RESPONSE)[three + one]
      BY <2>3, <2>5, <3>1
    <3>3. e[one] # TAG_RESPONSE
      BY <2>3, Tags
    <3> QED
      BY <2>3, <3>2, <3>3
  <2>7. ReadTlv(e, TAG_RESPONSE) = Found(e, TAG_RESPONSE)[one]
    BY ReadTlvStarts DEF one
  <2> QED
    BY <1>3, <2>6, <2>7 DEF e
<1> QED
  BY <1>4, <1>5

\* The template of GENERAL AUTHENTICATE holds the message, and a signature is
\* read back from the card's template, for every message of less than 2^24 - 8
\* bytes (piv.rs build_general_authenticate_data, parse_signature_response).
THEOREM TemplatesReadBack ==
  ASSUME NEW m \in Seq(Byte), Len(m) + 8 < Weight[4]
  PROVE  MessageReadBack(m)
<1>1. ASSUME NEW before \in {<< >>, <<TAG_CHALLENGE, 1, TAG_RESPONSE>>}
      PROVE  LET inner == before \o <<TAG_RESPONSE>> \o BerLen(Len(m)) \o m IN
             SignatureIn(<<TAG_DYNAMIC_AUTH>> \o BerLen(Len(inner)) \o inner) = {m}
  <2> DEFINE tag == <<TAG_RESPONSE>>
             p == before \o tag
             inner == Laid(before, TAG_RESPONSE, m)
             resp == Element(TAG_DYNAMIC_AUTH, inner)
  <2>1. p \in Seq(Byte) /\ Len(p) < 5
    <3>1. 1 \in Byte
      BY DEF Byte
    <3>2. CASE before = << >>
      <4>1. p = tag
        BY <3>2
      <4>2. tag \in Seq(Byte) /\ Len(tag) = 1
        BY Tags
      <4> HIDE DEF p, tag
      <4> QED
        BY <4>1, <4>2
    <3>3. CASE before = <<TAG_CHALLENGE, 1, TAG_RESPONSE>>
      <4>1. before \in Seq(Byte) /\ Len(before) = 3 /\ tag \in Seq(Byte) /\ Len(tag) = 1
        BY <3>1, <3>3, Tags
      <4>2. p \in Seq(Byte) /\ Len(p) = Len(before) + Len(tag)
        BY <4>1, ByteConcat
      <4> HIDE DEF p, tag
      <4> QED
        BY <4>1, <4>2
    <3> QED
      BY <3>2, <3>3
  <2>2. inner \in Seq(Byte) /\ Len(inner) < Weight[4] /\ Len(m) < Weight[4]
    <3>1. inner = (p \o BerLen(Len(m))) \o m
      BY DEF Laid
    <3> HIDE DEF p, inner
    <3> QED
      BY <2>1, <3>1, InnerSize
  <2>3. ReadTlv(inner, TAG_RESPONSE) = {m}
    BY <2>2, SignatureIsFound
  <2> HIDE DEF inner
  <2>4. ReadTlv(resp, TAG_DYNAMIC_AUTH) = {inner}
    BY <2>2, Tags, ElementRead
  <2> HIDE DEF resp
  <2>5. SignatureIn(resp) = {m}
    BY <2>3, <2>4 DEF SignatureIn
  <2>6. inner = before \o <<TAG_RESPONSE>> \o BerLen(Len(m)) \o m
    BY DEF inner, Laid
  <2>7. resp = <<TAG_DYNAMIC_AUTH>> \o BerLen(Len(inner)) \o inner
    BY DEF resp, Element
  <2> QED
    BY <2>5, <2>6, <2>7
<1>2. \E d \in ElementValue(GeneralAuthenticateData(m), TAG_DYNAMIC_AUTH) :
        /\ SubSeq(d, 1, 2) = <<TAG_RESPONSE, 0>>
        /\ ElementValue(SubSeq(d, 3, Len(d)), TAG_CHALLENGE) = {m}
  BY TemplateHolds
<1> QED
  BY <1>1, <1>2 DEF MessageReadBack

\* MaxTemplate: a template of up to 65 525 bytes fits an extended command, a
\* longer one is refused by the card (apdu.rs build_apdu_ext, piv.rs
\* build_general_authenticate_data).
LEMMA TemplatesThatFit ==
  ASSUME NEW m \in Seq(Byte), Len(m) + 8 < Weight[4]
  PROVE  CardReads(BuildApduExt(Head4, GeneralAuthenticateData(m), << 0 >>)) # {}
           <=> Len(m) <= 65525
<1> DEFINE head == <<TAG_RESPONSE, 0, TAG_CHALLENGE>>
           tag == <<TAG_DYNAMIC_AUTH>>
           f == BerLen(Len(m))
           d == (head \o f) \o m
           g == BerLen(Len(d))
           t == (tag \o g) \o d
           apdu == BuildApduExt(Head4, t, <<0>>)
<1>1. t = GeneralAuthenticateData(m)
  BY DEF GeneralAuthenticateData
<1>2. head \in Seq(Byte) /\ Len(head) = 3 /\ tag \in Seq(Byte) /\ Len(tag) = 1
  <2>1. 0 \in Byte
    BY DEF Byte
  <2> QED
    BY <2>1, Tags
<1>3. /\ d \in Seq(Byte) /\ Len(d) < Weight[4] /\ Len(d) = 3 + Len(f) + Len(m)
      /\ Len(d) \in Nat /\ Len(f) \in Nat /\ Len(m) \in Nat
  <2>1. head \in Seq(Byte) /\ Len(head) < 5
    BY <1>2
  <2> HIDE DEF head
  <2>2. /\ d \in Seq(Byte) /\ Len(d) < Weight[4] /\ Len(d) = Len(head) + Len(f) + Len(m)
        /\ Len(d) \in Nat /\ Len(f) \in Nat /\ Len(m) \in Nat
    BY <2>1, InnerSize
  <2> QED
    BY <1>2, <2>2
<1> HIDE DEF head, d
<1>4. g \in Seq(Byte) /\ Len(g) \in Nat
  BY <1>3, LengthWritten
<1>5. /\ Len(m) <= 65535 => Len(f) <= 3
      /\ Len(m) >= 256 => Len(f) >= 3
  <2>1. TakesThree(Len(m))
    BY <1>3, LengthSizes
  <2> QED
    BY <2>1, SMT DEF TakesThree
<1>6. /\ Len(d) <= 65535 => Len(g) <= 3
      /\ Len(d) >= 256 => Len(g) >= 3
  <2>1. TakesThree(Len(d))
    BY <1>3, LengthSizes
  <2> QED
    BY <2>1, SMT DEF TakesThree
<1> HIDE DEF f, g, tag
<1>7. t \in Seq(Byte) /\ Len(t) = 1 + Len(g) + Len(d)
  <2>1. tag \o g \in Seq(Byte) /\ Len(tag \o g) = 1 + Len(g)
    BY <1>2, <1>4, ByteConcat, ZenonT(60)
  <2>2. t \in Seq(Byte) /\ Len(t) = Len(tag \o g) + Len(d)
    BY <1>3, <2>1, ByteConcat
  <2> QED
    BY <2>1, <2>2
<1> HIDE DEF t
<1>8. (0 < Len(t) /\ Len(t) < 65536) <=> Len(m) <= 65525
  BY <1>3, <1>4, <1>5, <1>6, <1>7, SMT
<1>9. CardReads(apdu) = IF 0 < Len(t) /\ Len(t) < 65536 THEN Command(t, 65536) ELSE {}
  <2>1. Head4 \in Seq(Byte) /\ Len(Head4) = 4
    <3>1. 0 \in Byte /\ \h87 \in Byte /\ \hE0 \in Byte /\ AUTH \in Byte
      BY DEF Byte, AUTH
    <3> QED
      BY <3>1 DEF Head4
  <2> QED
    BY <1>7, <2>1, ExtendedCommandRead DEF ExtReadBack
<1>10. \A le : Command(t, le) # {}
  BY DEF Command
<1> QED
  BY <1>1, <1>8, <1>9, <1>10, SMT

\* The messages of the runs.
LEMMA Fillers ==
  ASSUME NEW n \in Nat
  PROVE  Filler(n) \in Seq(Byte) /\ Len(Filler(n)) = n
<1>1. \A i \in 1 .. n : i % 3 \in Byte
  BY DEF Byte
<1>2. Filler(n) \in [1 .. n -> Byte]
  BY <1>1 DEF Filler
<1> QED
  BY <1>2

-----------------------------------------------------------------------------
(* Keys found by a pattern.                                                 *)

\* pattern does not begin within s.
Before(s, pattern) == pattern # << >> /\ \A i \in 1 .. Len(s) : s[i] # pattern[1]

\* A key of n bytes is found where such a pattern ends.
KeyAt(s, pattern, key, n, rest, data) ==
  /\ Len(key) = n
  /\ data = ((s \o pattern) \o key) \o rest
  /\ s \in Seq(Byte) /\ pattern \in Seq(Byte) /\ key \in Seq(Byte) /\ rest \in Seq(Byte)
  /\ Before(s, pattern)

\* After gives the key that stands there.
LEMMA KeyIsFound ==
  ASSUME NEW s, NEW pattern, NEW key, NEW n, NEW rest, NEW data,
         KeyAt(s, pattern, key, n, rest, data)
  PROVE  After(data, pattern, n) = {key}
<1> DEFINE q == s \o pattern
           p == Len(pattern)
           i == Len(s) + 1
           start == First(Windows(data, pattern)) + p
<1>0. /\ s \in Seq(Byte) /\ pattern \in Seq(Byte) /\ key \in Seq(Byte) /\ rest \in Seq(Byte)
      /\ data = (q \o key) \o rest /\ Len(key) = n
      /\ pattern # << >> /\ \A k \in 1 .. Len(s) : s[k] # pattern[1]
  BY DEF KeyAt, Before
<1>1. /\ Len(s) \in Nat /\ p \in Nat \ {0} /\ n \in Nat /\ Len(rest) \in Nat
      /\ q \in Seq(Byte) /\ Len(q) = Len(s) + p /\ i \in Nat \ {0}
      /\ \A k \in 1 .. Len(s) : q[k] = s[k]
  <2>1. Len(s) \in Nat /\ p \in Nat \ {0} /\ n \in Nat /\ Len(rest) \in Nat
    BY <1>0, LenProperties, EmptySeq
  <2> QED
    BY <1>0, <2>1, ByteConcat
<1>2. key \o rest \in Seq(Byte) /\ data = q \o (key \o rest)
  <2>1. key \o rest \in Seq(Byte)
    BY <1>0, ByteConcat
  <2> HIDE DEF q
  <2> QED
    BY <1>0, <1>1, <2>1, ByteAssociative, ZenonT(60)
<1>3. /\ data \in Seq(Byte) /\ Len(data) = Len(s) + p + n + Len(rest)
      /\ \A k \in 1 .. Len(s) : data[k] = s[k]
  <2> DEFINE u == key \o rest
  <2>1. Len(u) = n + Len(rest)
    BY <1>0, ByteConcat
  <2>2. u \in Seq(Byte) /\ data = q \o u
    BY <1>2
  <2> HIDE DEF q, u
  <2>3. /\ data \in Seq(Byte) /\ Len(data) = Len(q) + Len(u)
        /\ \A k \in 1 .. Len(q) + Len(u) : data[k] = IF k <= Len(q) THEN q[k] ELSE u[k - Len(q)]
    BY <1>1, <2>2, ByteConcat
  <2>4. Len(u) \in Nat
    BY <2>2, LenProperties
  <2> QED
    BY <1>1, <2>1, <2>3, <2>4
<1>4. SubSeq(data, i, i + p - 1) = pattern
  <2>1. SubSeq((s \o pattern) \o (key \o rest), Len(s) + 1, Len(s) + Len(pattern)) = pattern
    BY <1>0, <1>2, CutOut
  <2>2. Len(s) + Len(pattern) = i + p - 1
    BY <1>1
  <2>3. (s \o pattern) \o (key \o rest) = data
    BY <1>2
  <2> QED
    BY <2>1, <2>2, <2>3
<1>5. SubSeq(data, Len(q) + 1, Len(q) + n) = key
  <2> HIDE DEF q
  <2> QED
    BY <1>0, <1>1, CutOut
<1> HIDE DEF q
<1>6. i \in Windows(data, pattern)
  <2>1. i \in 1 .. Len(data) - p + 1
    BY <1>1, <1>3
  <2> QED
    BY <1>4, <2>1 DEF Windows
<1>7. ASSUME NEW k \in Windows(data, pattern), k < i
      PROVE  FALSE
  <2>1. k \in 1 .. Len(data) - p + 1 /\ SubSeq(data, k, k + p - 1) = pattern
    BY <1>7 DEF Windows
  <2>2. k \in Nat \ {0} /\ k + p - 1 \in Nat /\ k <= k + p - 1 /\ k + p - 1 <= Len(data)
        /\ k \in 1 .. Len(s)
    BY <1>1, <1>3, <1>7, <2>1
  <2>3. SubSeq(data, k, k + p - 1)[1] = data[k]
    <3> DEFINE m == k + p - 1
    <3>1. m \in Nat /\ k <= m /\ m <= Len(data) /\ 1 \in 1 .. m - k + 1 /\ k + 1 - 1 = k
      BY <1>1, <2>2
    <3> HIDE DEF m
    <3>2. \A x \in 1 .. m - k + 1 : SubSeq(data, k, m)[x] = data[k + x - 1]
      BY <1>3, <2>2, <3>1, Cut
    <3>3. SubSeq(data, k, m)[1] = data[k]
      BY <3>1, <3>2
    <3> QED
      BY <3>3 DEF m
  <2> QED
    BY <1>0, <1>3, <2>1, <2>2, <2>3
<1>8. Windows(data, pattern) \in SUBSET Nat
  <2>1. Len(data) - p + 1 \in Int
    BY <1>1, <1>3
  <2> QED
    BY <2>1 DEF Windows
<1>9. First(Windows(data, pattern)) = i
  <2>1. /\ First(Windows(data, pattern)) \in Windows(data, pattern)
        /\ First(Windows(data, pattern)) <= i
    BY <1>6, <1>8, FirstIsLeast
  <2> HIDE DEF i
  <2> QED
    BY <1>1, <1>7, <1>8, <2>1
<1>10. start = Len(q) + 1 /\ start + n - 1 = Len(q) + n /\ ~(start + n - 1 > Len(data))
  BY <1>1, <1>3, <1>9
<1>11. After(data, pattern, n) = {SubSeq(data, start, start + n - 1)}
  BY <1>6, <1>10 DEF After
<1> QED
  BY <1>5, <1>10, <1>11 DEF q

\* There is something to find where a pattern leaves room for it.
LEMMA FoundWithRoom ==
  ASSUME NEW data \in Seq(Byte), NEW pattern \in Seq(Byte), NEW n \in Nat
  PROVE  After(data, pattern, n) # {} <=>
           \E i \in Windows(data, pattern) : i + Len(pattern) + n - 1 <= Len(data)
<1> DEFINE W == Windows(data, pattern)
<1>1. Len(data) \in Nat /\ Len(pattern) \in Nat
  BY LenProperties
<1>2. W \in SUBSET Nat
  <2>1. Len(data) - Len(pattern) + 1 \in Int
    BY <1>1
  <2> QED
    BY <2>1 DEF Windows
<1>3. CASE W = {}
  BY <1>3 DEF After
<1>4. CASE W # {}
  <2>1. \A i \in W : First(W) \in W /\ First(W) <= i
    <3> HIDE DEF W
    <3> QED
      BY <1>2, FirstIsLeast
  <2>2. First(W) \in W /\ First(W) \in Nat
    BY <1>2, <1>4, <2>1
  <2>3. After(data, pattern, n) # {} <=> ~(First(W) + Len(pattern) + n - 1 > Len(data))
    BY <1>4 DEF After
  <2> HIDE DEF W
  <2>4. \A i \in W : i \in Nat /\ First(W) <= i
    BY <1>2, <2>1
  <2>5. (\E i \in W : i + Len(pattern) + n - 1 <= Len(data)) <=>
          First(W) + Len(pattern) + n - 1 <= Len(data)
    BY <1>1, <2>2, <2>4
  <2>6. After(data, pattern, n) # {} <=> First(W) + Len(pattern) + n - 1 <= Len(data)
    BY <1>1, <2>2, <2>3
  <2> QED
    BY <2>5, <2>6 DEF W
<1> QED
  BY <1>3, <1>4

\* An element is read though something follows it.
LEMMA FirstElementRead ==
  ASSUME NEW t \in Byte, NEW v \in Seq(Byte), NEW rest \in Seq(Byte), Len(v) < Weight[4]
  PROVE  ReadTlv(Element(t, v) \o rest, t) = {v}
<1> DEFINE f == BerLen(Len(v))
           tag == <<t>>
           q == tag \o f
           data == (q \o v) \o rest
           n == Len(v)
           j == Len(q) + 1
           one == 1
           two == 2
<1>1. /\ n \in Nat /\ f \in Seq(Byte) /\ Len(f) \in Nat /\ 0 < Len(f) /\ LengthField(f, n)
      /\ Len(rest) \in Nat
  BY LengthWritten, LenProperties
<1>2. tag \in Seq(Byte) /\ Len(tag) = 1 /\ tag[1] = t
  OBVIOUS
<1> HIDE DEF f, tag, n
<1>3. q \in Seq(Byte) /\ Len(q) = 1 + Len(f) /\ q[1] = t
  <2>1. /\ q \in Seq(Byte) /\ Len(q) = Len(tag) + Len(f)
        /\ \A i \in 1 .. Len(tag) + Len(f) : q[i] = IF i <= Len(tag) THEN tag[i] ELSE f[i - Len(tag)]
    BY <1>1, <1>2, ByteConcat
  <2> HIDE DEF q
  <2> QED
    BY <1>1, <1>2, <2>1
<1> DEFINE u == v \o rest
<1>4. u \in Seq(Byte) /\ Len(u) = n + Len(rest) /\ data = q \o u
  <2>1. u \in Seq(Byte) /\ Len(u) = n + Len(rest)
    BY ByteConcat DEF n
  <2> HIDE DEF q
  <2> QED
    BY <1>3, <2>1, ByteAssociative
<1>5. SubSeq(data, Len(tag) + 1, Len(tag) + Len(f)) = f
  <2>1. SubSeq((tag \o f) \o u, Len(tag) + 1, Len(tag) + Len(f)) = f
    BY <1>1, <1>2, <1>4, CutOut
  <2> QED
    BY <1>4, <2>1
<1>6. SubSeq(data, Len(q) + 1, Len(q) + n) = v
  <2> HIDE DEF q
  <2> QED
    BY <1>3, CutOut DEF n
<1>7. data \in Seq(Byte) /\ Len(data) = Len(q) + n + Len(rest) /\ data[1] = t
  <2> HIDE DEF q, u, data
  <2>1. /\ data \in Seq(Byte) /\ Len(data) = Len(q) + Len(u)
        /\ \A i \in 1 .. Len(q) + Len(u) : data[i] = IF i <= Len(q) THEN q[i] ELSE u[i - Len(q)]
    BY <1>3, <1>4, ByteConcat
  <2> QED
    BY <1>1, <1>3, <1>4, <2>1
<1>8. data = Element(t, v) \o rest
  BY DEF Element, f, tag
<1> HIDE DEF data, q
<1>9. /\ j \in Nat /\ two \in Nat \ {0} /\ one \in Nat \ {0} /\ one + 1 = two /\ two < j
      /\ j <= Len(data) + 1 /\ j - 1 = Len(tag) + Len(f) /\ two = Len(tag) + 1
      /\ one <= Len(data) /\ ~(j + n > Len(data) + 1) /\ (j + n) - 1 = Len(q) + n
      /\ data[one] = t
  BY <1>1, <1>2, <1>3, <1>7
<1> HIDE DEF one, two, j
<1>10. ReadBerLen(data, two) = {<<n, j>>}
  <2>1. LengthField(SubSeq(data, two, j - 1), n)
    BY <1>1, <1>5, <1>9
  <2>2. two \in Nat \ {0} /\ j \in Nat /\ two < j /\ j <= Len(data) + 1
    BY <1>9
  <2>3. data \in Seq(Byte) /\ n \in Nat
    BY <1>1, <1>7
  <2> QED
    BY <2>1, <2>2, <2>3, FieldIsRead
<1>11. \A m, k \in Nat : one <= Len(data) /\ ReadBerLen(data, one + 1) = {<<m, k>>} =>
         Found(data, t)[one] = IF k + m > Len(data) + 1 THEN {}
                               ELSE IF data[one] = t THEN {SubSeq(data, k, (k + m) - 1)}
                               ELSE Found(data, t)[k + m]
  <2>1. data \in Seq(Byte) /\ one \in Nat \ {0} /\ one <= Len(data)
    BY <1>7, <1>9
  <2> QED
    BY <2>1, FoundAt, ZenonT(60)
<1>12. Found(data, t)[one] = {SubSeq(data, j, (j + n) - 1)}
  BY <1>1, <1>9, <1>10, <1>11
<1>13. SubSeq(data, j, (j + n) - 1) = v
  BY <1>6, <1>9 DEF j
<1>14. ReadTlv(data, t) = Found(data, t)[one]
  BY ReadTlvStarts DEF one
<1> QED
  BY <1>8, <1>12, <1>13, <1>14

\* The fixed bytes.
LEMMA KeyBytes ==
  /\ <<\h86, \h20>> \in Seq(Byte) /\ <<\h86, \h41>> \in Seq(Byte)
  /\ <<\h86, \h20>> # << >> /\ <<\h86, \h41>> # << >>
  /\ ED25519_SPKI_PREFIX \in Seq(Byte) /\ ED25519_SPKI_PREFIX # << >>
  /\ ED25519_SPKI_PREFIX[1] = \h30 /\ Len(ED25519_SPKI_PREFIX) = 12
  /\ TAG_CERTIFICATE \in Byte /\ TAG_DATA_OBJECT \in Byte
  /\ <<\h71, 1, 0>> \in Seq(Byte)
  /\ << >> \in Seq(Byte)
BY DEF Byte, ED25519_SPKI_PREFIX, TAG_CERTIFICATE, TAG_DATA_OBJECT

\* The head of a response, put together.
LEMMA ThreeAndTwo ==
  \A a, b, c, d, e : <<a, b, c>> \o <<d, e>> = <<a, b, c, d, e>>
<1> TAKE a, b, c, d, e
<1> DEFINE s == <<a, b, c>>
           t == <<d, e>>
           A == {a, b, c, d, e}
           x == s \o t
           y == <<a, b, c, d, e>>
<1>1. s \in Seq(A) /\ t \in Seq(A) /\ Len(s) = 3 /\ Len(t) = 2 /\ y \in Seq(A) /\ Len(y) = 5
  OBVIOUS
<1>2. /\ x \in Seq(A) /\ Len(x) = Len(s) + Len(t)
      /\ \A i \in 1 .. Len(s) + Len(t) : x[i] = IF i <= Len(s) THEN s[i] ELSE t[i - Len(s)]
  BY <1>1, ConcatProperties
<1>3. s[1] = a /\ s[2] = b /\ s[3] = c /\ t[1] = d /\ t[2] = e
  OBVIOUS
<1>4. y[1] = a /\ y[2] = b /\ y[3] = c /\ y[4] = d /\ y[5] = e
  OBVIOUS
<1> HIDE DEF s, t, x, y, A
<1>5. Len(x) = 5 /\ x[1] = a /\ x[2] = b /\ x[3] = c /\ x[4] = d /\ x[5] = e
  BY <1>1, <1>2, <1>3
<1>6. x = y
  <2>1. \A i \in 1 .. 5 : x[i] = y[i]
    BY <1>4, <1>5
  <2> QED
    BY <1>1, <1>2, <1>5, <2>1, SeqEqual
<1> QED
  BY <1>6 DEF x, y, s, t

\* A response of five bytes and a key holds the key.
LEMMA ResponseHolds ==
  ASSUME NEW a \in Byte, NEW b \in Byte, NEW c \in Byte, NEW d \in Byte, NEW e \in Byte,
         a # d, b # d, c # d, NEW key \in Seq(Byte), NEW n, Len(key) = n
  PROVE  /\ KeyAt(<<a, b, c>>, <<d, e>>, key, n, << >>, <<a, b, c, d, e>> \o key)
         /\ <<a, b, c, d, e>> \o key \in Seq(Byte)
<1> DEFINE s == <<a, b, c>>
           pattern == <<d, e>>
           none == << >>
           resp == <<a, b, c, d, e>> \o key
<1>1. s \in Seq(Byte) /\ pattern \in Seq(Byte) /\ none \in Seq(Byte) /\ pattern # << >>
  OBVIOUS
<1>2. Before(s, pattern)
  <2>1. Len(s) = 3
    OBVIOUS
  <2> QED
    BY <1>1, <2>1 DEF Before
<1>3. resp = ((s \o pattern) \o key) \o none
  <2>1. s \o pattern = <<a, b, c, d, e>>
    BY ThreeAndTwo
  <2>2. resp = (s \o pattern) \o key
    BY <2>1
  <2>3. s \o pattern \in Seq(Byte)
    BY <1>1, ByteConcat
  <2>4. (s \o pattern) \o key \in Seq(Byte)
    <3> HIDE DEF s, pattern
    <3> QED
      BY <2>3, ByteConcat
  <2> HIDE DEF s, pattern, resp
  <2> QED
    BY <2>2, <2>4
<1>5. resp \in Seq(Byte)
  <2> DEFINE head == <<a, b, c, d, e>>
  <2>1. head \in Seq(Byte)
    OBVIOUS
  <2> HIDE DEF head
  <2> QED
    BY <2>1, ByteConcat
<1> HIDE DEF s, pattern, none, resp
<1>4. KeyAt(s, pattern, key, n, none, resp)
  BY <1>1, <1>2, <1>3 DEF KeyAt
<1> QED
  BY <1>4, <1>5 DEF s, pattern, none, resp

\* An Ed25519 key comes out of a response as it went in (openpgp.rs
\* extract_ed25519_pubkey, detect_account).
LEMMA Ed25519Response ==
  ASSUME NEW key \in Seq(Byte), Len(key) = 32
  PROVE  LET resp == Response("ed25519", key) IN
         Ed25519In(resp) = {key} /\ DetectedIn(resp) = {<<"ed25519", key>>}
<1> DEFINE resp == Response("ed25519", key)
<1>1. resp = <<\h7F, \h49, \h22, \h86, \h20>> \o key
  BY DEF Response
<1>2. /\ KeyAt(<<\h7F, \h49, \h22>>, <<\h86, \h20>>, key, 32, << >>, resp)
      /\ resp \in Seq(Byte)
  <2> DEFINE a == \h7F
             b == \h49
             c == \h22
             d == \h86
             e == \h20
  <2>1. /\ a \in Byte /\ b \in Byte /\ c \in Byte /\ d \in Byte /\ e \in Byte
        /\ a # d /\ b # d /\ c # d
    BY DEF Byte
  <2>2. resp = <<a, b, c, d, e>> \o key
    BY <1>1
  <2> HIDE DEF a, b, c, d, e, resp
  <2>3. /\ KeyAt(<<a, b, c>>, <<d, e>>, key, 32, << >>, <<a, b, c, d, e>> \o key)
        /\ <<a, b, c, d, e>> \o key \in Seq(Byte)
    BY <2>1, ResponseHolds
  <2> QED
    BY <2>2, <2>3 DEF a, b, c, d, e
<1> HIDE DEF resp
<1>3. After(resp, <<\h86, \h20>>, 32) = {key}
  BY <1>2, KeyIsFound
<1>4. Ed25519In(resp) = {key}
  BY <1>3 DEF Ed25519In
<1>5. DetectedIn(resp) = {<<"ed25519", key>>}
  BY <1>4 DEF DetectedIn
<1> QED
  BY <1>4, <1>5 DEF resp

\* The places where an Ed25519 key could be mistaken to be.
Strays(resp) == {i \in Windows(resp, <<\h86, \h20>>) : i + 33 <= Len(resp)}

\* An Ed25519 key is read exactly where there is such a place.
LEMMA StraysAreRead ==
  ASSUME NEW resp \in Seq(Byte)
  PROVE  Ed25519In(resp) = {} <=> Strays(resp) = {}
<1> DEFINE pattern == <<\h86, \h20>>
<1>1. pattern \in Seq(Byte) /\ Len(pattern) = 2
  BY KeyBytes
<1> HIDE DEF pattern
<1>2. After(resp, pattern, 32) # {} <=>
        \E i \in Windows(resp, pattern) : i + Len(pattern) + 32 - 1 <= Len(resp)
  BY <1>1, FoundWithRoom
<1>3. Windows(resp, pattern) \subseteq Nat
  <2>1. Len(resp) - Len(pattern) + 1 \in Int
    BY <1>1, LenProperties
  <2> QED
    BY <2>1 DEF Windows
<1>4. \A i \in Windows(resp, pattern) : i + Len(pattern) + 32 - 1 = i + 33
  BY <1>1, <1>3
<1> QED
  BY <1>2, <1>4 DEF Ed25519In, Strays, pattern

\* A point's response is a byte string.
LEMMA Secp256k1Bytes ==
  ASSUME NEW key \in Seq(Byte)
  PROVE  Response("secp256k1", key) \in Seq(Byte)
<1> DEFINE head == <<\h7F, \h49, \h43, \h86, \h41>>
<1>1. head \in Seq(Byte)
  <2>1. \h7F \in Byte /\ \h49 \in Byte /\ \h43 \in Byte /\ \h86 \in Byte /\ \h41 \in Byte
    BY DEF Byte
  <2> QED
    BY <2>1
<1>2. Response("secp256k1", key) = head \o key
  BY DEF Response
<1> HIDE DEF head
<1> QED
  BY <1>1, <1>2, ByteConcat

\* A secp256k1 point comes out of a response as it went in, and detection says
\* so unless it reads an Ed25519 key (openpgp.rs extract_secp256k1_pubkey,
\* detect_account).
LEMMA Secp256k1Response ==
  ASSUME NEW key \in Seq(Byte), Len(key) = 65, key[1] = 4
  PROVE  LET resp == Response("secp256k1", key) IN
         /\ Secp256k1In(resp) = {key}
         /\ (Strays(resp) = {}) <=> (DetectedIn(resp) = {<<"secp256k1", key>>})
<1> DEFINE resp == Response("secp256k1", key)
<1>1. resp = <<\h7F, \h49, \h43, \h86, \h41>> \o key
  BY DEF Response
<1>2. /\ KeyAt(<<\h7F, \h49, \h43>>, <<\h86, \h41>>, key, 65, << >>, resp)
      /\ resp \in Seq(Byte)
  <2> DEFINE a == \h7F
             b == \h49
             c == \h43
             d == \h86
             e == \h41
  <2>1. /\ a \in Byte /\ b \in Byte /\ c \in Byte /\ d \in Byte /\ e \in Byte
        /\ a # d /\ b # d /\ c # d
    BY DEF Byte
  <2>2. resp = <<a, b, c, d, e>> \o key
    BY <1>1
  <2> HIDE DEF a, b, c, d, e, resp
  <2>3. /\ KeyAt(<<a, b, c>>, <<d, e>>, key, 65, << >>, <<a, b, c, d, e>> \o key)
        /\ <<a, b, c, d, e>> \o key \in Seq(Byte)
    BY <2>1, ResponseHolds
  <2> QED
    BY <2>2, <2>3 DEF a, b, c, d, e
<1> HIDE DEF resp
<1>4. After(resp, <<\h86, \h41>>, 65) = {key}
  BY <1>2, KeyIsFound
<1>5. Secp256k1In(resp) = {key}
  BY <1>4 DEF Secp256k1In
<1>6. Ed25519In(resp) = {} <=> Strays(resp) = {}
  BY <1>2, StraysAreRead
<1>7. CASE Ed25519In(resp) = {}
  <2>1. DetectedIn(resp) = {<<"secp256k1", key>>}
    BY <1>5, <1>7 DEF DetectedIn
  <2> QED
    BY <1>5, <1>6, <1>7, <2>1 DEF resp
<1>8. CASE Ed25519In(resp) # {}
  <2>1. PICK k : k \in Ed25519In(resp)
    BY <1>8
  <2>2. <<"ed25519", k>> \in DetectedIn(resp)
    BY <1>8, <2>1 DEF DetectedIn
  <2>3. <<"ed25519", k>> # <<"secp256k1", key>>
    OBVIOUS
  <2>4. DetectedIn(resp) # {<<"secp256k1", key>>}
    BY <2>2, <2>3
  <2> QED
    BY <1>5, <1>6, <1>8, <2>4 DEF resp
<1> QED
  BY <1>7, <1>8

\* What detection makes of the points it gets wrong, whatever their other bytes:
\* a secp256k1 point in which an Ed25519 key seems to begin is reported as an
\* Ed25519 key, and any other P-256 point as a secp256k1 one (openpgp.rs
\* detect_account).
THEOREM DetectionMisnames ==
  ASSUME NEW key \in Seq(Byte), Len(key) = 65, key[1] = 4
  PROVE  /\ LET resp == Response("secp256k1", key) IN
            Strays(resp) # {} =>
              DetectedIn(resp) # {} /\ \A e \in DetectedIn(resp) : e[1] = "ed25519"
         /\ LET resp == Response("p256", key) IN
            Strays(resp) = {} => DetectedIn(resp) = {<<"secp256k1", key>>}
<1>1. Response("p256", key) = Response("secp256k1", key)
  BY DEF Response
<1> DEFINE resp == Response("secp256k1", key)
<1>2. Strays(resp) = {} => DetectedIn(resp) = {<<"secp256k1", key>>}
  BY Secp256k1Response
<1>3. resp \in Seq(Byte)
  BY Secp256k1Bytes
<1> HIDE DEF resp
<1>4. Strays(resp) # {} =>
        DetectedIn(resp) # {} /\ \A e \in DetectedIn(resp) : e[1] = "ed25519"
  <2> SUFFICES ASSUME Strays(resp) # {}
               PROVE  DetectedIn(resp) # {} /\ \A e \in DetectedIn(resp) : e[1] = "ed25519"
    OBVIOUS
  <2>1. Ed25519In(resp) # {}
    BY <1>3, StraysAreRead
  <2>2. DetectedIn(resp) = {<<"ed25519", k>> : k \in Ed25519In(resp)}
    BY <2>1 DEF DetectedIn
  <2>3. DetectedIn(resp) # {}
    <3>1. PICK k : k \in Ed25519In(resp)
      BY <2>1
    <3>2. <<"ed25519", k>> \in DetectedIn(resp)
      BY <2>2, <3>1
    <3> QED
      BY <3>2
  <2>4. ASSUME NEW e \in DetectedIn(resp) PROVE e[1] = "ed25519"
    <3>1. PICK k \in Ed25519In(resp) : e = <<"ed25519", k>>
      BY <2>2
    <3> QED
      BY <3>1
  <2> QED
    BY <2>3, <2>4
<1> QED
  BY <1>1, <1>2, <1>4 DEF resp

\* A pattern stands at its windows, byte by byte.
LEMMA WindowBytes ==
  ASSUME NEW data \in Seq(Byte), NEW pattern \in Seq(Byte), pattern # << >>, NEW i \in Nat \ {0},
         i + Len(pattern) - 1 <= Len(data)
  PROVE  i \in Windows(data, pattern) <=> \A k \in 1 .. Len(pattern) : data[i + k - 1] = pattern[k]
<1> DEFINE p == Len(pattern)
           m == i + p - 1
           w == SubSeq(data, i, m)
<1>1. p \in Nat \ {0} /\ Len(data) \in Nat
  BY EmptySeq, LenProperties
<1>2. m \in Nat /\ i <= m /\ m <= Len(data) /\ m - i + 1 = p /\ i \in 1 .. Len(data) - p + 1
  BY <1>1
<1>3. w \in Seq(Byte) /\ Len(w) = p /\ \A k \in 1 .. p : w[k] = data[i + k - 1]
  <2> HIDE DEF m, p
  <2>1. w \in Seq(Byte) /\ Len(w) = m - i + 1 /\ \A k \in 1 .. m - i + 1 : w[k] = data[i + k - 1]
    BY <1>2, Cut
  <2> QED
    BY <1>2, <2>1
<1>4. i \in Windows(data, pattern) <=> w = pattern
  BY <1>2 DEF Windows
<1> HIDE DEF w
<1>5. w = pattern <=> \A k \in 1 .. p : w[k] = pattern[k]
  <2>1. ASSUME \A k \in 1 .. p : w[k] = pattern[k]
        PROVE  w = pattern
    BY <1>3, <2>1, SeqEqual
  <2> QED
    BY <2>1
<1> QED
  BY <1>3, <1>4, <1>5

\* What follows a pattern, and how far.
LEMMA AfterWhat ==
  ASSUME NEW data \in Seq(Byte), NEW pattern \in Seq(Byte), NEW n \in Nat,
         NEW v \in After(data, pattern, n)
  PROVE  \E i \in Windows(data, pattern) :
           /\ i \in Nat \ {0} /\ i + Len(pattern) + n - 1 <= Len(data)
           /\ v = SubSeq(data, i + Len(pattern), i + Len(pattern) + n - 1)
<1> DEFINE W == Windows(data, pattern)
           i == First(W)
<1>1. Len(data) \in Nat /\ Len(pattern) \in Nat
  BY LenProperties
<1>2. W \subseteq Nat \ {0}
  <2>1. Len(data) - Len(pattern) + 1 \in Int
    BY <1>1
  <2> QED
    BY <2>1 DEF Windows
<1>3. /\ W # {} /\ ~(i + Len(pattern) + n - 1 > Len(data))
      /\ v = SubSeq(data, i + Len(pattern), i + Len(pattern) + n - 1)
  BY DEF After
<1>4. i \in W
  <2>1. W \in SUBSET Nat
    BY <1>2
  <2> HIDE DEF W
  <2> QED
    BY <1>3, <2>1, FirstIsLeast
<1> HIDE DEF i
<1>5. i \in Nat \ {0} /\ i + Len(pattern) + n - 1 <= Len(data)
  BY <1>1, <1>2, <1>3, <1>4
<1> QED
  BY <1>3, <1>4, <1>5

\* An RSA modulus, and the response that holds it.
IsModulus(key) == key \in Seq(Byte) /\ Len(key) = 128

\* The bytes of such a response.
LEMMA RsaBytes ==
  ASSUME NEW key, IsModulus(key)
  PROVE  LET resp == Response("rsa", key) IN
         /\ resp \in Seq(Byte) /\ Len(resp) = 140
         /\ \A k \in 1 .. 7 : resp[k] # \h86
         /\ \A k \in 8 .. 135 : resp[k] = key[k - 7]
<1> DEFINE head == <<\h7F, \h49, \h81, \h87, \h81, \h81, \h80>>
           tail == <<\h82, 3, 1, 0, 1>>
           u == key \o tail
           resp == Response("rsa", key)
<1>0. key \in Seq(Byte) /\ Len(key) = 128
  BY DEF IsModulus
<1>1. head \in Seq(Byte) /\ Len(head) = 7 /\ tail \in Seq(Byte) /\ Len(tail) = 5
  BY DEF Byte
<1>2. \A k \in 1 .. 7 : head[k] # \h86
  OBVIOUS
<1>4. resp = (head \o key) \o tail
  BY DEF Response
<1> HIDE DEF head, tail, resp
<1>5. u \in Seq(Byte) /\ Len(u) = 133 /\ \A k \in 1 .. 128 : u[k] = key[k]
  <2>1. key \in Seq(Byte) /\ tail \in Seq(Byte)
    BY <1>0, <1>1
  <2>2. /\ u \in Seq(Byte) /\ Len(u) = Len(key) + Len(tail)
        /\ \A k \in 1 .. Len(key) + Len(tail) : u[k] = IF k <= Len(key) THEN key[k] ELSE tail[k - Len(key)]
    BY <2>1, ByteConcat
  <2> HIDE DEF u
  <2> QED
    BY <1>0, <1>1, <2>2
<1>6. resp = head \o u
  BY <1>0, <1>1, <1>4, ByteAssociative
<1> HIDE DEF u
<1>7. /\ resp \in Seq(Byte) /\ Len(resp) = 140
      /\ \A k \in 1 .. 7 : resp[k] = head[k]
      /\ \A k \in 8 .. 135 : resp[k] = key[k - 7]
  <2>1. head \in Seq(Byte) /\ u \in Seq(Byte)
    BY <1>1, <1>5
  <2>2. /\ head \o u \in Seq(Byte) /\ Len(head \o u) = Len(head) + Len(u)
        /\ \A k \in 1 .. Len(head) + Len(u) : (head \o u)[k] = IF k <= Len(head) THEN head[k] ELSE u[k - Len(head)]
    BY <2>1, ByteConcat
  <2>3. /\ resp \in Seq(Byte) /\ Len(resp) = 140
        /\ \A k \in 1 .. 140 : resp[k] = IF k <= 7 THEN head[k] ELSE u[k - 7]
    <3>1. Len(head) + Len(u) = 140
      BY <1>1, <1>5
    <3>2. \A k \in 1 .. 140 : (head \o u)[k] = IF k <= 7 THEN head[k] ELSE u[k - 7]
      BY <1>1, <2>2, <3>1
    <3> QED
      BY <1>6, <2>2, <3>1, <3>2
  <2> QED
    BY <1>5, <2>3
<1>8. \A k \in 1 .. 7 : resp[k] # \h86
  <2> TAKE k \in 1 .. 7
  <2>1. resp[k] = head[k]
    BY <1>7
  <2>2. head[k] # \h86
    BY <1>2
  <2> QED
    BY <2>1, <2>2
<1> QED
  BY <1>7, <1>8 DEF resp

\* An RSA modulus is detected as a key only where it looks like one (openpgp.rs
\* detect_account).
LEMMA RsaResponse ==
  ASSUME NEW key, IsModulus(key), DetectedIn(Response("rsa", key)) # {}
  PROVE  Strays(Response("rsa", key)) # {} \/ Windows(key, <<\h86, \h41, 4>>) # {}
<1> DEFINE resp == Response("rsa", key)
           two == <<\h86, \h41>>
           three == <<\h86, \h41, 4>>
<1>1. two \in Seq(Byte) /\ Len(two) = 2 /\ three \in Seq(Byte) /\ Len(three) = 3
  BY DEF Byte
<1>2. two[1] = \h86 /\ two[2] = \h41 /\ three[1] = \h86 /\ three[2] = \h41 /\ three[3] = 4
      /\ two # << >> /\ three # << >>
  OBVIOUS
<1>3. /\ resp \in Seq(Byte) /\ Len(resp) = 140
      /\ \A k \in 1 .. 7 : resp[k] # \h86
      /\ \A k \in 8 .. 135 : resp[k] = key[k - 7]
  BY RsaBytes
<1>4. CASE Ed25519In(resp) # {}
  BY <1>3, <1>4, StraysAreRead DEF resp
<1>5. CASE Ed25519In(resp) = {}
  <2>1. PICK v : v \in After(resp, two, 65) /\ v[1] = 4
    BY <1>5 DEF resp, DetectedIn, Secp256k1In
  <2> HIDE DEF resp, two, three
  <2>2. PICK i \in Windows(resp, two) :
          /\ i \in Nat \ {0} /\ i + Len(two) + 65 - 1 <= Len(resp)
          /\ v = SubSeq(resp, i + Len(two), i + Len(two) + 65 - 1)
    <3>1. resp \in Seq(Byte) /\ two \in Seq(Byte)
      BY <1>1, <1>3
    <3> QED
      BY <2>1, <3>1, AfterWhat
  <2>3. i \in Nat \ {0} /\ i <= 74 /\ i + Len(two) = i + 2 /\ i + Len(two) + 65 - 1 = i + 66
    BY <1>1, <1>3, <2>2
  <2>4. resp[i] = \h86 /\ resp[i + 1] = \h41
    <3>1. i + Len(two) - 1 <= Len(resp)
      BY <1>1, <1>3, <2>3
    <3>2. \A k \in 1 .. Len(two) : resp[i + k - 1] = two[k]
      <4>1. resp \in Seq(Byte) /\ two \in Seq(Byte) /\ two # << >> /\ i \in Nat \ {0}
        BY <1>1, <1>2, <1>3, <2>2
      <4> QED
        BY <2>2, <3>1, <4>1, WindowBytes
    <3>3. i + 1 - 1 = i /\ i + 2 - 1 = i + 1
      BY <2>3
    <3> QED
      BY <1>1, <1>2, <3>2, <3>3
  <2>5. resp[i + 2] = 4
    <3> DEFINE a == i + 2
               b == i + 66
    <3>1. a \in Nat \ {0} /\ b \in Nat /\ a <= b /\ b <= Len(resp) /\ 1 \in 1 .. b - a + 1 /\ a + 1 - 1 = a
      BY <1>3, <2>3
    <3>2. v = SubSeq(resp, a, b)
      BY <2>2, <2>3
    <3> HIDE DEF a, b
    <3>3. \A k \in 1 .. b - a + 1 : SubSeq(resp, a, b)[k] = resp[a + k - 1]
      BY <1>3, <3>1, Cut
    <3>4. resp[a] = 4
      BY <2>1, <3>1, <3>2, <3>3
    <3> QED
      BY <3>4 DEF a
  <2>6. i > 7
    <3>1. SUFFICES ASSUME ~(i > 7)
                   PROVE  FALSE
      OBVIOUS
    <3>2. i \in 1 .. 7
      BY <2>3, <3>1
    <3> QED
      BY <1>3, <2>4, <3>2
  <2> DEFINE w == i - 7
  <2>7. key \in Seq(Byte) /\ Len(key) = 128
    BY DEF IsModulus
  <2> DEFINE j == i + 1
             k == i + 2
  <2>8. /\ w \in Nat \ {0} /\ w + Len(three) - 1 <= Len(key)
        /\ i \in 8 .. 135 /\ j \in 8 .. 135 /\ k \in 8 .. 135
        /\ i - 7 = w /\ j - 7 = w + 1 /\ k - 7 = w + 2
    BY <1>1, <2>3, <2>6, <2>7
  <2>9. resp[i] = \h86 /\ resp[j] = \h41 /\ resp[k] = 4
    BY <2>4, <2>5
  <2> HIDE DEF w, j, k
  <2>10. key[w] = \h86 /\ key[w + 1] = \h41 /\ key[w + 2] = 4
    <3>1. resp[i] = key[i - 7] /\ resp[j] = key[j - 7] /\ resp[k] = key[k - 7]
      BY <1>3, <2>8
    <3> QED
      BY <2>8, <2>9, <3>1
  <2>11. \A x \in 1 .. Len(three) : key[w + x - 1] = three[x]
    <3>1. w + 1 - 1 = w /\ w + 2 - 1 = w + 1 /\ w + 3 - 1 = w + 2
      BY <2>8
    <3>2. \A x \in 1 .. Len(three) : x = 1 \/ x = 2 \/ x = 3
      BY <1>1
    <3> QED
      BY <1>2, <2>10, <3>1, <3>2
  <2>12. w \in Windows(key, three)
    <3>1. key \in Seq(Byte) /\ three \in Seq(Byte) /\ three # << >> /\ w \in Nat \ {0}
      BY <1>1, <1>2, <2>7, <2>8
    <3>2. w + Len(three) - 1 <= Len(key)
      BY <2>8
    <3> QED
      BY <2>11, <3>1, <3>2, WindowBytes
  <2> QED
    BY <2>12 DEF three
<1> QED
  BY <1>4, <1>5

\* A certificate comes out of the card's data object whole (piv.rs
\* extract_certificate).
LEMMA CertificateRead ==
  ASSUME NEW cert \in Seq(Byte), cert # << >>, Len(cert) = 128
  PROVE  LET object == <<TAG_CERTIFICATE>> \o BerLen(Len(cert)) \o cert \o <<\h71, 1, 0>> IN
         CertificateIn(<<TAG_DATA_OBJECT>> \o BerLen(Len(object)) \o object) = {cert}
<1> DEFINE rest == <<\h71, 1, 0>>
           inner == Element(TAG_CERTIFICATE, cert)
           object == inner \o rest
           data == Element(TAG_DATA_OBJECT, object)
<1>1. Len(cert) < Weight[4] /\ 128 \in Nat /\ 128 < Weight[4]
  BY SMT DEF Weight
<1>2. rest \in Seq(Byte) /\ Len(rest) = 3
  BY KeyBytes
<1> HIDE DEF rest
<1>3. inner \in Seq(Byte) /\ Len(inner) \in Nat /\ Len(inner) < 140
  <2> DEFINE tag == <<TAG_CERTIFICATE>>
             f == BerLen(128)
  <2>1. f \in Seq(Byte) /\ Len(f) \in Nat /\ Len(f) < 5
    BY <1>1, LengthWritten
  <2>2. tag \in Seq(Byte) /\ Len(tag) = 1
    BY KeyBytes
  <2>3. inner = (tag \o f) \o cert
    BY DEF Element
  <2> HIDE DEF tag, f, inner
  <2>4. tag \o f \in Seq(Byte) /\ Len(tag \o f) = Len(tag) + Len(f)
    BY <2>1, <2>2, ByteConcat
  <2>5. inner \in Seq(Byte) /\ Len(inner) = Len(tag \o f) + Len(cert)
    BY <2>3, <2>4, ByteConcat, ZenonT(60)
  <2> QED
    BY <2>1, <2>2, <2>4, <2>5
<1>4. ReadTlv(object, TAG_CERTIFICATE) = {cert}
  BY <1>1, <1>2, KeyBytes, FirstElementRead
<1> HIDE DEF inner
<1>5. object \in Seq(Byte) /\ Len(object) < Weight[4]
  <2>1. object \in Seq(Byte) /\ Len(object) = Len(inner) + Len(rest)
    BY <1>2, <1>3, ByteConcat, ZenonT(60)
  <2> QED
    BY <1>2, <1>3, <2>1, SMT DEF Weight
<1> HIDE DEF object
<1>6. ReadTlv(data, TAG_DATA_OBJECT) = {object}
  BY <1>5, KeyBytes, ElementRead
<1> HIDE DEF data
<1>7. CertificateIn(data) = {cert}
  BY <1>4, <1>6 DEF CertificateIn
<1>8. object = <<TAG_CERTIFICATE>> \o BerLen(Len(cert)) \o cert \o <<\h71, 1, 0>>
  BY DEF object, inner, rest, Element
<1>9. data = <<TAG_DATA_OBJECT>> \o BerLen(Len(object)) \o object
  BY DEF data, Element
<1> QED
  BY <1>7, <1>8, <1>9

\* An Ed25519 key is found in a certificate that holds it, after bytes that do
\* not look like the beginning of one (piv.rs extract_ed25519_from_cert).
LEMMA CertificateHolds ==
  ASSUME NEW key, key \in Seq(Byte) /\ Len(key) = 32
  PROVE  LET cert == Filler(20) \o ED25519_SPKI_PREFIX \o key \o Filler(64) IN
         /\ cert \in Seq(Byte) /\ Len(cert) = 128
         /\ Ed25519InCert(cert) = {key}
<1> DEFINE s == Filler(20)
           prefix == ED25519_SPKI_PREFIX
           rest == Filler(64)
           cert == ((s \o prefix) \o key) \o rest
<1>1. /\ s \in Seq(Byte) /\ Len(s) = 20 /\ rest \in Seq(Byte) /\ Len(rest) = 64
      /\ prefix \in Seq(Byte) /\ Len(prefix) = 12 /\ prefix # << >> /\ prefix[1] = \h30
  BY Fillers, KeyBytes
<1>2. \A i \in 1 .. 20 : s[i] # \h30
  BY DEF Filler
<1> HIDE DEF s, prefix, rest
<1>3. key \in Seq(Byte) /\ Len(key) = 32
  OBVIOUS
<1>4. cert \in Seq(Byte) /\ Len(cert) = 128
  <2>1. s \o prefix \in Seq(Byte) /\ Len(s \o prefix) = 32
    <3>1. s \o prefix \in Seq(Byte) /\ Len(s \o prefix) = Len(s) + Len(prefix)
      BY <1>1, ByteConcat, ZenonT(60)
    <3> QED
      BY <1>1, <3>1
  <2> DEFINE q == s \o prefix
  <2> HIDE DEF q
  <2>2. q \o key \in Seq(Byte) /\ Len(q \o key) = 64
    <3>1. q \o key \in Seq(Byte) /\ Len(q \o key) = Len(q) + Len(key)
      BY <1>3, <2>1, ByteConcat DEF q
    <3> QED
      BY <1>3, <2>1, <3>1 DEF q
  <2> DEFINE r == q \o key
  <2> HIDE DEF r
  <2>3. r \o rest \in Seq(Byte) /\ Len(r \o rest) = Len(r) + Len(rest)
    BY <1>1, <2>2, ByteConcat DEF r
  <2>4. cert = r \o rest
    BY DEF q, r
  <2> HIDE DEF cert
  <2> QED
    BY <1>1, <2>2, <2>3, <2>4 DEF r
<1> HIDE DEF cert
<1>5. KeyAt(s, prefix, key, 32, rest, cert)
  <2>1. Before(s, prefix)
    BY <1>1, <1>2 DEF Before
  <2> QED
    BY <1>1, <1>3, <2>1 DEF KeyAt, cert
<1>6. After(cert, prefix, 32) = {key}
  BY <1>5, KeyIsFound
<1>7. Ed25519InCert(cert) = {key}
  BY <1>6 DEF Ed25519InCert, prefix
<1> QED
  BY <1>4, <1>7 DEF cert, s, prefix, rest

\* A key stands at its place in an OpenSSH blob (main.rs
\* ssh_ed25519_to_solana).
LEMMA SshHolds ==
  ASSUME NEW key, key \in Seq(Byte) /\ Len(key) = 32
  PROVE  KeyInSsh(<<0, 0, 0, 11>> \o Filler(11) \o <<0, 0, 0, 32>> \o key) = {key}
<1> DEFINE a == <<0, 0, 0, 11>>
           b == Filler(11)
           c == <<0, 0, 0, 32>>
           q == a \o b
           r == q \o c
           raw == r \o key
<1>1. /\ a \in Seq(Byte) /\ Len(a) = 4 /\ b \in Seq(Byte) /\ Len(b) = 11
      /\ c \in Seq(Byte) /\ Len(c) = 4 /\ key \in Seq(Byte) /\ Len(key) = 32
  <2>1. 0 \in Byte /\ 11 \in Byte /\ 32 \in Byte
    BY DEF Byte
  <2>2. a \in Seq(Byte) /\ Len(a) = 4 /\ c \in Seq(Byte) /\ Len(c) = 4
    BY <2>1
  <2>3. b \in Seq(Byte) /\ Len(b) = 11
    BY Fillers
  <2> QED
    BY <2>2, <2>3
<1> HIDE DEF a, b, c
<1>2. q \in Seq(Byte) /\ Len(q) = 15
  <2>1. q \in Seq(Byte) /\ Len(q) = Len(a) + Len(b)
    BY <1>1, ByteConcat
  <2> QED
    BY <1>1, <2>1
<1> HIDE DEF q
<1>3. r \in Seq(Byte) /\ Len(r) = 19
  <2>1. r \in Seq(Byte) /\ Len(r) = Len(q) + Len(c)
    BY <1>1, <1>2, ByteConcat
  <2> QED
    BY <1>1, <1>2, <2>1
<1> HIDE DEF r
<1>4. Len(raw) = 51 /\ SubSeq(raw, 20, 51) = key
  <2>1. Len(raw) = Len(r) + Len(key) /\ SubSeq(raw, Len(r) + 1, Len(r) + Len(key)) = key
    BY <1>1, <1>3, ByteConcat, CutAfter
  <2>2. Len(r) + 1 = 20 /\ Len(r) + Len(key) = 51
    BY <1>1, <1>3
  <2> HIDE DEF raw
  <2> QED
    BY <2>1, <2>2
<1> HIDE DEF raw
<1>5. KeyInSsh(raw) = {key}
  <2>1. Len(raw) >= 51
    BY <1>4
  <2>2. KeyInSsh(raw) = {SubSeq(raw, 20, 51)}
    BY <2>1 DEF KeyInSsh
  <2> QED
    BY <1>4, <2>2
<1> QED
  BY <1>5 DEF raw, r, q, a, b, c

\* The keys of the inputs are byte strings of their kind's size, the first byte
\* of each a point's.
LEMMA InputKeys ==
  ASSUME NEW x \in KeyInputs
  PROVE  /\ x.kind \in KeyKinds
         /\ x.bytes \in Seq(Byte) /\ Len(x.bytes) = Size(x.kind) /\ x.bytes[1] = 4
<1>1. PICK k \in KeyKinds, pattern \in Patterns, i \in 2 .. 70 :
        x = KeyInput(k, pattern, i)
  BY DEF KeyInputs
<1> DEFINE n == Size(k)
           s == Strayed(n, pattern, i)
           bytes == [s EXCEPT ![1] = 4]
<1>2. n \in Nat /\ n >= 1
  BY DEF Size, KeyKinds
<1>3. pattern \in Seq(Byte) /\ Len(pattern) \in Nat
  <2>1. \h86 \in Byte /\ \h20 \in Byte /\ \h41 \in Byte /\ 4 \in Byte
    BY DEF Byte
  <2>2. <<\h86, \h20>> \in Seq(Byte) /\ <<\h86, \h41>> \in Seq(Byte) /\ <<\h86, \h41, 4>> \in Seq(Byte)
    BY <2>1
  <2> QED
    BY <2>2, KeyBytes, LenProperties, ZenonT(60) DEF Patterns
<1>4. \A j \in i .. i + Len(pattern) - 1 : pattern[j - i + 1] \in Byte
  <2> TAKE j \in i .. i + Len(pattern) - 1
  <2>1. j - i + 1 \in 1 .. Len(pattern)
    BY <1>3
  <2> QED
    BY <1>3, <2>1, ElementOfSeq
<1> HIDE DEF n
<1>5. s \in [1 .. n -> Byte]
  <2>1. 5 \in Byte
    BY DEF Byte
  <2> QED
    BY <1>4, <2>1 DEF Strayed
<1> HIDE DEF s
<1>6. bytes \in [1 .. n -> Byte] /\ bytes[1] = 4
  <2>1. 4 \in Byte /\ 1 \in 1 .. n
    BY <1>2 DEF Byte
  <2> QED
    BY <1>5, <2>1
<1> HIDE DEF bytes
<1>7. bytes \in Seq(Byte) /\ Len(bytes) = n
  BY <1>2, <1>6
<1>8. x.kind = k /\ x.bytes = bytes
  BY <1>1 DEF KeyInput, bytes, s, n
<1> QED
  BY <1>6, <1>7, <1>8 DEF n

-----------------------------------------------------------------------------
(* The inputs of MCCodecs.                                                  *)

\* The inputs that can come up.
InputInv ==
  \/ \E bytes \in Seq(Alphabet) : input = [kind |-> "bytes", bytes |-> bytes]
  \/ input \in Inputs

\* An input that carries a key's bytes is of one of the kinds of key.
LEMMA KeyInputKinds ==
  ASSUME NEW x \in KeyInputs
  PROVE  x.kind \in {"ed25519", "secp256k1", "p256", "rsa"}
<1>1. PICK k \in {"ed25519", "secp256k1", "p256", "rsa"}, pattern \in Patterns, i \in 2 .. 70 :
           x = KeyInput(k, pattern, i)
  BY DEF KeyInputs, KeyKinds
<1> DEFINE bytes == [Strayed(Size(k), pattern, i) EXCEPT ![1] = 4]
<1>2. x = [kind |-> k, bytes |-> bytes]
  BY <1>1 DEF KeyInput
<1> HIDE DEF bytes
<1> QED
  BY <1>1, <1>2

\* An input is a byte string or one of the listed inputs of another kind.
THEOREM InputInvariance == Spec => []InputInv
<1>1. Init => InputInv
  <2>1. << >> \in Seq(Alphabet)
    OBVIOUS
  <2> QED
    BY <2>1 DEF Init, InputInv
<1>2. InputInv /\ [Next]_input => InputInv'
  <2> SUFFICES ASSUME InputInv, [Next]_input
               PROVE  InputInv'
    OBVIOUS
  <2>1. CASE UNCHANGED input
    BY <2>1 DEF InputInv
  <2>2. CASE input' \in Inputs
    <3> HIDE DEF Inputs
    <3> QED
      BY <2>2 DEF InputInv, Inputs
  <2>3. CASE /\ input.kind = "bytes"
             /\ \E b \in Alphabet : input' = [input EXCEPT !.bytes = Append(@, b)]
    <3>1. input \notin Inputs
      BY <2>3 DEF Inputs, KeyInputs, KeyInput, KeyKinds
    <3>2. PICK bytes \in Seq(Alphabet) : input = [kind |-> "bytes", bytes |-> bytes]
      BY <3>1 DEF InputInv
    <3>3. PICK b \in Alphabet : input' = [input EXCEPT !.bytes = Append(@, b)]
      BY <2>3
    <3>4. input' = [kind |-> "bytes", bytes |-> Append(bytes, b)]
      BY <3>2, <3>3
    <3>5. Append(bytes, b) \in Seq(Alphabet)
      OBVIOUS
    <3> QED
      BY <3>4, <3>5 DEF InputInv
  <2> QED
    BY <2>1, <2>2, <2>3 DEF Next
<1> QED
  BY <1>1, <1>2, PTL DEF Spec

\* The chain id is read back from v, for every word and every chain id that
\* fits it (eth.rs eip155_v).
THEOREM ChainsReadBackTheorem == Spec => []ChainsReadBack
<1>1. InputInv => ChainsReadBack
  <2> SUFFICES ASSUME InputInv, input.kind = "chain"
               PROVE  ChainReadBack(input.chain)
    BY DEF ChainsReadBack
  <2>1. input \in [kind : {"chain"}, chain : Chains]
    BY KeyInputKinds DEF InputInv, Inputs
  <2>2. input.chain \in Nat
    BY <2>1, InputAssumption
  <2> QED
    BY <2>2, ChainIdRead
<1> QED
  BY <1>1, InputInvariance, PTL

\* The signatures of any key, with any nonce, over any hash: what
\* ethereum_signature makes of them is sound whatever key is expected, and the
\* signer's own is found but for the nonces whose abscissa is N or more
\* (eth.rs ethereum_signature; the recovery ids of the host and of the tool).
THEOREM SignaturesRecoverTheorem == Spec => []SignaturesRecover
<1>1. InputInv => SignaturesRecover
  <2> SUFFICES ASSUME InputInv, input.kind = "signature", NEW chain \in {0, 1, Modulus - 1}
               PROVE  /\ CompleteFor(input.key, input.nonce, input.hash, chain)
                      /\ \A rs \in CardSigns(input.key, input.nonce, input.hash),
                            expected \in Scalars :
                           SoundFor(expected, input.hash, rs, chain)
    BY DEF SignaturesRecover
  <2>1. input \in [kind : {"signature"}, key : Keys, nonce : Nonces, hash : Hashes]
    BY KeyInputKinds DEF InputInv, Inputs
  <2>2. input.key \in Scalars /\ input.nonce \in Scalars /\ input.hash \in Int /\ chain \in Nat
    <3>1. input.key \in Scalars /\ input.nonce \in Scalars /\ input.hash \in Nat
      BY <2>1, InputAssumption
    <3>2. chain \in Nat
      BY CurveAssumption
    <3> QED
      BY <3>1, <3>2
  <2>3. ASSUME NEW rs \in CardSigns(input.key, input.nonce, input.hash), NEW expected \in Scalars
        PROVE  SoundFor(expected, input.hash, rs, chain)
    BY <2>2, CardSignatures, EthereumSignatureSound
  <2> QED
    BY <2>2, <2>3, EthereumSignatureComplete
<1> QED
  BY <1>1, InputInvariance, PTL

\* The id of every account that can be named is read back, by the host and the
\* command line, and the slots that can be named are objects of the card, no
\* two the same (main.rs account_json, parse_account; account.rs parse_slot;
\* piv.rs slot_object_tag).
THEOREM AccountsNamedTheorem == Spec => []AccountsNamed
<1>1. InputInv => AccountsNamed
  <2> SUFFICES ASSUME InputInv, input.kind = "account"
               PROVE  AccountsNamed
    BY DEF AccountsNamed
  <2> DEFINE a == input.account
  <2>1. input \in [kind : {"account"}, account : {b \in Account : NamedSlot(b.applet, b.slot)}]
    BY KeyInputKinds DEF InputInv, Inputs
  <2>2. a \in Account /\ NamedSlot(a.applet, a.slot)
    BY <2>1
  <2> HIDE DEF a
  <2>3. ParseAccount(IdOf(a)) = {a}
    BY <2>2, IdRead
  <2>4. ~(a.applet = "piv" /\ a.curve = "secp256k1") => ToAccount(IdOf(a)) = {a}
    BY <2>3 DEF ToAccount
  <2>5. \A label : \A s \in ParseSlot(a.applet, label) : NamedSlot(a.applet, s)
    <3>1. \A label : OpenPgpSlot(label) \subseteq OpenPgpSlots
      BY DEF OpenPgpSlot, OpenPgpSlots
    <3> QED
      BY <3>1 DEF ParseSlot, NamedSlot
  <2>6. ASSUME a.applet = "piv"
        PROVE  /\ SlotObjectTag(a.slot) # {}
               /\ \A s \in Slots \ {a.slot} : SlotObjectTag(s) \cap SlotObjectTag(a.slot) = {}
    <3>1. a.slot \in Slots /\ IsValid(a.slot)
      BY <2>2, <2>6 DEF Account, NamedSlot
    <3> QED
      BY <3>1, ObjectsDiffer
  <2> QED
    BY <2>3, <2>4, <2>5, <2>6 DEF AccountsNamed, a
<1> QED
  BY <1>1, InputInvariance, PTL

\* Every length, every template and every command is read back as it was
\* written, and the messages that reach the card in one are those of
\* MaxTemplate bytes or less (piv.rs ber_len, read_ber_len,
\* build_general_authenticate_data; apdu.rs).
THEOREM MessagesReadBackTheorem == Spec => []MessagesReadBack
<1>1. InputInv => MessagesReadBack
  <2> SUFFICES ASSUME InputInv, input.kind = "message"
               PROVE  MessagesReadBack
    BY DEF MessagesReadBack
  <2> DEFINE n == input.length
  <2>1. n \in Nat
    <3>1. input \in [kind : {"message"}, length : MCLengths]
      BY KeyInputKinds DEF InputInv, Inputs
    <3>2. MCLengths \subseteq Nat
      <4> DEFINE base == {9, 128, 256, 65536, 131072, 16777216}
                 near == UNION {(b - 9) .. (b + 1) : b \in base}
                 others == {65000, 16777116}
      <4>1. \A b \in base : b \in Nat /\ b >= 9
        BY SMT
      <4>2. MCLengths = others \cup near
        BY SMT DEF MCLengths
      <4>3. \A x \in others : x \in Nat
        BY SMT
      <4> HIDE DEF base, others
      <4>4. \A b \in base : (b - 9) .. (b + 1) \subseteq Nat
        BY <4>1, SMT
      <4>5. near \subseteq Nat
        BY <4>4
      <4> HIDE DEF near
      <4> QED
        BY <4>2, <4>3, <4>5
    <3> QED
      BY <3>1, <3>2
  <2>2. LengthReadBack(n)
    BY <2>1, LengthsReadBack
  <2>3. ASSUME n <= MaxMessage
        PROVE  LET m == Filler(n) IN
               /\ MessageReadBack(m)
               /\ ShortReadBack(Head4, m) /\ ExtReadBack(Head4, m)
               /\ CardReads(BuildApduExt(Head4, GeneralAuthenticateData(m), <<0>>)) # {}
                    <=> n <= 65525
    <3> DEFINE m == Filler(n)
    <3>1. m \in Seq(Byte) /\ Len(m) = n
      BY <2>1, Fillers
    <3> HIDE DEF m
    <3>2. Len(m) + 8 < Weight[4]
      BY <2>1, <2>3, <3>1, SMT DEF MaxMessage, Weight
    <3>3. MessageReadBack(m)
      BY <3>1, <3>2, TemplatesReadBack
    <3>4. Head4 \in Seq(Byte) /\ Len(Head4) = 4
      <4>1. 0 \in Byte /\ \h87 \in Byte /\ \hE0 \in Byte /\ AUTH \in Byte
        BY DEF Byte, AUTH
      <4> QED
        BY <4>1 DEF Head4
    <3>5. ShortReadBack(Head4, m) /\ ExtReadBack(Head4, m)
      BY <3>1, <3>4, ShortCommandRead, ExtendedCommandRead
    <3>6. CardReads(BuildApduExt(Head4, GeneralAuthenticateData(m), <<0>>)) # {}
            <=> n <= 65525
      BY <3>1, <3>2, TemplatesThatFit
    <3> QED
      BY <3>3, <3>5, <3>6 DEF m
  <2> QED
    BY <2>2, <2>3 DEF MessagesReadBack
<1> QED
  BY <1>1, InputInvariance, PTL

\* read_tlv finds the first element with a tag, however long the byte string
\* grows and whatever bytes it is made of (piv.rs read_tlv, read_ber_len).
THEOREM ReadTlvFindsFirstTheorem == Spec => []ReadTlvFindsFirst
<1>1. InputInv => ReadTlvFindsFirst
  <2> SUFFICES ASSUME InputInv, input.kind = "bytes", NEW tag \in {1, TAG_RESPONSE}
               PROVE  ReadsFirst(input.bytes, tag)
    BY DEF ReadTlvFindsFirst
  <2>1. input \notin Inputs
    BY DEF Inputs, KeyInputs, KeyInput, KeyKinds
  <2>2. PICK bytes \in Seq(Alphabet) : input = [kind |-> "bytes", bytes |-> bytes]
    BY <2>1 DEF InputInv
  <2>3. bytes \in Seq(Byte)
    <3>1. Len(bytes) \in Nat /\ bytes \in [1 .. Len(bytes) -> Alphabet]
      BY LenProperties
    <3>2. bytes \in [1 .. Len(bytes) -> Byte]
      BY <3>1, InputAssumption
    <3> QED
      BY <3>1, <3>2
  <2>4. input.bytes = bytes
    BY <2>2
  <2> QED
    BY <2>3, <2>4, ReadTlvFindsTheFirst
<1> QED
  BY <1>1, InputInvariance, PTL

\* A key that was put into a response, a certificate or an OpenSSH file is read
\* back as it was, and detection tells its curve unless another key seems to
\* begin in it (openpgp.rs extract_ed25519_pubkey, extract_secp256k1_pubkey,
\* detect_account; piv.rs extract_certificate, extract_ed25519_from_cert;
\* main.rs ssh_ed25519_to_solana).
THEOREM KeysReadBackTheorem == Spec => []KeysReadBack
<1>1. InputInv => KeysReadBack
  <2> SUFFICES ASSUME InputInv
               PROVE  KeysReadBack
    OBVIOUS
  <2> DEFINE key == input.bytes
             resp == Response(input.kind, key)
  <2>1. input.kind \in KeyKinds => input \in KeyInputs
    BY DEF InputInv, Inputs, KeyKinds
  <2>2. input.kind \in KeyKinds =>
          key \in Seq(Byte) /\ Len(key) = Size(input.kind) /\ key[1] = 4
    BY <2>1, InputKeys
  <2> HIDE DEF key
  <2>3. ASSUME input.kind = "ed25519"
        PROVE  LET cert == Filler(20) \o ED25519_SPKI_PREFIX \o key \o Filler(64)
                   object == <<TAG_CERTIFICATE>> \o BerLen(Len(cert)) \o cert \o <<\h71, 1, 0>>
                   ssh == <<0, 0, 0, 11>> \o Filler(11) \o <<0, 0, 0, 32>> \o key IN
               /\ Ed25519In(resp) = {key} /\ DetectedIn(resp) = {<<"ed25519", key>>}
               /\ CertificateIn(<<TAG_DATA_OBJECT>> \o BerLen(Len(object)) \o object) = {cert}
               /\ Ed25519InCert(cert) = {key} /\ KeyInSsh(ssh) = {key}
    <3> DEFINE cert == Filler(20) \o ED25519_SPKI_PREFIX \o key \o Filler(64)
    <3>1. key \in Seq(Byte) /\ Len(key) = 32
      BY <2>2, <2>3 DEF Size, KeyKinds
    <3>2. Ed25519In(resp) = {key} /\ DetectedIn(resp) = {<<"ed25519", key>>}
      BY <2>3, <3>1, Ed25519Response
    <3>3. cert \in Seq(Byte) /\ Len(cert) = 128 /\ Ed25519InCert(cert) = {key}
      BY <3>1, CertificateHolds
    <3>4. KeyInSsh(<<0, 0, 0, 11>> \o Filler(11) \o <<0, 0, 0, 32>> \o key) = {key}
      BY <3>1, SshHolds
    <3> HIDE DEF cert, resp
    <3>5. cert # << >>
      <4>1. SUFFICES ASSUME cert = << >>
                     PROVE  FALSE
        OBVIOUS
      <4>2. Len(cert) = 0
        BY <4>1
      <4>3. Len(cert) = 128
        BY <3>3
      <4> QED
        BY <4>2, <4>3
    <3>6. LET object == <<TAG_CERTIFICATE>> \o BerLen(Len(cert)) \o cert \o <<\h71, 1, 0>> IN
          CertificateIn(<<TAG_DATA_OBJECT>> \o BerLen(Len(object)) \o object) = {cert}
      BY <3>3, <3>5, CertificateRead
    <3> QED
      BY <3>2, <3>3, <3>4, <3>6 DEF cert
  <2>4. ASSUME input.kind = "secp256k1"
        PROVE  /\ Secp256k1In(resp) = {key}
               /\ Strays(resp) = {} => DetectedIn(resp) = {<<"secp256k1", key>>}
    <3>1. key \in Seq(Byte) /\ Len(key) = 65 /\ key[1] = 4
      BY <2>2, <2>4 DEF Size, KeyKinds
    <3> QED
      BY <2>4, <3>1, Secp256k1Response
  <2>5. ASSUME input.kind = "rsa", DetectedIn(resp) # {}
        PROVE  Strays(resp) # {} \/ Windows(key, <<\h86, \h41, 4>>) # {}
    <3>1. IsModulus(key)
      BY <2>2, <2>5 DEF Size, KeyKinds, IsModulus
    <3> QED
      BY <2>5, <3>1, RsaResponse
  <2> QED
    BY <2>3, <2>4, <2>5 DEF KeysReadBack, Strays, key
<1> QED
  BY <1>1, InputInvariance, PTL

=============================================================================
