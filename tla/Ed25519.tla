-------------------------------- MODULE Ed25519 --------------------------------
(***************************************************************************)
(* ed25519.py over a curve of the same kind, small enough to try all       *)
(* encodings: the twisted Edwards curve -x^2 + y^2 = 1 + d x^2 y^2 over    *)
(* the integers modulo q, in extended coordinates <<x, y, z, t>>.          *)
(*                                                                         *)
(* An encoding of b bits, of a point or of a scalar, is a number below     *)
(* 2^b; its top bit, as an encoding of a point, is the parity of x.        *)
(***************************************************************************)
EXTENDS Integers, FiniteSets

CONSTANTS q, b, d, l, Bx, By, \* field, length, curve, order and affine base point
          Short,              \* a signature or key of another length
          Scalars,            \* the encodings tried as a signature's second half
          Messages,
          H(_, _, _)          \* SHA-512 of a commitment, a key and a message

\* q is 5 modulo 8, as xrecover needs; minus one is a square and d is none, as the
\* addition needs to be complete.
ASSUME CurveAssumption ==
  /\ q % 8 = 5 /\ q < 2^(b - 1) /\ l \in 2..(2^b) /\ d \in 0..(q - 1)
  /\ \A x \in 0..(q - 1) : x * x % q # d

VARIABLES pc,         \* what is done next
          a,          \* the scalar of the key that was made, 0 before
          made,       \* the signature was made by the key's holder
          sig, m, pk, \* what is checked
          valid       \* the verdict

vars == <<pc, a, made, sig, m, pk, valid>>

-----------------------------------------------------------------------------

Pow(x, n) == LET p[k \in 0..n] == IF k = 0 THEN 1 ELSE p[k - 1] * x % q IN p[n]
inv(x)    == Pow(x, q - 2)
I         == Pow(2, (q - 1) \div 4)

\* The even x of a y, or something that is none if there is none.
xrecover(y) ==
  LET xx   == ((y * y - 1) * inv(d * y * y + 1)) % q
      root == Pow(xx, (q + 3) \div 8)
      x    == IF (root * root - xx) % q # 0 THEN root * I % q ELSE root
  IN  IF x % 2 # 0 THEN q - x ELSE x

Base == <<Bx, By, 1, Bx * By % q>>

edwards_add(P, Q) ==
  LET aa == (P[2] - P[1]) * (Q[2] - Q[1]) % q
      bb == (P[2] + P[1]) * (Q[2] + Q[1]) % q
      c  == (P[4] * 2 * d * Q[4]) % q
      dd == (P[3] * 2 * Q[3]) % q
      e  == bb - aa
      f  == dd - c
      g  == dd + c
      h  == bb + aa
  IN  <<e * f % q, g * h % q, f * g % q, e * h % q>>

edwards_double(P) ==
  LET aa == P[1] * P[1] % q
      bb == P[2] * P[2] % q
      c  == 2 * P[3] * P[3] % q
      dd == (-aa) % q
      e  == ((P[1] + P[2]) * (P[1] + P[2]) - aa - bb) % q
      g  == (dd + bb) % q
      f  == (g - c) % q
      h  == (dd - bb) % q
  IN  <<e * f % q, g * h % q, f * g % q, e * h % q>>

scalarmult(P, n) ==
  LET s[k \in 0..n] ==
        IF k = 0 THEN <<0, 1, 1, 0>>
        ELSE LET Q == edwards_double(s[k \div 2])
             IN  IF k % 2 = 1 THEN edwards_add(Q, P) ELSE Q
  IN  s[n]

Sign == 2^(b - 1)

encodepoint(P) ==
  LET x == P[1] * inv(P[3]) % q
      y == P[2] * inv(P[3]) % q
  IN  y + (x % 2) * Sign

\* Mutant of isoncurve: any four coordinates that agree with one another.
IsExtended(P) == P[3] % q # 0 /\ P[1] * P[2] % q = P[3] * P[4] % q

isoncurve(P) ==
  /\ P[3] % q # 0
  /\ P[1] * P[2] % q = P[3] * P[4] % q
  /\ (P[2] * P[2] - P[1] * P[1] - P[3] * P[3] - d * P[4] * P[4]) % q = 0

\* The point decodepoint builds; it raises ValueError if that is not on the curve.
\* y may be q or above, and x may be q.
Decoded(s) ==
  LET y    == s % Sign
      even == xrecover(y)
      x    == IF even % 2 # s \div Sign THEN q - even ELSE even
  IN  <<x, y, 1, x * y % q>>

-----------------------------------------------------------------------------

\* The multiples of 8 with the second highest bit set that bits of a hash select.
Clamped == {2^(b - 2) + 8 * i : i \in 0..(2^(b - 5) - 1)}

k(R, key) == H(R, key, m) % l

Init == /\ pc = "key" /\ a = 0 /\ made = FALSE /\ sig = Short /\ m \in Messages
        /\ pk = Short /\ valid = FALSE

publickey ==
  /\ pc = "key"
  /\ a' \in Clamped
  /\ pk' = encodepoint(scalarmult(Base, a'))
  /\ pc' = "sign"
  /\ UNCHANGED <<made, sig, m, valid>>

\* Mutant of signature: the response is not reduced.
SignatureUnreduced ==
  /\ pc = "sign"
  /\ \E r \in 0..(l - 1) :
       LET R == encodepoint(scalarmult(Base, r)) IN sig' = <<R, r + k(R, pk) * a>>
  /\ made' = TRUE /\ pc' = "check"
  /\ UNCHANGED <<a, m, pk, valid>>

\* r is a hash of the secret and the message, reduced.
signature ==
  /\ pc = "sign"
  /\ \E r \in 0..(l - 1) :
       LET R == encodepoint(scalarmult(Base, r)) IN sig' = <<R, (r + k(R, pk) * a) % l>>
  /\ made' = TRUE /\ pc' = "check"
  /\ UNCHANGED <<a, m, pk, valid>>

\* Or what is checked is whatever a file holds.
Present ==
  /\ pc = "key"
  /\ sig' \in {Short} \cup ((0..(2^b - 1)) \X Scalars)
  /\ pk' \in {Short} \cup (0..(2^b - 1))
  /\ pc' = "check"
  /\ UNCHANGED <<a, made, m, valid>>

checkLength ==
  /\ pc = "check" /\ (sig = Short \/ pk = Short)
  /\ valid' = FALSE /\ pc' = "done"
  /\ UNCHANGED <<a, made, sig, m, pk>>

Decodes == isoncurve(Decoded(sig[1])) /\ isoncurve(Decoded(pk))

\* Mutant of Refused: any second half will do.
RefusedByPoints(S) == ~Decodes

\* A ValueError of decodepoint, or S >= l.
Refused(S) == ~Decodes \/ S >= l

Fits(S) ==
  LET lhs == scalarmult(Base, S)
      rhs == edwards_add(Decoded(sig[1]), scalarmult(Decoded(pk), k(sig[1], pk)))
  IN  encodepoint(lhs) = encodepoint(rhs)

checkForm ==
  /\ pc = "check" /\ sig # Short /\ pk # Short
  /\ Refused(sig[2])
  /\ valid' = FALSE /\ pc' = "done"
  /\ UNCHANGED <<a, made, sig, m, pk>>

checkEquation ==
  /\ pc = "check" /\ sig # Short /\ pk # Short
  /\ ~Refused(sig[2])
  /\ valid' = Fits(sig[2])
  /\ pc' = "done"
  /\ UNCHANGED <<a, made, sig, m, pk>>

Next == publickey \/ signature \/ Present \/ checkLength \/ checkForm \/ checkEquation

Spec == Init /\ [][Next]_vars

-----------------------------------------------------------------------------

\* The curve, its addition and its multiples as the affine equations have them.
Points  == {P \in (0..(q - 1)) \X (0..(q - 1)) :
              (P[2] * P[2] - P[1] * P[1]) % q = (1 + d * (P[1] * P[1] % q) * (P[2] * P[2] % q)) % q}
Over(n, e) == CHOOSE x \in 0..(q - 1) : x * e % q = n % q
Plus(P, Q) == LET t == d * (P[1] * Q[1] % q) * (P[2] * Q[2] % q) % q
              IN  <<Over(P[1] * Q[2] + P[2] * Q[1], 1 + t), Over(P[2] * Q[2] + P[1] * Q[1], 1 - t)>>
Sums     == [P \in Points, Q \in Points |-> Plus(P, Q)]
Multiple == [P \in Points |-> [n \in 0..(l - 1) |->
               LET s[i \in 0..n] == IF i = 0 THEN <<0, 1>> ELSE Sums[s[i - 1], P] IN s[n]]]

\* The points an encoding stands for: y modulo q, and x of the parity given, which
\* does not matter where x is 0.
Meant == [s \in 0..(2^b - 1) |->
           {P \in Points : P[2] = (s % Sign) % q /\ (P[1] # 0 => P[1] % 2 = s \div Sign)}]

\* ed25519.py:131-145: the verdict is the equation S B = R + k A of the group for an S
\* below its order, whatever z the doublings and additions carry along, whichever root
\* xrecover took and however the points were encoded.
VerdictIsTheEquation ==
  (pc = "done" /\ sig # Short /\ pk # Short) =>
    (valid <=> /\ sig[2] < l
               /\ \E R \in Meant[sig[1]], A \in Meant[pk] :
                    Multiple[<<Bx, By>>][sig[2]] = Sums[R, Multiple[A][k(sig[1], pk)]])

\* ed25519.py:99-107: what a key's holder signs is accepted, for every key, message
\* and commitment, although the key's scalar is far above the order.
SignedIsAccepted == (pc = "done" /\ made) => valid

\* ed25519.py:140: a commitment, a key and a message have one response that is
\* accepted, of all that fit in its b bits.
OneResponse ==
  (pc = "done" /\ valid) =>
    \A S \in 0..(2^b - 1) : (~Refused(S) /\ Fits(S)) => S = sig[2]
=============================================================================
