--------------------------- MODULE StealthAddress ---------------------------
(***************************************************************************)
(* src/stealth.ts: one-time addresses.                                     *)
(*                                                                         *)
(* Keys are numbers modulo the order n of a group with generator G.  A     *)
(* public key is named by its private key, so that adding points is adding *)
(* modulo n and a shared secret is a product: what is left of secp256k1 is *)
(* its arithmetic.  keccak256 of a shared secret is any function, of which *)
(* hashToScalar takes the remainder modulo n and computeViewTag the first  *)
(* byte.  The multiplication with scalar 0, and an address made of the     *)
(* point at infinity, throw.                                               *)
(***************************************************************************)
EXTENDS Naturals

CONSTANTS
    n,              \* the order of the group, a prime
    keccak256,      \* keccak256[secret]
    ViewTags,       \* how many view tags there are (256)
    Invalid         \* the result of a call that throws

ASSUME StealthAddressAssumption ==
    /\ n \in Nat \ {0, 1}
    /\ ViewTags \in Nat \ {0}
    /\ keccak256 \in [0..n - 1 -> Nat]
    /\ Invalid \notin Nat

PrivateKey == 1..n - 1

getSharedSecret(priv, pub) == (priv * pub) % n

hashToScalar(secret) == keccak256[secret] % n

\* The first byte of the hash, which is not a function of the scalar.
computeViewTag(secret) == keccak256[secret] % ViewTags

\* H(secret) * G + spendingPub.
stealthPoint(secret, spendingPub) == (hashToScalar(secret) + spendingPub) % n

\* What both derivations do once they have the secret.
derive(secret, spendingPub) ==
    IF hashToScalar(secret) = 0 \/ stealthPoint(secret, spendingPub) = 0
    THEN Invalid
    ELSE [stealthAddress |-> stealthPoint(secret, spendingPub),
          viewTag        |-> computeViewTag(secret)]

\* The sender draws an ephemeral key.
deriveStealthAddress(ephemeral, viewingPub, spendingPub) ==
    derive(getSharedSecret(ephemeral, viewingPub), spendingPub)

\* Mutant: the hash of the ephemeral key, not of the shared secret.
deriveFromPublic(ephemeralPub, viewingPriv, spendingPub) == derive(ephemeralPub, spendingPub)

\* The recipient, from the public half of it.
deriveStealthFromEphemeral(ephemeralPub, viewingPriv, spendingPub) ==
    derive(getSharedSecret(viewingPriv, ephemeralPub), spendingPub)
=============================================================================
