----------------------------- MODULE ZKVerifier -----------------------------
(***************************************************************************)
(* contracts/core/ZKVerifier.sol: which membership proofs are accepted,    *)
(* against which roots, and which nullifiers are spent.                    *)
(*                                                                         *)
(* A proof is made for a root, a group and a nullifier and satisfies one   *)
(* equation, which names its points: e(A, B) is the product of the         *)
(* equation's other pairings, in which vk_x is the sum of the points       *)
(* IC[0], IC[1], ... of the verifying key with the listed coefficients.    *)
(* The key is one that a setup has made.  A call that reverts leaves every *)
(* variable unchanged and is not an action.                                *)
(***************************************************************************)
EXTENDS Naturals

CONSTANTS
    Group,          \* bytes32 group identifiers
    Account,        \* callers
    owner,          \* the account that deployed the contract
    ZeroNullifier   \* bytes32(0)

VARIABLES
    vkInitialized,              \* a verifying key was set
    rootValidationEnabled,      \* only registered roots are accepted
    validRoots,                 \* {<<g, r>> : validRoots[g][r]}
    authorizedRootRegistrars,   \* {a : authorizedRootRegistrars[a]}
    groupNullifiers             \* {<<g, n>> : groupNullifiers[g][n]}

settings == <<vkInitialized, rootValidationEnabled, authorizedRootRegistrars>>
verifierVars == <<settings, validRoots, groupNullifiers>>

VerifierInit ==
    /\ vkInitialized = FALSE
    /\ rootValidationEnabled = FALSE
    /\ validRoots = {}
    /\ authorizedRootRegistrars = {}
    /\ groupNullifiers = {}

-----------------------------------------------------------------------------
(* Settings                                                                *)

setVerifyingKey(caller) ==
    /\ caller = owner
    /\ vkInitialized' = TRUE
    /\ UNCHANGED <<rootValidationEnabled, authorizedRootRegistrars, validRoots, groupNullifiers>>

setRootValidationEnabled(caller, enabled) ==
    /\ caller = owner
    /\ rootValidationEnabled' = enabled
    /\ UNCHANGED <<vkInitialized, authorizedRootRegistrars, validRoots, groupNullifiers>>

setAuthorizedRootRegistrar(caller, registrar, authorized) ==
    /\ caller = owner
    /\ authorizedRootRegistrars' = IF authorized
                                   THEN authorizedRootRegistrars \union {registrar}
                                   ELSE authorizedRootRegistrars \ {registrar}
    /\ UNCHANGED <<vkInitialized, rootValidationEnabled, validRoots, groupNullifiers>>

setValidRoot(caller, g, root, valid) ==
    /\ caller = owner
    /\ validRoots' = IF valid THEN validRoots \union {<<g, root>>}
                     ELSE validRoots \ {<<g, root>>}
    /\ UNCHANGED <<settings, groupNullifiers>>

\* registerRoot is the batch of one.
registerRoots(caller, pairs) ==
    /\ caller \in authorizedRootRegistrars
    /\ validRoots' = validRoots \union pairs
    /\ UNCHANGED <<settings, groupNullifiers>>

-----------------------------------------------------------------------------
(* Verification                                                            *)

\* The equation of Groth16, which a prover's points satisfy: IC[0] is constant,
\* and alpha and beta are paired as well.
Groth16(root, g, nullifier) ==
    [pairings |-> {"alpha, beta", "vk_x, gamma", "C, delta"}, vk_x |-> <<1, root, g, nullifier>>]

\* The equation that the contract checks.
Checked(root, g, nullifier) ==
    [pairings |-> {"vk_x, gamma", "C, delta"}, vk_x |-> <<root, g, nullifier>>]

_verify(proof, root, g, nullifier) == proof.equation = Checked(root, g, nullifier)

\* A view: what it accepts it may accept again.
verifyMembership(proof, root, g, nullifier) ==
    /\ vkInitialized
    /\ nullifier # ZeroNullifier
    /\ rootValidationEnabled => <<g, root>> \in validRoots
    /\ <<g, nullifier>> \notin groupNullifiers
    /\ _verify(proof, root, g, nullifier)

\* Anybody may call it, with a proof seen anywhere; the root is not looked at.
verifyAndConsumeNullifier(proof, root, g, nullifier) ==
    /\ vkInitialized
    /\ nullifier # ZeroNullifier
    /\ <<g, nullifier>> \notin groupNullifiers
    /\ _verify(proof, root, g, nullifier)
    /\ groupNullifiers' = groupNullifiers \union {<<g, nullifier>>}
    /\ UNCHANGED <<settings, validRoots>>
=============================================================================
