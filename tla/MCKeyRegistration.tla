------------------------- MODULE MCKeyRegistration -------------------------
(***************************************************************************)
(* An account alice that registers once and greets, and an account bob     *)
(* that registers again, rotates and has one-time pre-keys.                *)
(***************************************************************************)
EXTENDS KeyBackup, TLC

CONSTANTS alice, bob

KeysOf(a) == {IdentityKey(a, n) : n \in 1..MaxKeys[a]} \union {PreKey(a, n) : n \in 1..MaxKeys[a]}

KeyDef == UNION {KeysOf(a) : a \in Account}
MaxKeysDef == alice :> 1 @@ bob :> 2
MaxCountDef == alice :> 0 @@ bob :> 2
=============================================================================
