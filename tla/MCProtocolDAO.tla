--------------------------- MODULE MCProtocolDAO ---------------------------
(***************************************************************************)
(* Two signers and a third person, who may become one; two proposals.  The *)
(* constructor's list names one of the signers twice.                      *)
(***************************************************************************)
EXTENDS ProtocolDAO, TLC

CONSTANTS alice, bob, carol

InitialSignersDef == <<alice, bob, bob>>
Symmetry == Permutations(Operation)

\* Two proposals come with one call that pauses or changes the signers, one
\* with two, none with three.
Small == Len(proposals) + calls <= 3
=============================================================================
