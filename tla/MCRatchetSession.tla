------------------------- MODULE MCRatchetSession --------------------------
(***************************************************************************)
(* A small instance of RatchetSession for TLC.                             *)
(***************************************************************************)
EXTENDS RatchetSession

MCMaxSend == [p \in Party |-> IF p = "initiator" THEN 5 ELSE 1]
=============================================================================
