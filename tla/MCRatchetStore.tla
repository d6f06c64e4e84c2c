-------------------------- MODULE MCRatchetStore ---------------------------
(***************************************************************************)
(* A small instance of RatchetStore for TLC: locking callers on one peer,  *)
(* optimistic ones on another.                                             *)
(***************************************************************************)
EXTENDS RatchetStore

CONSTANTS alice, bob, s1, s2, r1, r2, o1, o2, o3

MCPeerOf == [c \in Caller |-> IF c \in Optimist THEN bob ELSE alice]
=============================================================================
