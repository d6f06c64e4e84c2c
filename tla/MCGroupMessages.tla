-------------------------- MODULE MCGroupMessages --------------------------
(***************************************************************************)
(* Two members and a tree of height two; a reader and another recipient.   *)
(* The group of stealth addresses has order 7, and hashes are such that    *)
(* no address of one recipient is one of the other's.                      *)
(***************************************************************************)
EXTENDS GroupMessages

CONSTANTS alice, bob, deployer, x1, x2, g1, g2, m1, m2

ViewingDef == alice :> 2 @@ bob :> 3
SpendingDef == alice :> 1 @@ bob :> 5
KeccakDef == [s \in 0..6 |-> <<8, 9, 3, 11, 5, 13, 2>>[s + 1]]
DirectNullifierDef == {<<"direct", x1>>, <<"direct", x2>>}
BoundsDef ==
    {[leaves |-> 2, proofs |-> 2, messages |-> 0, epochs |-> 1, settings |-> 0,
      reads |-> FALSE, sends |-> FALSE],
     [leaves |-> 1, proofs |-> 1, messages |-> 1, epochs |-> 0, settings |-> 3,
      reads |-> FALSE, sends |-> TRUE],
     [leaves |-> 0, proofs |-> 1, messages |-> 2, epochs |-> 1, settings |-> 1,
      reads |-> TRUE, sends |-> FALSE],
     [leaves |-> 0, proofs |-> 2, messages |-> 2, epochs |-> 0, settings |-> 1,
      reads |-> TRUE, sends |-> FALSE],
     [leaves |-> 0, proofs |-> 1, messages |-> 3, epochs |-> 0, settings |-> 1,
      reads |-> TRUE, sends |-> FALSE]}

ZeroNullifierDef == <<"zero">>

\* Nullifiers of direct messages are interchangeable, and so are members and groups.
Symmetry == Permutations({x1, x2}) \union Permutations({m1, m2}) \union Permutations({g1, g2})
=============================================================================
