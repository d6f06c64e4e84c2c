-------------------------- MODULE MCMessageClient --------------------------
(***************************************************************************)
(* A small instance of MessageClient for TLC.                              *)
(***************************************************************************)
EXTENDS MessageClient

CONSTANTS alice, bob

\* So many messages from alice to bob, back, and from alice to herself.
Bound(there, back, self, reloads, foreign) ==
    [ send    |-> [w \in Client \X Client |->
                      CASE w = <<alice, bob>>   -> there
                        [] w = <<bob, alice>>   -> back
                        [] w = <<alice, alice>> -> self
                        [] OTHER                -> 0],
      reloads |-> [c \in Client |-> reloads],
      others  |-> foreign ]

\* Alice writes thrice and Bob once, and either reloads.
Reloaded == {Bound(3, 1, 0, 1, 0)}
\* Alice alone writes, and nobody reloads.
TwoFromAlice == {Bound(2, 0, 0, 0, 0)}

Instances ==
    Reloaded \union
    { Bound(6, 0, 0, 0, 0),     \* enough to fill the cache of skipped keys
      Bound(2, 1, 0, 0, 1),     \* and an event that ends scans
      Bound(0, 0, 3, 1, 0) }    \* Alice writes to herself
=============================================================================
