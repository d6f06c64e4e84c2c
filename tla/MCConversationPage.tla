------------------------ MODULE MCConversationPage -------------------------
(***************************************************************************)
(* Two accounts.  The page may make two objects for alice, and none for    *)
(* bob, who signs nothing; the registering hook has an object of alice's,  *)
(* which puts keys.                                                        *)
(***************************************************************************)
EXTENDS ConversationPage, TLC

CONSTANTS alice, bob, a1, a2, register

AddressDef == a1 :> alice @@ a2 :> alice @@ register :> alice
WritesDef == a1 :> Kind @@ a2 :> Kind @@ register :> {"keys"}
DataDef == SUBSET (1..MaxChanges)
Symmetry == Permutations({a1, a2})

\* Two changes come with at most two puts; the fourth put, at which a history
\* is cut, comes when the page has saved nothing.  Two puts overlap, of one
\* object or of two.
Small == started + changes <= 4 /\ Cardinality(puts) <= 2
=============================================================================
