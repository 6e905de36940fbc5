-------------------------- MODULE MCFallbackLadder --------------------------
(* Instances of FallbackLadder.                                            *)
EXTENDS FallbackLadder, TLC

CONSTANTS main, sibling, other, c1, c2

Pair == <<main, sibling>>
Trio == <<main, sibling, other>>
Same == {main, sibling}
AllOnMain == [c \in Convs |-> main]
AnyConversation == Permutations(Convs)
=============================================================================
