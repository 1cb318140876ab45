--------------------------- MODULE MCFeedTimeline ---------------------------
(* An instance for TLC: alice writes the first post, bob the second, and   *)
(* bob may follow alice.                                                   *)
EXTENDS FeedTimeline

CONSTANTS alice, bob, p1, p2

MCTwoAuthors == [p \in Posts |-> IF p = p1 THEN alice ELSE bob]
MCPairs == {<<bob, alice>>}
=============================================================================
