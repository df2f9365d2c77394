---------------------------- MODULE MCMatchmaking ----------------------------
(* Instances of Matchmaking for TLC: ratings in hundreds, weights in tenths. *)
EXTENDS Matchmaking, TLC

Symmetry == Permutations(Call)

scoring(r, k, f, diff, match) ==
    [rating |-> r, category |-> k, fill |-> f, maxDiff |-> diff, minMatch |-> match]

MCFallback == scoring(3, 5, 2, 10, <<3, 10>>)

\* The second names others, and leaves no rating difference to blitz.
MCConfig ==
    {[m \in {"duel", "team"} |->
        IF m = "duel" THEN scoring(9, 1, 0, 6, <<1, 5>>) ELSE scoring(5, 4, 1, 2, <<2, 5>>)],
     [m \in {"mega", "blitz"} |->
        IF m = "mega" THEN scoring(0, 0, 10, 10, <<0, 1>>) ELSE scoring(3, 4, 3, 0, <<2, 5>>)]}

lobby(ratings, cats, max, waited) ==
    [ratings |-> ratings, cats |-> cats, max |-> max, waited |-> waited]

\* A tie of two; and lobbies that differ in rating, categories, seats, age.
MCOffer ==
    {[player |-> [rating |-> 5, cats |-> {1, 2}],
      lobbies |-> <<lobby(<<5>>, {1, 2}, 2, 0), lobby(<<5>>, {1, 2}, 2, 0)>>],
     [player |-> [rating |-> 5, cats |-> {1, 2}],
      lobbies |-> <<lobby(<<1, 2>>, {1, 2}, 4, 3), lobby(<<6>>, {2, 3}, 4, 12),
                    lobby(<<5>>, {3}, 2, 1)>>]}
=============================================================================
