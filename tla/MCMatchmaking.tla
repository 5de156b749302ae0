--------------------------- MODULE MCMatchmaking ----------------------------
(***************************************************************************)
(* Three entrants, two of one operator, a rating gap the first band does   *)
(* not span, one general and two rostered house agents; a two-seat queue   *)
(* and a rostered queue of three seats.                                    *)
(***************************************************************************)
EXTENDS Matchmaking, TLC

MCOperator == <<"x", "x", "y", "house", "house", "house">>
MCEntry == {<<1, 1>>, <<2, 1>>, <<2, 2>>, <<1, 3>>}
MCRating == <<1500, 1500, 1740, 1500, 1500, 1500>>
MCSeats == <<2, 3>>
MCRoster ==
  <<"queue", 1>> :> None @@ <<"queue", 2>> :> "ww" @@
  <<"agent", 4>> :> None @@ <<"agent", 5>> :> "ww" @@ <<"agent", 6>> :> "ww"

=============================================================================
