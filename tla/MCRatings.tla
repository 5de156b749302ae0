---------------------------- MODULE MCRatings ------------------------------
(***************************************************************************)
(* Three games: two of one queue that share an agent, and one with house   *)
(* agents in two of three seats.  The lobby key of the first two is not     *)
(* what their variant column is turned back into.                          *)
(***************************************************************************)
EXTENDS Ratings, TLC

MCSeatsOf == "g1" :> <<1, 2>> @@ "g2" :> <<2, 3>> @@ "g3" :> <<1, 4, 5>>
MCMinReal == "g1" :> 0 @@ "g2" :> 0 @@ "g3" :> 2
MCQueue == "g1" :> "odd" @@ "g2" :> "odd" @@ "g3" :> "std"
MCColumn == [g \in {"g1", "g2", "g3"} |-> "std"]

Plain(winners, draw) == [winners |-> winners, draw |-> draw, scores |-> <<>>, teams |-> <<>>]
MCResults ==
  "g1" :> {[Plain({1}, FALSE) EXCEPT !.scores = <<0, 0>>]} @@
  "g2" :> {[Plain({1, 2}, TRUE) EXCEPT !.teams = <<"v", None>>]} @@
  "g3" :> {[Plain({1}, FALSE) EXCEPT !.teams = <<"v", "w", "v">>],
           [Plain({1, 2}, FALSE) EXCEPT !.teams = <<"v", "w", "v">>]}

=============================================================================
