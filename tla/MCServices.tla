----------------------------- MODULE MCServices ----------------------------
(***************************************************************************)
(* What runs beside requests to play: identity, doorbells, the signed log, *)
(* and the house seats of a room.  They share neither rows nor tasks, so a *)
(* behaviour runs one of them, and the others rest.                        *)
(*                                                                         *)
(* Doorbells: one agent with the key of one of two URLs, waited for in two *)
(* games.  The log: two games of 4 and 5 rows, of which 8 fit a tree.      *)
(* House seats: three of them, one that never gets a move accepted, and a  *)
(* real seat; two seats a wake; a turn without house seats comes first.    *)
(***************************************************************************)
EXTENDS MCIdentity, Doorbell, HouseDriver, Checkpoint

CONSTANTS c1, a1, u1, u2, g1, g2, t1, t2

MCControls == {<<a1, u1>>}
MCSeats == [g \in {g1, g2} |-> {a1}]
MCLength == <<4, 5>>
MCMovers == <<{4}, {1, 2, 3, 4}, {2, 4}>>

VARIABLE part

\* Few seats are silent, and the time is enough: the assumptions of HouseDriver's theorem.
ASSUME DoorbellAssumption /\ LogAssumption /\ DriverAssumption /\ SilentAreFew /\ TimeIsEnough

all == <<part, vars, doorbellVars, logVars, driverVars>>

ServicesInit ==
  /\ part \in {"identity", "doorbells", "log", "driver"}
  /\ Init /\ DoorbellInit /\ LogInit /\ DriverInit

ServicesNext ==
  \/ part = "identity" /\ Next /\ UNCHANGED <<part, doorbellVars, logVars, driverVars>>
  \/ part = "doorbells" /\ DoorbellNext /\ UNCHANGED <<part, vars, logVars, driverVars>>
  \/ part = "log" /\ LogNext /\ UNCHANGED <<part, vars, doorbellVars, driverVars>>
  \/ part = "driver" /\ DriverNext /\ UNCHANGED <<part, vars, doorbellVars, logVars>>

ServicesSpec ==
  /\ ServicesInit /\ [][ServicesNext]_all
  /\ WF_all(part = "identity" /\ Tick /\ UNCHANGED <<part, doorbellVars, logVars, driverVars>>)
  /\ WF_all(part = "identity" /\ SweepExpired /\ UNCHANGED <<part, doorbellVars, logVars, driverVars>>)
  /\ \A k \in {t1, t2} : WF_all(part = "log" /\ TickStep(k) /\ UNCHANGED <<part, vars, doorbellVars, driverVars>>)
  /\ WF_all(part = "driver" /\ Age /\ UNCHANGED <<part, vars, doorbellVars, logVars>>)
  /\ WF_all(part = "driver" /\ Alarm /\ UNCHANGED <<part, vars, doorbellVars, logVars>>)

-----------------------------------------------------------------------------
(* The safety properties are Identity's, Doorbell's, HouseDriver's and the *)
(* log's.                                                                  *)

\* Identity's: challenges do not stay for ever.  They are alike, so one stands for both.
ChallengesGo == Goes(c1)
\* Checkpoint's: the log is signed in the end.
LogIsSigned == part = "log" => EventuallySigned
\* HouseDriver's: the alarm that house seats and deadlines share ends the game.
GameIsOver == part = "driver" => EventuallyOver

=============================================================================
