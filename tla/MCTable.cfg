CONSTANTS
  None = None
  NSeats = 3
  SideBudget = None
  AllowsResign = FALSE
  AllowsDrawOffer = FALSE
  Submission <- ByNotation
  NightSeats = {0, 1}
  Nights = 2
  ThinkingTime = 1
  GState <- MCGState
  InitStates <- MCInitStates
  Move <- MCMove
  PlayersToMove <- MCPlayersToMove
  LegalMoves <- MCLegalMoves
  Apply <- MCApply
  IsTerminal <- MCIsTerminal
  ParseMove <- MCParseMove
  DefaultMove <- MCDefaultMove
  GameReason <- MCGameReason
  Gone <- MCGone
  ForfeitPlayer <- MCForfeitPlayer
  PhaseBudget <- MCPhaseBudget
SPECIFICATION Spec
INVARIANTS
  TypeOK
  OnceATurn
  WaitsForSomeone
  ReplayVerifies
PROPERTIES
  HeldSeatsAreAnswered
