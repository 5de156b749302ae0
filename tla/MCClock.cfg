CONSTANTS
  None = None
  NSeats = 3
  SideBudget = 3
  AllowsResign = FALSE
  AllowsDrawOffer = FALSE
  Submission <- NullAct
  NightSeats = {0, 1, 2}
  Nights = 2
  ThinkingTime = 2
  GState <- MCGState
  InitStates <- MCInitStates
  Move <- MCMove
  PlayersToMove <- MCPlayersToMove
  LegalMoves <- MCLegalMoves
  Apply <- MCApply
  IsTerminal <- MCIsTerminal
  ParseMove <- MCParseMove
  DefaultMove <- MCDefaultMove
  GameReason <- MCGameReason
  Gone <- MCGone
  ForfeitPlayer <- MCForfeitPlayer
  PhaseBudget <- MCPhaseBudget
SPECIFICATION FairSpec
INVARIANTS
  NoFlaggedMover
PROPERTIES
  EventuallyEnds
