CONSTANTS
  None = None
  NSeats = 2
  Limit = 5
  SideBudget = None
  AllowsResign = TRUE
  AllowsDrawOffer = TRUE
  Submission <- MCSubmission
  GState <- MCGState
  InitStates <- MCInitStates
  Move <- MCMove
  PlayersToMove <- MCPlayersToMove
  LegalMoves <- MCLegalMoves
  Apply <- MCApply
  IsTerminal <- MCIsTerminal
  ParseMove <- MCParseMove
  DefaultMove <- MCDefaultMove
  GameReason <- MCGameReason
  Gone <- MCGone
  ForfeitPlayer <- MCForfeitPlayer
  PhaseBudget <- MCPhaseBudget
SPECIFICATION Spec
INVARIANTS
  OutcomeIsSealed
  DrawNeedsBothSides
  ThirdStrikeIsFinal
