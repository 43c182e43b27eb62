\* A start by POST: expected to fail.
SPECIFICATION Spec
CONSTANTS
  Names <- AllNames
  Begins <- AllBegins
  Texts <- AllTexts
  Encoded <- Encode
  Sent <- Split
  Queries <- AllQueries
  Commands <- AllCommands
  Long <- TooLong
  Huge <- EndLine
  Clipped <- Clipping
  Kept <- Keeping
  Pages <- AllPages
INVARIANT
  PostsAreCarriedOut
\* A request is answered and is over.
CHECK_DEADLOCK FALSE
