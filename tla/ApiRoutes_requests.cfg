\* Every call of the client with every name, by GET and by POST, and pages.
SPECIFICATION Spec
CONSTANTS
  Names <- AllNames
  Begins <- AllBegins
  Texts <- AllTexts
  Encoded <- Encode
  Sent <- Split
  Queries <- AllQueries
  Commands <- AllCommands
  Long <- TooLong
  Huge <- EndLine
  Clipped <- Clipping
  Kept <- Keeping
  Pages <- AllPages
INVARIANTS
  OtherCallOnlyIfNamed
  
  RejectsOnlyMalformed
  SendsOnlyText
\* A request is answered and is over.
CHECK_DEADLOCK FALSE
