SPECIFICATION FairSpec
CONSTANTS
  Admins = {a1, a2}
  Calls = {c1}
  Kinds = {"start", "stop"}
INVARIANTS AnsweredOnce AnswerTrue
PROPERTIES Answered
