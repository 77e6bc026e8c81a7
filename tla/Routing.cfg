SPECIFICATION Spec
CONSTANTS
  Servant = {s1}
  Lists = {"groups", "priorities", "objects", "divisions"}
  Client = {c1}
  Home = "c"
  Host = {"h1", "h2"}
  Star <- MCStar
  HomeSet <- MCHomeSet
  Station = "st"
  Contents <- MCContents
  MaxChanges = 1
  MaxLoads = 2
PROPERTIES OneVersion AnswersNearest
CHECK_DEADLOCK FALSE
