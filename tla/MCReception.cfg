CONSTANTS
  MetaInts = {0, 2}
  Unit = 2
  MaxUnits = 2
  Streams <- MCStreams
  RECEIVE = 8
  Look = 4
  Errors = 2
  Headers = {1}
  Codings <- MCCodings
  Rubbish <- MCRubbish
SPECIFICATION ReceptionSpec
VIEW MCView
INVARIANTS AudioReceived TitleReceived
PROPERTY DirectSpec
CHECK_DEADLOCK FALSE
