CONSTANTS
  Clients = {"c1", "c2"}
  Chars = {"x"}
  BrecSize = 3
  MaxUnread = 4
  UART_RX_QUEUE_SIZE = 3
  TmpSize = 4
  Characters = {"x", "y"}
  MaxLine = 4
  MaxNoise = 12
  QueueSize = 2
  Digits = {"1"}
  Stations = {11}
  Wait = 1
  Wrap = 3
  Users = {"user"}
  Fields = {"spatial"}
  Values = {0, 1}
  Saved = 1
  Room = 1
  Rounds = 1
  Filling = 1
SPECIFICATION Spec
INVARIANTS CommandAsTyped LineAsTyped KeyAsSent KeysInTurn
PROPERTY PlayedInTime
INVARIANTS BusIsShared FieldsAsSet
