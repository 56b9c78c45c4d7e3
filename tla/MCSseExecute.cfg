CONSTANTS
  Exec = {e1}
  Reload = {l1}
  Main = main
  NoReq = none
  MaxProc = 2
  MaxText = 1
SPECIFICATION SseLiveSpec
CHECK_DEADLOCK FALSE
INVARIANT SseTypeOK
PROPERTIES
  BrowserStream
  StreamsEnd
  ExecutionsEnd
  TasksEnd
