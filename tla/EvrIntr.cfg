SPECIFICATION FairSpec
CONSTANTS
  Causes = {alarm, code}
  Alarm = alarm
INVARIANTS SleeperIsWoken NoPhantomSecond
PROPERTIES SecondHandled
