\* A task and two threads that share the main handle.
SPECIFICATION TasksFairSpec
CONSTANTS
  Tasks = {t1}
  Others = {o1, o2}
  Main = Main
  None = None
  MaxCount = 2
  MaxDepth = 2
INVARIANTS NoLostWakeup HolderIsSelf
PROPERTIES NotifiedTaskWakes
