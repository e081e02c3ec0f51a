SPECIFICATION Spec
CONSTANTS
  Heaps <- MCHeaps
  Main = "main"
INVARIANTS DeclAndCallAgree
CHECK_DEADLOCK FALSE
