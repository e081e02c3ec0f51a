CONSTANTS
  MAX_FILES = 2
  run_each_file_times = 3
SPECIFICATION MountSpec
INVARIANTS
  FreshName
  NamesBounded
PROPERTIES
  WaitingEnds
