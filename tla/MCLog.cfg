\* Two threads record while the writer writes or fails, and the recording is
\* closed or killed at any point; the file is then read, more than once.
SPECIFICATION FairSpec
CONSTANTS
  Threads = {t1, t2}
  MaxCalls = 4
INVARIANTS
  CountCoversFile
  ReplayComplete
PROPERTIES
  KeepsContract
  CloseReturns
  EntriesGetWritten
