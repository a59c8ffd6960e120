CONSTANTS
  Recorders = {r1, r2}
  Readers = {r1}
  Chunks = 2
  Nobody = Nobody
SPECIFICATION Spec
INVARIANT RecorderHeld
INVARIANT NoSkippedChunk
PROPERTY StopOnce
