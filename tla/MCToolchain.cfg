\* Four lanes of sixteen-bit words with RAM and framebuffer of a size that
\* programs reach, immediates of nine bits and a call stack of eight entries.
SPECIFICATION Spec
CONSTANTS
  WordBits = 16
  LANES = 4
  RAM_SIZE_WORDS = 1024
  VIDEO_BASE = 2048
  VIDEO_WIDTH = 4
  MAX_INLINE_STATEMENTS = 6
  MAX_INLINE_AST_NODES = 48
  CALL_STACK = 8
  IMM_MAX = 255
  MAX_CODE_WORDS = 500
  MAX_LITERALS = 32
  Jobs <- MCJobs
  Listings <- MCListings
  Compiled <- MCCompiled
  Assembled <- MCAssembled
  Parsed <- MCParsed
  Meanings <- MCMeanings
INVARIANTS
  CompiledAsMeant Diagnoses ExpressionsParse
  Converged UniformIsUniform StackIsBalanced ImageRoundTrips
PROPERTY Finishes
\* A job ends, and the warp with it.
CHECK_DEADLOCK FALSE
