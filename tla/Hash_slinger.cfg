\* Three threads and three lookups of three digests, with memory for four
\* objheads; lists of two buckets.
SPECIFICATION HashSpec
CONSTANTS
  Threads = {t1, t2, t3}
  Heads = {h1, h2, h3, h4}
  Digests <- ThreeDigests
  ByteBits = 2
  DIGEST_LEN = 2
  COOL_DURATION = 1
  MaxLookups = 3
  hclDigests <- ListDigests
  hcl_nhash = 2
SYMMETRY Symmetric
INVARIANT HashInv
PROPERTY SlingerKept
CHECK_DEADLOCK FALSE
