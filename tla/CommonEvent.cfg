CONSTANTS
  t1 = t1
  t2 = t2
  t3 = t3
  DECODER = DECODER
  EXIT = EXIT
  ELSEBIT = ELSEBIT
  Threads <- MCThreads
  Bits <- MCBits
  MaskOf <- MCMaskOf
SPECIFICATION FairSpec
INVARIANT TypeOK
INVARIANT NoLostWakeup
PROPERTY SetBitEndsWait
