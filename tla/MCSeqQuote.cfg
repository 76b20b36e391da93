SPECIFICATION FairSpec
CONSTANTS
  bid = bid
  gen = gen
  Words = {bid, gen}
  r1 = r1
  Readers = {r1}
  MaxWrites = 3
INVARIANTS TypeOK SnapshotIsWhole
PROPERTIES LastQuoteIsRead
