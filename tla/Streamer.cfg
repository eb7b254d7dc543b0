SPECIFICATION FairSpec
CONSTANTS
  a1 = a1  a2 = a2
  Agent = {a1, a2}
  Owners <- TwoLists
  Programs <- SomePrograms
  Feeds <- SomeFeeds
  MidBatchSize = 3
  CtrLimit = 4
INVARIANTS TypeOK InputSent WaitMeansDone
PROPERTY EverythingHandled
