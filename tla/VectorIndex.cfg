SPECIFICATION FairSpec
CONSTANTS
  Loaders = {l1, l2}
  Users = {u1}
  MaxRows = 2
  MaxArtifacts = 1
  Page = 1
INVARIANTS
  NoDuplicates
  WatermarkExact
  TopicsNeverHidden
PROPERTY TopicsBecomeSearchable
