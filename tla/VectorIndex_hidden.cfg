SPECIFICATION Spec
CONSTANTS
  Loaders = {l1, l2}
  Users = {u1}
  MaxRows = 2
  MaxArtifacts = 2
  Page = 2
INVARIANTS
  ArtifactsNeverHidden

