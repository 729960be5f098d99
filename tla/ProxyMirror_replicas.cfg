CONSTANTS
  Nobody = Nobody
  Protocols = {"npm", "puppet", "chef", "conda", "generic"}
  Versions = {1, 2}
  Tags = {"next"}
  Replicas = {A, B}
  Ingests = {i1, i2}
  PackageLimit = 1
  MaxChanges = 1
  MaxEvents = 2
SPECIFICATION FairSpec
INVARIANTS
  TagsAreOneDocument MirroredIsReferenced
PROPERTY MirrorCatchesUp
