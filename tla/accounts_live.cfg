SPECIFICATION FairSpec
CONSTANTS
  p1 = p1
  p2 = p2
  Devices <- MCDevices
  Dates <- MCDates
  Revisions <- MCRevisions
  Publishers <- MCPublishers
  Manifests <- FewManifests
  Lossy <- MCLossy
  Faults = 1
PROPERTY EveryAccountIsPublished
