SPECIFICATION FairSpec
CONSTANTS
  Dirs <- MCDirs
  SubjectsOf <- MCSubjectsOf
  Certificates <- MCCertificates
  HostSets <- MCHostSets
  Azure <- MCAzure
  MaxWrites = 2
  MaxRequests = 2
  MaxIntrusions = 1
INVARIANTS
  PolicySound
PROPERTIES
  ArchiveSafe
  MovedUnused
  NobodyStuck
