\* Wallets: two of them, a balance on each side of the threshold, and two ticks, so that
\* records of one wallet replace those of the other within a tick.
SPECIFICATION MCArchivesSpec
CONSTANTS
  Wallets = {w1, w2}
  Balances = {1, 3}
  TransferAmounts = {0, 1}
  RecoverableIds = {record_1}
  GovernedWallets = {w1}
  PreservationThreshold = 2
  CriticalThreshold = 1
  MaxCalls = 5
  c1 = c1
  c2 = c2
  song = song
  intro = intro
  remix = remix
  other = other
  head1 = head1
  head2 = head2
  Missing = Missing
  NoFile = NoFile
  NoDraft = NoDraft
  Creators <- MCCreators
  Files <- MCFiles
  Contents <- MCContents
  FileContents <- MCFileContents
  SampleOf <- MCSampleOf
  InitialContent <- MCInitialContent
  UploadRoutes <- MCUploadRoutes
  Word = 16
  MaxTime = 1
SYMMETRY MCSymmetry
INVARIANTS
  MonitorAgrees
  AttestationOfOneContent
  LostOnlyToServicesOrRewrites
PROPERTIES
  DriftOnlyByReuse
  ImplementsClaims
CHECK_DEADLOCK FALSE
