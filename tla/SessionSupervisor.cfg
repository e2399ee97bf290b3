CONSTANTS
  Session <- MCSessions
  AutoResume = {TRUE, FALSE}
  MaxExits = 3
  MaxRestarts = 2
  Nobody = Nobody
SPECIFICATION FairSpec
INVARIANT TypeOK
INVARIANT ExposureIsWatched
INVARIANT ActiveHasWorker
PROPERTY EntriesStayBlocked
PROPERTY ForceStopHolds
PROPERTY SupervisionResumes
PROPERTY StopConverges
