SPECIFICATION FairSpec
CONSTANTS
  Session = {s1}
  Gate = {g1, g2, g3}
  Band = 3
  MaxEpisodes = 2
  None = None
INVARIANTS TypeOK OneReportPerSilence
PROPERTIES ReportsAreWarranted SilenceIsReported
