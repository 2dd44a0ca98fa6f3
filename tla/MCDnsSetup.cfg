SPECIFICATION FairSetupSpec
INVARIANTS FamiliesTogether
PROPERTIES NameServiceRegained FilterRestored RecordTruthful
CONSTANTS
  Retries = 1
  Callers = {"hand"}
  MaxMishaps = 2
