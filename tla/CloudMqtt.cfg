SPECIFICATION FairSpec
CONSTANTS
  Gate = 5
INVARIANTS TypeOK FlagMeansAccepted OneConnection SamplesToAccepted NeverShownBetter
PROPERTIES DiesOnlyRegistering RegisterTaken Reconnects 
