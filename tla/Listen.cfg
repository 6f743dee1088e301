SPECIFICATION FairSpec
CONSTANTS
  MaxClients = 2
  Given = {"print", "raw", "exit"}
INVARIANTS
  TableIsClients
  MainSurvives
  
PROPERTY
  MainGoesOn
CHECK_DEADLOCK FALSE
