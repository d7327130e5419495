SPECIFICATION AntennaFairSpec
CONSTANTS
  DEPLOY_TIMEOUT = 12
  MaxPass = 4
INVARIANTS AntennaInv UnattendedBurn
PROPERTIES NotCutShort DeploymentEnds
