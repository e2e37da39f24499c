CONSTANTS
  Q1 = 32749
  Q2 = 8191
  Q3 = 41
  Q4 = 16
  PT = 3
  N1 = 4
  N2 = 2
  GBase = 8
  L = 4
  KeyErrMax = 1
  PowerOfG <- MCPowerOfG
  KeyMasks <- MCKeyMasks
  KeyErrors <- MCKeyErrors
  SecretsN1 <- MCSecretsN1
  SecretsN2 <- MCSecretsN2
  Messages <- MCMessages
  MasksN1 <- MCMasksN1
  Errors <- MCErrors
  MasksN2 <- MCMasksN2
  SwitchErrors <- MCSwitchErrors
SPECIFICATION KeySpec
INVARIANTS
  SwitchedKeySelects
  SwitchCarries
  AnswerNoise
  Recovered
CHECK_DEADLOCK FALSE
