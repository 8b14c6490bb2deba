\* The SSL mode of the flag against the mode pgx connects with.
CONSTANTS
  c1 = c1
  c2 = c2
  Calls <- TwoCalls
  Chosen <- ModeConfigs
SPECIFICATION Spec
INVARIANT SSLModeUsed
