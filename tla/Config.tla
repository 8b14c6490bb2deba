------------------------------- MODULE Config -------------------------------
(***************************************************************************)
(* The extractor's settings (internal/extractor/config.go): what NewConfig *)
(* reads from the flags, which SSL settings and log levels are accepted,   *)
(* and which SSL parameters the connection strings carry.  A path is       *)
(* represented by what os.Stat finds there.                                *)
(***************************************************************************)

VerifyModes == {"verify-ca", "verify-full"}

\* The modes PostgreSQL knows; the flag accepts any text.
SSLModes == {"disable", "allow", "prefer", "require"} \cup VerifyModes

CertFlags == {"sslcert", "sslkey", "sslrootcert"}

\* An empty flag, no such file, a file os.Stat cannot reach, a file.
PathStates == {"empty", "missing", "denied", "file"}

\* strings.ToLower on the spellings of the flag log-level considered here.
ToLower(level) == IF level = "INFO" THEN "info" ELSE level

LogLevels == {"info", "INFO", "warn", "verbose"}

\* The fields of Config that its functions look at.
Configs ==
  [mode : SSLModes, path : [CertFlags -> PathStates], logLevel : LogLevels]

LogLevelOK(config) ==
  ToLower(config.logLevel) \in {"debug", "info", "warn", "error"}

\* isValidSSLSettings returns nil: certificates are looked at in the verify
\* modes only, where none may be empty or out of reach.
isValidSSLSettings(config) ==
  config.mode \in VerifyModes =>
    \A f \in CertFlags : config.path[f] = "file"

\* Mutation: verify-ca is not among the modes that are passed on.
ConnStrForDbFullOnly(config) ==
  [sslmode |-> IF config.mode \in {"disable", "verify-full"} THEN config.mode
               ELSE "unset",
   certs   |-> config.mode = "verify-full"]

\* The SSL parameters of ConnStrForDb, and so of ConnStr.
ConnStrForDb(config) ==
  [sslmode |-> IF config.mode \in {"disable"} \cup VerifyModes THEN config.mode
               ELSE "unset",
   certs   |-> config.mode \in VerifyModes]

\* How pgx connects: without sslmode it prefers TLS and falls back to plain.
EffectiveMode(connStr) ==
  IF connStr.sslmode = "unset" THEN "prefer" ELSE connStr.sslmode
=============================================================================
