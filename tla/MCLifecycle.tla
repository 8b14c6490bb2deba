---------------------------- MODULE MCLifecycle ----------------------------
(* Lifecycle with two calls, for all configurations and for a few. *)
EXTENDS Lifecycle

CONSTANTS c1, c2

TwoCalls == {c1, c2}

AllConfigs == Configs

Defaults ==
  [mode |-> "verify-full", path |-> [f \in CertFlags |-> "file"],
   logLevel |-> "info"]

\* A mode of each kind: no TLS, TLS without and with verification.
ModeConfigs == {[Defaults EXCEPT !.mode = m] : m \in {"disable", "require", "verify-full"}}
=============================================================================
