---------------------------- MODULE MCExtractor ----------------------------
(* Extractor with accepted settings and few calls and databases. *)
EXTENDS Extractor

CONSTANTS c1, c2, d1

TwoCalls == {c1, c2}
OneDatabase == {d1}

OneRow == [d \in Databases |-> 1]

FanOutAndInfo == {"ListTables", "GetServerInfo"}

Cfg == INSTANCE Config

Defaults ==
  {[mode |-> "verify-full", path |-> [f \in Cfg!CertFlags |-> "file"],
    logLevel |-> "info"]}
=============================================================================
