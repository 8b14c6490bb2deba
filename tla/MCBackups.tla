----------------------------- MODULE MCBackups -----------------------------
(* Backups with few names, repositories and backups. *)
EXTENDS Backups

CONSTANT b1

\* The longest name that is accepted, and names the pattern refuses: too long,
\* empty, not starting with a letter, with another character in it.
Main == [length |-> 63, first |-> "letter", rest |-> "plain"]
RefusedNames ==
  {[length |-> 64, first |-> "letter", rest |-> "plain"],
   [length |-> 0, first |-> "other", rest |-> "plain"],
   [length |-> 8, first |-> "other", rest |-> "plain"],
   [length |-> 8, first |-> "letter", rest |-> "other"]}
Other == [length |-> 1, first |-> "letter", rest |-> "plain"]

AllNames == {Main, Other} \cup RefusedNames

TwoKeys == {1, 2}
OneVersion == {"14"}
OneLabel == {b1}
=============================================================================
