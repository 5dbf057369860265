--------------------------- MODULE MCFaultyStore ----------------------------
(* Small instances of the service over a locked database, for TLC. *)
EXTENDS FaultyStore, TLC

CONSTANTS url, silence, talk, sales

OneWord == {talk}
TwoWords == {silence, talk}

\* no definition tells one transcript from another
SameWords == Permutations(TwoWords)

OnlyEmail == {[enabled |-> {"email"}, mailbox |-> sales]}
Both == {[enabled |-> Channels, mailbox |-> sales]}

\* the keys become the jobs of the same number, which a client may post as well
SameId == [k \in Keys |-> k]
SameUrl == [k \in Keys |-> url]
=============================================================================
