---------------------------- MODULE MCAiService -----------------------------
(* Small instances of the whole service for TLC. *)
EXTENDS AiService

CONSTANTS u0, u1, u2, silence, talk, sales, support

OneWord == {talk}
TwoWords == {silence, talk}

Both == [enabled |-> {"bpm", "email"}, mailbox |-> sales]
BothMoved == [enabled |-> {"bpm", "email"}, mailbox |-> support]
OnlyBpm == [enabled |-> {"bpm"}, mailbox |-> sales]
OnlyEmail == [enabled |-> {"email"}, mailbox |-> sales]

FixedConfig == {Both}
ChangingConfig == {Both, OnlyBpm, OnlyEmail}
MovingMailbox == {Both, BothMoved}
EmailConfig == {OnlyEmail}

NoKeyId == [k \in {} |-> 0]
NoKeyUrl == [k \in {} |-> u1]

\* keys 1 and 2 become the jobs of the same number, which a client may post as well
ScanKeyId == [k \in Keys |-> IF k = 2 /\ 2 \in Ids THEN 2 ELSE 1]
ScanKeyUrl == [k \in Keys |-> u1]
=============================================================================
