--------------------------- MODULE MCEmailRouting ----------------------------
(* A small table for TLC: nested domains, nested company names, two names *)
(* of the same length, and domains whose second-level label holds them.    *)
EXTENDS EmailRouting

SmallDomains == {<<"beta", "ru">>, <<"es", "beta", "ru">>}
SmallNames == {<<"delta">>, <<"delta", "leasing">>, <<"omega">>}
SmallLetters == [c \in SmallNames |-> IF Len(c) = 1 THEN 5 ELSE 13]

SmallSeen == {<<"shop", "es", "beta", "ru">>, <<"beta", "ru">>, <<"delta-omega", "org">>}
SmallHeard == {<<"ip", "delta">>, <<"delta", "leasing">>, <<"leasing">>, <<"omega", "delta">>}

SmallLabel(label) == IF label = "delta-omega" THEN <<"delta", "omega">> ELSE <<label>>
=============================================================================
