------------------------- MODULE MCAuthoritativeSync -------------------------
EXTENDS AuthoritativeSync

CONSTANTS t1, b1, s1

OneToken == {t1}
OneBuy == {b1}
OneSell == {s1}
OfOneToken == [l \in Legs |-> t1]
StartsWith6 == [t \in Tokens |-> 6]
StartsWith8 == [t \in Tokens |-> 8]
===============================================================================
