---- MODULE MCSessions ----
\* Values for the constants of Sessions that a cfg cannot write down.
EXTENDS Sessions, TLC

\* All spellings are of one name ...
MCNormal == [s \in Spellings |-> "ann"]

\* ... and all labels share a prefix.
MCPrefixOf == [l \in Labels |-> "bot"]

MCSymmetry == Permutations(Requests) \cup Permutations(Spellings) \cup Permutations(Passwords \ Short)
====
