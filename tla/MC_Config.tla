----------------------------- MODULE MC_Config -----------------------------
EXTENDS Config

CONSTANTS s1, s2, v1, v2, c1, c2

MC_Values == {s1, s2, v1, v2}
MC_Conns == {c1, c2}

S(sec) == SecItem(sec)
V(var, arg) == VarItem(var, arg)

\* two servers
F1 == <<S("SERVER"), V("Name", s1), S("SERVER"), V("Name", s2)>>

\* a server section left open across an [Operator] section, a second Mask,
\* an [Operator] section too many
F2 == <<S("SERVER"), V("Name", s1), S("OPERATOR"), V("Name", v1),
        V("Password", v2), V("Mask", v1), V("Mask", v2), S("OPERATOR"),
        S("SERVER"), V("Host", v1), V("Name", s2)>>

\* a section with no name, a name given twice, a channel, an unknown
\* section, and a second section for s1
F3 == <<S("SERVER"), S("SERVER"), V("Name", s2), V("Name", s1),
        S("CHANNEL"), V("Name", v1), V("Topic", v2),
        S("OTHER"), V("Name", s2), S("SERVER"), V("Name", s1)>>

\* a variable outside any section, [Global], then one server
F4 == <<V("Name", s1), S("GLOBAL"), V("Name", v1), S("SERVER"), V("Name", s2)>>

\* four servers for three entries
F5 == <<S("SERVER"), V("Name", s1), S("SERVER"), V("Name", s2),
        S("SERVER"), V("Name", v1), S("SERVER"), V("Name", v2)>>

MC_Files == {F1, F2, F3, F4, F5}

\* two [Operator] sections for one entry
F6 == <<S("OPERATOR"), V("Name", v1), V("Password", v1), V("Mask", v1),
        S("OPERATOR"), V("Name", v2), V("Password", v2)>>

MC_OverflowFiles == {F1, F6}
=============================================================================
