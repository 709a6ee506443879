----------------------------- MODULE MCDataGate -----------------------------
EXTENDS DataGate

CONSTANTS note, padded, links, strict, lax

MCFiles == 1 .. 2
MCTexts == {note, padded, links}

\* The note with more white space: it is of the same form, long enough where the note is
\* too short, and has a smaller share of symbols.
MCForms == {note, links}
MCForm == [t \in MCTexts |-> IF t = links THEN links ELSE note]
MCConfigs == {strict, lax}
MCShort == [c \in MCConfigs |-> IF c = strict THEN {note} ELSE {}]
MCSymbols == [c \in MCConfigs |-> IF c = lax THEN {note} ELSE {}]
MCLinkLists == [c \in MCConfigs |-> IF c = strict THEN {links} ELSE {}]
=============================================================================
