----------------------------- MODULE MCPageTable -----------------------------
EXTENDS PageTable

Area(vpn, pagen, populate) == [vpn |-> vpn, pagen |-> pagen, populate |-> populate]

\* Three levels of two entries.  The second area has room for pages of every
\* level, the others for one or two, not always on a boundary.
MCAreas == {Area(0, 1, FALSE), Area(4, 4, FALSE), Area(5, 3, TRUE), Area(6, 2, FALSE),
            Area(7, 1, FALSE)}

\* A block for a page of any level, and single frames.
MCFrame == {4, 5, 6, 7, 9, 11}

\* Memory is handed out from both ends.
MCGiven(S) == {f \in S : (\A g \in S : f <= g) \/ (\A g \in S : g <= f)}

\* Memory in single frames.
MCSingleFrame == {1, 3, 5, 7, 9, 11, 13, 15}
=============================================================================
