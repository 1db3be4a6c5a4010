--------------------------- MODULE MCCaptureAreas ---------------------------
EXTENDS CaptureAreas
CONSTANTS a, b, c1, c2, p1, p2, t1

\* p1 lies near c2, and p2 near the token.
MCGroupOrder == <<a, b>>
MCLimits == {0, 1, 2}
MCNear == {<<s, s>> : s \in Spots}
            \cup {<<c2, p1>>, <<p1, c2>>, <<t1, p2>>}
=============================================================================
