---------------------------- MODULE MCMusaSync ----------------------------
(* Two upstream changes and two MUSA commits on three spots in two files.   *)
EXTENDS MusaSync

MCFileOf == [s \in Spots |-> IF s = 1 THEN "f" ELSE "g"]

Edit(s, text) == [x \in {s} |-> [pre |-> 0, post |-> text]]

MCPatchOf == [c \in Changes |-> Edit(c, c)]

MCMusaEdits == {{3}, {1, 3}}

Event(kind, of) == [kind |-> kind, of |-> of]

MCHistories == {<<Event("itself", 1), Event("silent", 1)>>, <<Event("pr", 1), Event("told", 1)>>}
=============================================================================
