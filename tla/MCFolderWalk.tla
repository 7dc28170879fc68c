---------------------------- MODULE MCFolderWalk ----------------------------
(* An instance of FolderWalk for TLC: the tree r(x(f, g), y(z(h)), o). *)
EXTENDS FolderWalk, TLC
CONSTANTS r, x, y, z, f, g, h, o

MCContents == [d \in {r, x, y, z} |->
    IF d = r THEN {x, y, o} ELSE IF d = x THEN {f, g}
    ELSE IF d = y THEN {z} ELSE {h}]
MCSize == [e \in {f, g, h} |-> IF e = f THEN 1 ELSE 2]
AnyOne == {{}, {r}, {x}, {y}, {z}}
=============================================================================
