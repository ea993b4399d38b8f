------------------------------ MODULE MCPoller ------------------------------
(* Instances of Poller for TLC.                                            *)
EXTENDS Poller

\* A directory, a file in it, a free name for the directory, a file and a free path
\* beside it, a directory that the ignore patterns match (not what is in it) with
\* room for a file of the same name, and a name in the conflict namespace.
MCPaths    == {"d", "d/f", "e", "e/f", "g", "h", "x", "x/g", "c"}
MCDirs     == {"d", "e", "x"}
MCParentOf == [p \in MCPaths |-> CASE p = "d/f" -> "d" [] p = "e/f" -> "e" [] p = "x/g" -> "x"
                                   [] OTHER -> None]
MCNameOf   == [p \in MCPaths |-> CASE p \in {"d/f", "e/f"} -> "f" [] p = "x/g" -> "g"
                                   [] OTHER -> p]
MCAbove    == [p \in MCPaths |-> {MCParentOf[p]} \ {None}]
MCRebase   == [p \in MCPaths |-> [s \in MCDirs |-> [t \in MCDirs |->
                IF MCParentOf[p] = s /\ \E q \in MCPaths : MCParentOf[q] = t /\ MCNameOf[q] = MCNameOf[p]
                THEN CHOOSE q \in MCPaths : MCParentOf[q] = t /\ MCNameOf[q] = MCNameOf[p]
                ELSE None]]]
MCConflict == {"c"}
MCIgnored  == {"x"}
MCItems    == {"i1", "i2", "i3", "i4", "i5"}
MCHome     == [i \in MCItems |-> CASE i = "i1" -> "d" [] i = "i2" -> "d/f" [] i = "i3" -> "g"
                                   [] i = "i4" -> "x"
                                   [] OTHER -> None]
MCInode    == [i \in MCItems |-> CASE i = "i1" -> 1 [] i = "i2" -> 2 [] i = "i3" -> 3
                                   [] i = "i4" -> 4
                                   [] OTHER -> 0]
=============================================================================
