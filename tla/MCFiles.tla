------------------------------ MODULE MCFiles ------------------------------
(* FileTransfers on small instances. *)
EXTENDS FileTransfers, TLC

AllRights == {"inspect", "list", "read", "create", "write", "delete", "rename", "execute"}
MCInitial == [root |-> << >>, rights |-> AllRights]
\* The handle interface is used with /home's capability and with the inspection one.
MCCapabilities == {[root |-> HomeRoot, rights |-> AllRights],
                   [root |-> << >>, rights |-> {"inspect", "list", "read"}]}
MCPaths == {<< >>, <<"home">>, <<"rom", "a">>, <<"home", "a">>, <<"home", "b">>,
            <<"home", "a", "b">>}
\* With one more path a directory can be moved below another one.
MCDeepPaths == MCPaths \cup {<<"home", "b", "a">>}
\* What programs write is one byte at a time; the ROM has a longer file to install.
MCRom == (<<"rom", "a">> :> FileNode(<<1, 0>>, 0, TRUE))
MCContents == {<<1>>}
MCSources == {<<"home", "b">>}
=============================================================================
