--------------------------- MODULE MCFuseHandlers ----------------------------
EXTENDS FuseHandlers
MCRoot == << >>
MCPaths == {<< >>, <<"a">>, <<"b">>, <<"a", "c">>, <<"b", "c">>}
File1 == [type |-> "file", mode |-> 1, data |-> 1]
Link2 == [type |-> "link", mode |-> 1, data |-> 2]
ADir == [type |-> "dir", mode |-> 1, data |-> 0]
RootDir == Key(<< >>, TRUE)
Start1 == (RootDir :> ADir) @@ (Key(<<"a">>, TRUE) :> ADir) @@ (Key(<<"a", "c">>, FALSE) :> File1)
          @@ (Key(<<"b">>, FALSE) :> Link2)
Start2 == (RootDir :> ADir) @@ (Key(<<"a", "c">>, FALSE) :> File1)
          @@ (Key(<<"b">>, TRUE) :> ADir)
(* A directory with a file, which may have been created just now, and a link; a directory *)
(* that has no object, and one that has.                                                   *)
MCBuckets ==
    {[objects |-> Start1, handles |-> {}], [objects |-> Start2, handles |-> {}],
     [objects |-> Start1, handles |-> {[path |-> <<"a", "c">>, mode |-> 1, data |-> 1, new |-> TRUE]}]}
MCFsOptions == [nocopy : BOOLEAN, update_parent : BOOLEAN]
MCOptions == {[size |-> 20, expires |-> FALSE, interval |-> FALSE, negative |-> TRUE]}
=============================================================================
