------------------------- MODULE MCContainerMapper -------------------------
(* Two containers, of which any number may carry the label.                *)
EXTENDS ContainerMapper

MCWindows == {[after |-> 0, before |-> 0], [after |-> 1, before |-> 1],
              [after |-> 2, before |-> 0]}

MCNames == {"h", "v", "data", "tmp", "work", "etc", "f"}

Bind(source, destination) ==
    [type |-> "bind", source |-> {source}, destination |-> destination]
Tmpfs(destination) ==
    [type |-> "tmpfs", source |-> {}, destination |-> destination]

(* A tmpfs over part of a bind mount; a volume over part of a bind mount   *)
(* whose directory is mounted twice.                                       *)
MCMountsOf == <<
    {Bind(<<"h">>, <<"data">>), Tmpfs(<<"data", "tmp">>)},
    {Bind(<<"h">>, <<"data">>), Bind(<<"h">>, <<"work">>),
     [type |-> "volume", source |-> {<<"v">>}, destination |-> <<"data", "tmp">>]}>>

MCPaths == {<<"data">>, <<"data", "tmp">>, <<"data", "tmp", "f">>,
            <<"work", "f">>, <<"etc">>}

MCHostPaths == {<<"h", "f">>, <<"h", "tmp", "f">>, <<"v">>}
=============================================================================
