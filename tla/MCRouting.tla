----------------------------- MODULE MCRouting -----------------------------
(***************************************************************************)
(* Routing for TLC: configurations of up to two routes, among them every   *)
(* way in which validate or server.New may refuse one.                     *)
(***************************************************************************)
EXTENDS Routing

Up(url, path) == [url |-> url, path |-> path, parses |-> TRUE]
Malformed == [url |-> "%", path |-> << >>, parses |-> FALSE]

Route(id, path, methods, hosts, upstreams) ==
    [id |-> id, path |-> path, methods |-> methods, hosts |-> hosts, upstreams |-> upstreams]

Three == <<Up("up1", << >>), Up("up2", <<"/", "b">>), Up("up3", <<"/", "b", "/">>)>>

SoundRoutes ==
    {Route("r1", <<"/", "a", "/", "*">>, {}, {}, Three),
     Route("r2", <<"/", "*">>, {"GET"}, {}, <<Up("up4", <<"/">>), Up("up5", <<"/", "/">>)>>),
     Route("r1", <<"/", "a">>, {}, {"host"}, <<Up("up6", << >>)>>),
     Route("r3", <<"/", "h">>, {}, {}, <<Up("up7", << >>)>>)}

FaultyRoutes ==
    {Route("", <<"/">>, {}, {}, <<Up("up1", << >>)>>),
     Route("r4", << >>, {}, {}, <<Up("up1", << >>)>>),
     Route("r4", <<"/", "*">>, {}, {}, << >>),
     Route("r4", <<"/", "*">>, {}, {}, <<Up("", << >>)>>),
     Route("r4", <<"/", "*">>, {}, {}, <<Up("up1", << >>), Malformed>>)}

RouteLists ==
    {<< >>} \cup {<<r, s>> : r, s \in SoundRoutes}
            \cup {<<r, f>> : r \in SoundRoutes, f \in FaultyRoutes}

MCConfigs ==
    [listen: {"addr"}, shutdownTimeout: {0, 30}, routes: RouteLists]
        \cup [listen: {""}, shutdownTimeout: {30}, routes: {<<r>> : r \in SoundRoutes}]

Paths ==
    {<<"/">>, <<"/", "a">>, <<"/", "a", "/">>, <<"/", "a", "/", "b">>, <<"/", "a", "b">>,
     <<"/", "h">>, <<"/", "/">>, <<"/", "%2F", "a">>, <<"/", "a", "%2F", "b">>}

MCRequests ==
    [method: {"GET", "POST"}, host: {"host", "other"}, path: Paths]
        \cup [method: {"CONNECT"}, host: {"host"}, path: {<<"/", "a">>, <<"/", "/", "a">>}]

MCHealthPath == <<"/", "h">>
=============================================================================
