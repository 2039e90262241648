----------------------------- MODULE MCGateway -----------------------------
(***************************************************************************)
(* Gateway for TLC: a protected route with two endpoints, limited per      *)
(* client and guarded by breakers, a plain one that only proxies, and two  *)
(* unlimited ones with breakers, with one endpoint and with two.           *)
(***************************************************************************)
EXTENDS Gateway, TLC

MCConfig ==
    "api"    :> [jwt |-> TRUE, apiKey |-> TRUE, limited |-> TRUE, perClient |-> TRUE,
                 breaker |-> TRUE, upstreams |-> <<"up1", "up2">>] @@
    "public" :> [jwt |-> FALSE, apiKey |-> FALSE, limited |-> FALSE, perClient |-> FALSE,
                 breaker |-> FALSE, upstreams |-> <<"up1">>] @@
    "single" :> [jwt |-> FALSE, apiKey |-> FALSE, limited |-> FALSE, perClient |-> FALSE,
                 breaker |-> TRUE, upstreams |-> <<"up1">>] @@
    "orders" :> [jwt |-> FALSE, apiKey |-> FALSE, limited |-> FALSE, perClient |-> FALSE,
                 breaker |-> TRUE, upstreams |-> <<"up1", "up2">>]

Request(route, jwt, apiKey) ==
    [route |-> route, jwt |-> jwt, apiKey |-> apiKey, user |-> NoID, keyID |-> NoID,
     forwarded |-> NoID, addr |-> "addr"]

\* A valid token, a valid API key, no credentials, no route.
MixedInputs ==
    {Request("api", "alice", NoID), Request("api", NoID, "key1"),
     Request("api", NoID, NoID), Request(NoRoute, NoID, NoID)}

\* Also the route without breakers, and one where all requests share a breaker.
AllInputs == MixedInputs \cup {Request("public", NoID, NoID), Request("single", NoID, NoID)}

\* Requests to the route with two endpoints and nothing but breakers.
OrderInputs == {Request("orders", NoID, NoID)}

RequestSymmetry == Permutations(Requests)
=============================================================================
