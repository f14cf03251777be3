------------------------------ MODULE MCProxy ------------------------------
(* Instance of Proxy for TLC: a document with one operation, /user/{id},   *)
(* that lists 200 with a JSON schema and 404 without one.                  *)
EXTENDS Proxy

MCPaths == {"/user/{id}", "/user/1", "/ghost/1", "/ghost/2", "/ghost/{id}"}
MCStatuses == {"200", "404", "502"}
MCDocumented == [p \in MCPaths |-> IF p = "/user/{id}" THEN {"200", "404"} ELSE {}]
MCPromisesJSON == {<<"/user/{id}", "200">>}
MCNormalised ==
    [p \in MCPaths |-> IF p \in {"/ghost/1", "/ghost/2"} THEN "/ghost/{id}" ELSE p]
MCBodies == {"b1", "b2", "problem"}
MCDetails == {"age is a string", "nickname is not documented"}

OnUser(status, json, body, problems, extras) ==
    [path |-> "/user/1", route |-> "/user/{id}", status |-> status, json |-> json,
     body |-> body, problems |-> problems, extras |-> extras]
Ghost(path, body) ==
    [path |-> path, route |-> NoRoute, status |-> "200", json |-> TRUE, body |-> body,
     problems |-> << >>, extras |-> << >>]

Drifting == OnUser("200", TRUE, "b1", <<"age is a string">>, <<"nickname is not documented">>)

\* endpoints nobody documented, a body that drifts and one the document
\* promises nothing about
MCTraffic ==
    {Ghost("/ghost/1", "b1"), Ghost("/ghost/2", "b2"), Drifting,
     OnUser("404", TRUE, "b1", <<"age is a string">>, << >>)}
\* handlers are interchangeable: each starts with any exchange of the traffic
MCSymmetry == Permutations(Requests)
============================================================================
