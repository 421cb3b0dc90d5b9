-------------------------------- MODULE MCHttp --------------------------------
(* A small instance of Http for TLC. *)
EXTENDS Http

R(kind, head, http10, accepts, size, body) ==
    [kind |-> kind, head |-> head, http10 |-> http10, accepts |-> accepts, compressible |-> TRUE,
     size |-> size, body |-> body]
Get == R("get", 1, FALSE, FALSE, 2, -1)
Get10 == R("get", 2, TRUE, TRUE, 2, 1)
NoColon == R("noColon", 1, FALSE, FALSE, -1, -1)
BadLine == R("badLine", 1, FALSE, FALSE, -1, -1)
MCRequests == {Get, Get10, NoColon, BadLine}
MCScripts == {<<Get>>, <<Get, Get>>, <<Get10>>, <<NoColon>>, <<NoColon, Get>>, <<BadLine>>}
===============================================================================
