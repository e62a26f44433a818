----------------------------- MODULE MCApiServer -----------------------------
EXTENDS ApiServer

Keyed(body) == [route |-> "admin", caller |-> "c1", key |-> "k", body |-> body]
Plain(route) == [route |-> route, caller |-> "c1", key |-> NoKey, body |-> "b1"]

Keyless == [route |-> "admin", caller |-> Anonymous, key |-> NoKey, body |-> "b1"]

MCRequests == {Keyed("b1"), Keyed("b2"), Plain("admin"), Plain("register"), Keyless}
MCExisting == {<<"admin", "b1">>}
MCWatched == {<<"register", "c1">>}

MCWorkloads ==
    {[requests |-> {Keyed("b1"), Keyed("b2")}, keys |-> FALSE, organizations |-> FALSE, optional |-> FALSE],
     [requests |-> {Plain("admin")}, keys |-> TRUE, organizations |-> FALSE, optional |-> FALSE],
     [requests |-> {Keyless}, keys |-> FALSE, organizations |-> FALSE, optional |-> FALSE],
     [requests |-> {Plain("admin"), Keyless}, keys |-> FALSE, organizations |-> FALSE, optional |-> TRUE],
     [requests |-> {Plain("register")}, keys |-> FALSE, organizations |-> FALSE, optional |-> FALSE],
     [requests |-> {}, keys |-> FALSE, organizations |-> TRUE, optional |-> FALSE]}
=============================================================================
