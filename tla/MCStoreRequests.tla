---------------------------- MODULE MCStoreRequests ----------------------------
(* Names and scopes of the instances, after the examples of protocol.dox.  *)
EXTENDS StoreRequests

OneKey == {<<"examples", "foo">>}

\* Names are asked for by their namespace, or by the beginning of it.
Beginnings == {<<"exam", "examples">>}

\* Every level of one branch, a second network, and one name too many.
Arrays == { <<>>, <<"oftc">>, <<"q">>, <<"oftc", "#dazeus">>,
            <<"oftc", "#dazeus", "Sjors">>, <<"oftc", "#dazeus", "Sjors", "x">> }
=============================================================================
