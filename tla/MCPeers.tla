-------------------------------- MODULE MCPeers --------------------------------
(* Instances of Peers for TLC.                                             *)
EXTENDS Peers

\* Every client with every server it is meant for.
AllPairs == (EchoClients \X EchoServers) \cup (LoadClients \X {"frames"})
            \cup ((Writers \cup {"connect_to_end"}) \X {"sink", "accpet_new_connection"})
            \cup (Readers \X {"source", "accpet_new_connection"})
            \cup {<<"dns_connect_to_end", "resolver">>}

\* One pair for each promise of a comment.
SyncServerPair == {<<"CoroutineTestClient", "SyncServer">>}
JsonPair == {<<"json_client", "frames">>}
=============================================================================
