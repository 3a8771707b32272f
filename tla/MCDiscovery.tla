---------------------------- MODULE MCDiscovery -----------------------------
(* A small instance of Discovery: the default interval and join timeout,   *)
(* and messages that fail parse_beacon at its different checks.            *)
EXTENDS Discovery

MCServer == <<"192.168.1.10", 8888>>
MCAddresses == {"192.168.1.10"}
MCForeignMessages ==
    {<<"HELLO">>, <<"FOTA_BEACON", "192.168.1.10">>, <<"FOTA_BEACON", "192.168.1.10", 0>>,
     <<"FOTA_BEACON", "manager", 8888>>}
=============================================================================
