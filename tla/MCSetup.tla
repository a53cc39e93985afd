------------------------------ MODULE MCSetup ------------------------------
(* Three of the six files: the service, the tray and the provider. *)
EXTENDS Setup

Installed == <<"service", "tray", "provider">>
Upgraded == <<"service", "tray">>
Repaired == <<"service", "provider">>
Open == {"tray"}

=============================================================================
