------------------------------- MODULE MCMqtt -------------------------------
(* Two plugins; one of its keys collides with the other plugin's.            *)
EXTENDS MqttPublisher

OwnerOf == [k \in Keys |-> IF k = "acme.a_b" THEN "acme" ELSE "acme_a"]
ReportsOf == [k \in Keys |-> IF k = "acme.a_b" THEN {1} ELSE Values]
IdOf == [k \in Keys |-> "ngu_acme_a_b"]

=============================================================================
