--------------------------- MODULE MCProvisioning ---------------------------
(* Two people with one command each, two environments per project.          *)
EXTENDS Provisioning

CONSTANTS Ada, Bob

MCUsers == {Ada, Bob}
MCKeys == [u \in MCUsers |-> 1]
MCUser == [t \in MCUsers |-> t]
MCFounders == {Ada}
MCNewcomers == {Bob}
MCEnvironments == <<"dev", "prod">>
MCCloneOptions == {[org |-> TRUE, as |-> NoName], [org |-> FALSE, as |-> "prod"]}

=============================================================================
