------------------------------ MODULE MCNetcfg ------------------------------
(***************************************************************************)
(* Model-checking instances of Netcfg: the images and networks to explore. *)
(***************************************************************************)
EXTENDS Netcfg

\* Every client and every kind of advertisement.
MixedNetworks ==
    {<<"absent", "none">>, <<"absent", "slaac">>, <<"absent", "stateful">>,
     <<"dhclient", "stateful">>, <<"dhcp6c", "stateless">>,
     <<"dhcp6c", "stateful">>}

StatefulNetworks == {<<"dhcp6c", "stateful">>}
=============================================================================
