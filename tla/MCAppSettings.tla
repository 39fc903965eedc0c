--------------------------- MODULE MCAppSettings ---------------------------
(* Two releases of one app on one host: the second asks for less.            *)
EXTENDS AppSettings

Release(required, optional) ==
    [needs |-> 1, required |-> required, optional |-> optional, perms |-> {"kvm", "gpu"},
     signed |-> TRUE, standalone |-> TRUE]

MCManifests == {Release({"kvm"}, {"gpu"}), Release({}, {"gpu"})}
MCOffers == {{"kvm", "gpu"}}
=============================================================================
