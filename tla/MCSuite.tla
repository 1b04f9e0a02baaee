------------------------------ MODULE MCSuite ------------------------------
(* One invocation of the suite loop at a time, for TLC.                    *)
EXTENDS QaSuite, Invocations

ExternalOnly == {External}
GuestOnly == {Guest}
=============================================================================
