----------------------------- MODULE MCSession -----------------------------
(***************************************************************************)
(* Session for TLC: a paint and a console stream; besides arming, the tool *)
(* watches both streams, drives the UI thread, and makes a direct request. *)
(***************************************************************************)
EXTENDS Session

Watching == [observe |-> TRUE, streams |-> {"paint", "console"}, bridged |-> TRUE]
Acting == [observe |-> FALSE, streams |-> {}, bridged |-> TRUE]
Initializing == [observe |-> FALSE, streams |-> {}, bridged |-> FALSE]

MCKinds == {"paint", "console"}
MCCommands == {Watching, Acting, Initializing}
=============================================================================
