------------------------------ MODULE MCEvent -------------------------------
(* Two handlers for global events, of which one belongs to a script and one is *)
(* called in every simulation state.                                           *)
EXTENDS Event

CONSTANTS g1, g2

MCHandlers == {g1, g2}
MCKey == [h \in Handlers |-> "global"]
MCScript == {g1}
MCAlwaysOn == {g2}
=============================================================================
