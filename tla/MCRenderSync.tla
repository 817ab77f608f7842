---------------------------- MODULE MCRenderSync ----------------------------
(* The render hand-over as it stands; the configurations choose the bound and *)
(* which of the two unordered pairs of events may meet.                       *)
EXTENDS RenderSync
=============================================================================
