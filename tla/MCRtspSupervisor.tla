-------------------------- MODULE MCRtspSupervisor --------------------------
(* Model checking of RtspSupervisor.                                        *)
EXTENDS RtspSupervisor
=============================================================================
