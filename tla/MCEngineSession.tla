-------------------------- MODULE MCEngineSession --------------------------
(* EngineSession in units of about ten seconds: a stamp that was not        *)
(* renewed since the last tick is stale, a transport has two ticks to       *)
(* negotiate and a window of resumes lasts two.                             *)
EXTENDS EngineSession

MCStaleLimit == 0
MCNegotiationLimit == 1
MCResumeWindow == 1
=============================================================================
