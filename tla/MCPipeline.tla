----------------------------- MODULE MCPipeline -----------------------------
EXTENDS PipelineProps, TLC

CONSTANT e1

MCExecs == {e1}

\* What TimelineIsTrue reads.
TimelineStages == {RUNBOOK, NOTIFY}

=============================================================================
