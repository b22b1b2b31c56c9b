----------------------------- MODULE MCPipeline -----------------------------
\* Pipeline with both kinds of subscription.
EXTENDS Pipeline, TLC
=============================================================================
