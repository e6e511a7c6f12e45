---------------------------- MODULE MCAnalyzeRun ----------------------------
(* The assumptions about the ingestion are evaluated by the runs of this one. *)
EXTENDS AnalyzeRun, MCWriteback, MCPhaseRunner, MCFinalizeImports, MCScopeExtraction,
        MCMethodResolution

ForceOnly == [Plain EXCEPT !.force = TRUE]
EmbedOnly == [Plain EXCEPT !.embeddings = TRUE]
DropOnly == [Plain EXCEPT !.drop = TRUE]
FastOnly == [Plain EXCEPT !.fast = TRUE]
DropAndEmbed == [Plain EXCEPT !.embeddings = TRUE, !.drop = TRUE]

PlainOptions == {Plain}
RunOptions == {Plain, ForceOnly, EmbedOnly, DropAndEmbed, FastOnly}
NoFast == {Plain, ForceOnly, EmbedOnly, DropAndEmbed}
DropOptions == {Plain, EmbedOnly, DropOnly}
=============================================================================
