------------------------- MODULE MCEngineScheduler -------------------------
(* Configurations of EngineScheduler for TLC. *)
EXTENDS EngineScheduler, TLC

\* The deployed profile on a small scale, but for the padding of new decodes: async
\* scheduling with two steps in flight, decode-aware prefill, one long prefill per step.
Base ==
    [maxSeqs |-> 2, batchTokens |-> 4, modelLen |-> 8, maxTokens |-> 3, blocks |-> 4,
     blockSize |-> 2, spec |-> 1, padding |-> FALSE, decodeAware |-> TRUE,
     longThreshold |-> 2, decodeBudget |-> 2, idleBudget |-> 3, maxLong |-> 1,
     batches |-> 2, throttles |-> {FALSE}, prompts |-> {1, 3}, resumable |-> {FALSE},
     pauses |-> {"UNPAUSED", "PAUSED_NEW", "PAUSED_ALL"}, resets |-> TRUE, cached |-> {0},
     eos |-> {}, evicts |-> TRUE, requests |-> 2, chunks |-> 0, disturb |-> 1]

\* Stock vLLM scheduling: no prefill budget, uniform padding of new decodes,
\* throttled prefills, prefix-cache hits, answers that stop early.
Stock ==
    [Base EXCEPT !.padding = TRUE, !.decodeAware = FALSE, !.throttles = BOOLEAN,
                 !.cached = {0, 1}, !.eos = {1}]

\* Two resets or aborts of one request within the depth of the pipeline.
TwiceReset == [Base EXCEPT !.requests = 1, !.disturb = 2]

\* Streaming sessions beside long prefills, one step at a time, room for all.
Sessions ==
    [Base EXCEPT !.batches = 1, !.blocks = 12, !.resumable = BOOLEAN, !.resets = FALSE,
                 !.pauses = {"UNPAUSED"}, !.maxTokens = 1, !.modelLen = 12,
                 !.requests = 3, !.chunks = 1, !.disturb = 0]

\* The deployed combination: uniform padding under a prefill budget.
PaddedUnderBudget ==
    {[Base EXCEPT !.padding = TRUE, !.prompts = {1}, !.requests = 3, !.maxSeqs = 3,
                  !.blocks = 12, !.batchTokens = 8, !.decodeBudget = 3, !.disturb = 0]}

\* Sessions with steps in flight in a cache too small for two requests; no step is
\* scheduled past the last token of an answer.
PreemptedSession ==
    {[Base EXCEPT !.resumable = BOOLEAN, !.resets = FALSE, !.disturb = 0, !.evicts = FALSE,
                  !.spec = 0, !.decodeAware = FALSE, !.prompts = {1, 5}, !.maxTokens = 2,
                  !.modelLen = 6, !.blocks = 3]}

All == {Base, Stock, TwiceReset, Sessions}
=============================================================================
