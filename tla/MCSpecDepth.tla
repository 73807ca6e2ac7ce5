---------------------------- MODULE MCSpecDepth ----------------------------
(* Instances of SpecDepth for TLC. *)
EXTENDS SpecDepth, TLC

CONSTANTS r1, r2

Requests == {r1, r2}

\* A preset's flags with two sequences, the window cut from 32 to the smallest with
\* which probes can succeed behind two batches in flight.
Preset == [k |-> 5, depths |-> {2, 4, 5}, ok |-> TRUE, mode |-> "FULL", sizes |-> {6, 12},
           seqs |-> 2, byBatch |-> FALSE, window |-> 6, batches |-> 2, chunks |-> {1, 4},
           budget |-> 12, long |-> 0, rooms |-> {Far}, texts |-> {"easy", "hard"}]
Split == [Preset EXCEPT !.mode = "FULL_AND_PIECEWISE"]

\* Three drafts: the ladder is {2, 3} and the formula decides.  The variable cannot be
\* parsed, so the default applies.
Formula == [Split EXCEPT !.k = 3, !.depths = {}, !.ok = FALSE, !.sizes = {4, 8}]

\* Startups that are refused: an uncaptured shape, no FULL graphs, two schedules.
TooSmall == [Split EXCEPT !.sizes = {6}]
Refusals == {TooSmall, [Preset EXCEPT !.mode = "PIECEWISE"], [Preset EXCEPT !.mode = "NONE"],
             [Split EXCEPT !.byBatch = TRUE]}

\* One request whose drafts are accepted up to any position.
Mixed == [Split EXCEPT !.seqs = 1, !.sizes = {6}, !.texts = {"mixed", "easy"}]

\* A token budget below two full steps, so that one request is cut short or held
\* back, and a threshold that cuts every step of four drafts.
Tight == [Split EXCEPT !.budget = 7]
Threshold == [Split EXCEPT !.seqs = 1, !.sizes = {6}, !.long = 4]

\* Requests that join close to max_model_len, beside others or alone: the last steps
\* have fewer drafts.
NearEnd == [Split EXCEPT !.rooms = {Far, 4}, !.texts = {"easy"}]
NearEndFull == [Preset EXCEPT !.rooms = {4}, !.seqs = 1, !.sizes = {6}]

All == {Preset, Formula, Mixed, Tight, Threshold, NearEnd, NearEndFull} \cup Refusals
Ends == {NearEnd}
=============================================================================
