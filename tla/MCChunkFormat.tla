---------------------------- MODULE MCChunkFormat ----------------------------
(***************************************************************************)
(* Model checking of ChunkFormat: names and lines with a tab, a newline or *)
(* a carriage return in them, bytes with a digit that is 0 or a letter, an *)
(* identical line in another place, and lines of three lengths.            *)
(***************************************************************************)
EXTENDS ChunkFormat

MCRaw == {
    [provider |-> "codex",  path |-> <<9, 10>>, offset |-> 0, raw |-> <<123, 125>>],
    [provider |-> "codex",  path |-> <<9, 10>>, offset |-> 3, raw |-> <<123, 125>>],
    [provider |-> "claude", path |-> <<97>>,    offset |-> 3, raw |-> <<91, 9, 13, 93>>],
    [provider |-> "claude", path |-> <<97>>,    offset |-> 0, raw |-> <<111>>] }

\* The lines have 17, 17, 19 and 13 symbols: a limit below any of them, limits
\* at and beside the size of two, and one for all.
MCLimits == {1, 30, 31, 35, 49, 100}

MCSymmetry == Permutations(Secret)
=============================================================================
