----------------------------- MODULE MCCollector -----------------------------
(***************************************************************************)
(* Model checking of Collector: an empty line, a nested value, a string    *)
(* with a bracket in it, a line that is not JSON and has a character of    *)
(* two bytes, and a malformed line that looks complete before its end.     *)
(***************************************************************************)
EXTENDS Collector

MCLines == { <<>>,
             <<"[", "[", "]", "]">>,
             <<"[", "quote", "]", "quote", "]">>,
             <<"lead", "cont">>,
             <<"[", "char", "]", "]">> }

\* The tails of the tests of collector.rs: those that are deferred until their
\* line goes on, and those that are kept although they are malformed.
DeferredTails ==
    { <<"{", "quote", "char", "quote", "colon", "{", "quote", "char", "quote",
        "colon", "number", "}">>,
      <<"[", "[", "number", "]">>,
      <<"{", "quote", "char", "quote", "colon", "[", "{", "quote", "char", "quote",
        "colon", "number", "}">>,
      <<"{", "quote", "char", "quote", "colon", "quote", "char", "escape", "quote",
        "blank", "char", "}">>,
      <<"number">>, <<"quote", "char", "quote">>, <<>> }
KeptTails ==
    { <<"blank", "{", "quote", "char", "quote", "colon", "{", "quote", "char", "quote",
        "colon", "[", "number", "]", "}", "comma", "quote", "char", "quote", "colon",
        "quote", "}", "blank", "]", "blank", "escape", "quote", "quote", "}", "blank">>,
      <<"[", "number", "]">>,
      <<"{", "quote", "char", "quote", "colon", "}">>,
      <<"blank", "{", "char", "}", "blank">>,
      <<"[", "number", "comma", "]">> }

ASSUME TailsAsTested ==
    /\ \A tail \in DeferredTails : ~ LooksComplete(tail)
    /\ \A tail \in KeptTails : LooksComplete(tail)
=============================================================================
