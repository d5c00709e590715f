----------------------------- MODULE MCOutputEnd -----------------------------
EXTENDS OutputEnd
\* Two of them end at one character.
MCStops == <<<<"a", "a", "a">>, <<">", "a">>, <<"a", ">", "a">>>>
=============================================================================
