---------------------------- MODULE MCUtilities ----------------------------
(* Small instances of Utilities for TLC. *)
EXTENDS Utilities

\* PUT is handled as POST, and the default client as the one with a proxy. Both
\* may be called with every pattern, a POST also with a stream; a call of a
\* method that is not known ends before its body is used.
MixedCalls ==
    [method : {"GET", "POST"}, body : {"none"}, pattern : {"plain", "percent", "broken"},
     useProxy : {FALSE}]
        \union [method : {"POST"}, body : {"stream"}, pattern : {"plain", "percent", "broken"},
                useProxy : {FALSE}]
        \union [method : {"GET"}, body : {"none"}, pattern : {"plain"}, useProxy : {TRUE}]
        \union [method : {"other"}, body : {"stream"}, pattern : {"plain"}, useProxy : {FALSE}]
=============================================================================
