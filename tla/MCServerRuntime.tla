--------------------------- MODULE MCServerRuntime ---------------------------
(* The parts of a server, each in a configuration of its own.               *)
EXTENDS ServerRuntime

CONSTANTS k1, k2

MCConfigs == [parts : {{"admission"}, {"release"}}, tls : {FALSE}, starts : {2}]
        \cup [parts : {{"stats"}}, tls : BOOLEAN, starts : {2}]
        \cup [parts : {{"source"}}, tls : {FALSE}, starts : {0}]
MCLists == {{k1}, {k1, k2}}
=============================================================================
