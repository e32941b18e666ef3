-------------------------- MODULE MCStreamProcessor --------------------------
(***************************************************************************)
(* StreamProcessor for TLC: texts are named here since a cfg cannot write  *)
(* sequences.                                                              *)
(***************************************************************************)
EXTENDS StreamProcessor

CONSTANTS c1, n1, n2

MCQueries == {<<"select">>, <<"dml">>, <<"begin">>, <<"commit">>, <<"rollbackTo">>,
              <<"copyFrom">>, <<"other">>, <<"resetAll">>, <<"ddl">>,
              <<"begin", "dml">>, <<"commit", "select">>}
MCPrepared == {<<"dml">>, <<"begin">>}
MCResetQueries == {<<"discardAll">>}
MCOversized == {<<"ddl">>}
MCNoTexts == {}
MCNoOverrides == <<>>
MCConfigs == {[mode |-> "custom", pooler |-> FALSE, extended |-> TRUE],
              [mode |-> "write_only", pooler |-> TRUE, extended |-> TRUE]}
=============================================================================
