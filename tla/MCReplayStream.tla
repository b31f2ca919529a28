--------------------------- MODULE MCReplayStream ---------------------------
(* ReplayStream with the sets TLC needs.                                   *)
EXTENDS ReplayStream

MCConnect == {"ok", "ssl", "refused"}
MCOneConnect == {"ok", "refused"}
MCSure == {"ok"}
MCResults == {"ok", "error"}
MCAllResults == {"ok", "error", "dup"}
MCQueries == {"Query", "Eof"}
MCLarge == {"Query", "BigQuery", "BigCont", "Cont"}
MCDirect == {"Query", "Reply", "Eof"}
=============================================================================
