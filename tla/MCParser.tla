------------------------------- MODULE MCParser -------------------------------
(* Parser on all texts of a few tokens.                                        *)
EXTENDS Parser

\* Every operator.
AllSigns == {"nl", "|", "&&", "||", "(", ")", "<", ">", ">>", "<<"}

\* Enough of them for several here-documents, pipelines, lines and errors.
HereSigns == {"nl", "|", "<<"}
=============================================================================
