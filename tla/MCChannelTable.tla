--------------------------- MODULE MCChannelTable ---------------------------
(* The instances of ChannelTable for TLC.                                  *)
EXTENDS ChannelTable
=============================================================================
