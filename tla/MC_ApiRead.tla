----------------------------- MODULE MC_ApiRead -----------------------------
\* The API's readers against the one-worker block gossip model of
\* MC_BlockSync: the same peer blocks and announcements.
EXTENDS ApiRead, MC_BlockSync
=============================================================================
