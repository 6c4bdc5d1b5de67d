-------------------------- MODULE MCAuthentication --------------------------
(* A server that announces any of the mechanisms, or that of guests.        *)
EXTENDS Authentication

MCOffers == {{}, {"other"}, {"PLAIN"}, {"SCRAM-SHA-1", "DIGEST-MD5"}, {"DIGEST-MD5", "PLAIN", "ANONYMOUS"}}
=============================================================================
