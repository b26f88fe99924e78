---------------------------- MODULE MCOAuthTokens ----------------------------
(* Instances of OAuthTokens for TLC. *)
EXTENDS OAuthTokens

CONSTANTS c1, c2, p1, p2, alice_claude

\* Both consents are Alice's, to the same client.
OneParty == [c \in Codes |-> alice_claude]
=============================================================================
