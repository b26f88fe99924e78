--------------------------- MODULE MCConnectedApps ---------------------------
(* Instances of ConnectedApps for TLC. *)
EXTENDS ConnectedApps

CONSTANTS claude, registered, anthropic, openai, atClaude, atChatGPT, elsewhere, g1, k1, k2

\* A client with a document on one vendor's host, and one that registers.
MCHostOf == [c \in Clients |-> IF c = claude THEN anthropic ELSE NoVendor]
MCVendorOf == [r \in Redirects |-> CASE r = atClaude -> anthropic [] r = atChatGPT -> openai
                                     [] OTHER -> NoVendor]
\* The addresses of either vendor, of both, and one nobody knows.
MCDocuments == {{atClaude}, {atChatGPT}, {atClaude, atChatGPT}, {elsewhere}}
=============================================================================
