----------------------------- MODULE Connection -----------------------------
(***************************************************************************)
(* What a user and an assistant may rely on once they are connected, with  *)
(* no word of rows, requests or commits                                    *)
(* (services/tracker-api/app/oauth.py, models.py:408-443): a consent makes *)
(* one connection; the client holds one pair of tokens at a time, all of   *)
(* it good or none; a pair that was superseded never comes back; and what  *)
(* is over stays over.                                                     *)
(***************************************************************************)
EXTENDS Naturals

CONSTANTS
    Consents,
    Links,        \* connections
    Numbers,      \* of the pairs, in the order they are issued
    NoConsent,
    NoLink

VARIABLES
    bought,       \* the consent each connection came from
    under,        \* the connection of each pair the client was handed
    good,         \* the tokens the client was handed and a request would accept
    over,         \* the connections that ended
    refused       \* the consents that came again

linkVars == <<bought, under, good, over, refused>>

Tokens(q) == {q} \X {"access", "refresh"}
Holds(g, q) == under[q] = g /\ \E t \in Tokens(q) : t \in good

LinkInit ==
    /\ bought = [g \in Links |-> NoConsent]
    /\ under = [q \in Numbers |-> NoLink]
    /\ good = {}
    /\ over = {}
    /\ refused = {}

Redeem(c, g) ==
    /\ bought[g] = NoConsent /\ \A h \in Links : bought[h] # c
    /\ bought' = [bought EXCEPT ![g] = c]
    /\ UNCHANGED <<under, good, over, refused>>

\* The client is handed a newer pair, and has given up the one before.
Hand(g, q) ==
    /\ bought[g] # NoConsent
    /\ \A r \in Numbers : under[r] = g => r < q
    /\ under[q] = NoLink /\ \A r \in Numbers : ~Holds(g, r)
    /\ under' = [under EXCEPT ![q] = g]
    /\ good' = IF g \in over THEN good ELSE good \cup Tokens(q)
    /\ UNCHANGED <<bought, over, refused>>

\* A pair is exchanged for a newer one, which the client has not seen yet.
Supersede(q) ==
    /\ good' = good \ Tokens(q)
    /\ UNCHANGED <<bought, under, over, refused>>

\* Some connections end, with all that the client holds; so do those whose consents
\* came again.
End(G, C) ==
    /\ over' = over \cup G
    /\ good' = {t \in good : under[t[1]] \notin G}
    /\ \A c \in C : \E g \in over' : bought[g] = c
    /\ refused' = refused \cup C
    /\ UNCHANGED <<bought, under>>

LinkNext ==
    \/ \E g \in Links : \/ \E c \in Consents : Redeem(c, g)
                        \/ \E q \in Numbers : Hand(g, q)
    \/ \E q \in Numbers : Supersede(q)
    \/ \E G \in SUBSET Links, C \in SUBSET Consents : End(G, C)

LinkSpec == LinkInit /\ [][LinkNext]_linkVars

-----------------------------------------------------------------------------
\* The promise: a consent makes one connection.
OneLinkEach ==
    \A g, h \in Links : bought[g] # NoConsent /\ bought[g] = bought[h] => g = h

\* The client's latest pair is the only one that may be good, and it is whole.
OnlyTheLatest ==
    \A q \in Numbers : \A t \in Tokens(q) : t \in good =>
        /\ Tokens(q) \subseteq good
        /\ \A r \in Numbers : under[r] = under[q] => r <= q

\* Nothing is good of what is over, nor of what a refused consent made.
OverIsOver ==
    /\ \A g \in Links : bought[g] \in refused => g \in over
    /\ \A q \in Numbers : under[q] \in over => Tokens(q) \cap good = {}
=============================================================================
