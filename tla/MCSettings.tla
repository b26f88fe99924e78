------------------------------ MODULE MCSettings ------------------------------
(***************************************************************************)
(* Instances for TLC of MailboxConfig and Accounts, which share nothing:   *)
(* each is explored while the other is at its start.                       *)
(***************************************************************************)
EXTENDS MailboxConfig, Accounts, TLC

CONSTANTS gm, im, inbox, jobs, acme, home, general, family, t1, t2,
          root, ann, a1, a2, a3, p1, p2

\* A Gmail and an IMAP mailbox that share one folder name.
MCProviderOf == [b \in Boxes |-> IF b = gm THEN "gmail" ELSE "imap"]
MCNamesOf == [b \in Boxes |-> IF b = gm THEN {inbox, jobs} ELSE {inbox}]

\* Threads, and the addresses that log in, are interchangeable; and no permutation of the
\* values of one module changes the start of the other.
Symmetry ==
    Permutations(Threads)
    \cup {p @@ q : p \in Permutations(Pool), q \in Permutations(Addresses \ Counted)}

settings == <<mailVars, accountsVars>>

SettingsInit == MailInit /\ AccountsInit

SettingsNext ==
    \/ AccountsInit /\ MailNext /\ UNCHANGED accountsVars
    \/ MailInit /\ AccountsNext /\ UNCHANGED mailVars

SettingsSpec == SettingsInit /\ [][SettingsNext]_settings
=============================================================================
