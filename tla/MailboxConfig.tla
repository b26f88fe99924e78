---------------------------- MODULE MailboxConfig ----------------------------
(***************************************************************************)
(* How a user connects a mailbox and a Slack workspace, and what of it the *)
(* hosted mail agent is given:                                             *)
(*                                                                         *)
(*   services/tracker-api/app/routers/agent.py  /agent/email-credentials,  *)
(*                                              /agent/oauth, /agent/slack,*)
(*                                              /agent/cloud, /agent/config*)
(*   services/tracker-api/app/models.py         EmailCredential and        *)
(*                                              SlackConnection            *)
(*   services/tracker-api/app/feature_flags.py  the switch for everybody   *)
(*                                                                         *)
(* One user: the rows are per user and nothing else is shared.  A handler  *)
(* loads the row, talks to Google, Slack or a mail server for as long as   *)
(* the timeouts allow, and writes the columns it set to something else     *)
(* than it had loaded: a Begin and an End.  The five folder columns are    *)
(* two here, and the folders a mailbox has do not change.                  *)
(***************************************************************************)
EXTENDS Naturals, FiniteSets

CONSTANTS
    Boxes,       \* mailboxes the user has
    ProviderOf,  \* gmail or imap
    Names,       \* names of folders and labels
    NamesOf,     \* those each mailbox has
    Workspaces,  \* Slack workspaces
    Channels,
    Threads,     \* requests in progress
    MaxActs,     \* bound: requests
    Nothing

Columns == {"root", "postings"}
Providers == {"gmail", "imap"}

ASSUME BoxAssumption == ProviderOf \in [Boxes -> Providers] /\ NamesOf \in [Boxes -> SUBSET Names]
ASSUME BoundAssumption == MaxActs \in Nat
ASSUME NothingAssumption == Nothing \notin Boxes \cup Names \cup Channels

VARIABLES
    cred,     \* the user's email_credentials row
    slack,    \* the user's slack_connections row
    flag,     \* email_agent_enabled
    thread,   \* what each request is in the middle of
    run,      \* the configuration the agent works with
    acts,
    checked,  \* history: the connected mailboxes in which a whole layout was found
    chosen,   \* history: the Slack connections a channel was chosen for
    touched   \* history: the connected mailboxes that were connected again, or saved by
              \* a request that had loaded something else than was there by then

past == <<checked, chosen, touched>>
mailVars == <<cred, slack, flag, thread, run, acts, past>>

AtRest == [at |-> "idle"]
Folders == [Columns -> Names \cup {Nothing}]
Nowhere == [c \in Columns |-> Nothing]

Cred == [id : 1..MaxActs, provider : Providers, box : Boxes, folders : Folders, enabled : BOOLEAN]
Slack == [id : 1..MaxActs, team : Workspaces, channel : Channels \cup {Nothing}]
Config == [provider : Providers, box : Boxes, folders : Folders,
           team : Workspaces \cup {Nothing}, channel : Channels \cup {Nothing}]
Work == {AtRest}
        \cup [at : {"put"}, seen : Cred, folders : Folders, enabled : BOOLEAN]
        \cup [at : {"connect"}, seen : Cred \cup {Nothing}, box : Boxes,
              folders : Folders \cup {Nothing}]
        \cup [at : {"disconnect", "uninstall"}, id : 1..MaxActs]
        \cup [at : {"install"}, seen : Slack \cup {Nothing}, team : Workspaces]
        \cup [at : {"channel"}, seen : Slack, channel : Channels]

MailTypeOK ==
    /\ cred \in Cred \cup {Nothing}
    /\ slack \in Slack \cup {Nothing}
    /\ flag \in BOOLEAN
    /\ thread \in [Threads -> Work]
    /\ run \in Config \cup {Nothing}
    /\ acts \in 0..MaxActs
    /\ checked \subseteq 1..MaxActs /\ chosen \subseteq 1..MaxActs
    /\ touched \subseteq 1..MaxActs

MailInit ==
    /\ cred = Nothing
    /\ slack = Nothing
    /\ flag = FALSE
    /\ thread = [t \in Threads |-> AtRest]
    /\ run = Nothing
    /\ acts = 0
    /\ checked = {} /\ chosen = {} /\ touched = {}

-----------------------------------------------------------------------------
\* A request that goes on; its number also names the row it may insert.
Begin(t, work) ==
    /\ acts < MaxActs /\ acts' = acts + 1
    /\ thread[t] = AtRest
    /\ thread' = [thread EXCEPT ![t] = work]
    /\ UNCHANGED <<cred, slack, flag, run, touched>>

Finish(t) == thread' = [thread EXCEPT ![t] = AtRest] /\ UNCHANGED <<flag, run, acts>>

\* The UPDATE of a row: the columns set to another value than was loaded.
Column(there, seen, value) == IF value # seen THEN value ELSE there

\* Are all folders named, and there? _verify_gmail_labels and _verify_imap ask the
\* mailbox whose credentials were loaded; credentials of the other kind fail.
Named(folders) == \A c \in Columns : folders[c] # Nothing
Verified(seen, folders) ==
    /\ ProviderOf[seen.box] = seen.provider
    /\ \A c \in Columns : folders[c] \in NamesOf[seen.box]

-----------------------------------------------------------------------------
(* The mailbox                                                              *)

\* update_email_credentials: a layout is saved as it is while the agent is off.
PutBegin(t, folders, enabled) ==
    /\ cred # Nothing
    /\ enabled => Named(folders) /\ Verified(cred, folders)
    /\ Begin(t, [at |-> "put", seen |-> cred, folders |-> folders, enabled |-> enabled])
    /\ checked' = IF enabled THEN checked \cup {cred.id} ELSE checked
    /\ UNCHANGED chosen

\* What a save makes of the row
Saved(row, w) ==
    [row EXCEPT !.folders = [c \in Columns |-> Column(@[c], w.seen.folders[c], w.folders[c])],
                !.enabled = Column(@, w.seen.enabled, w.enabled)]

\* The connection with this id is written over a row that is not the one loaded.
Touch(id, seen, row) == touched' = IF row # seen THEN touched \cup {id} ELSE touched

\* Mutant of PutEnd: the row of this user is saved, not the one that was loaded.
PutEndAnyRow(t) ==
    LET w == thread[t] IN
    /\ w.at = "put"
    /\ Finish(t)
    /\ IF cred = Nothing
        THEN UNCHANGED <<cred, touched>>
        ELSE cred' = Saved(cred, w) /\ Touch(cred.id, w.seen, cred)
    /\ UNCHANGED <<slack, checked, chosen>>

\* A row deleted since fails the save.
PutEnd(t) ==
    LET w == thread[t] IN
    /\ w.at = "put"
    /\ Finish(t)
    /\ IF cred = Nothing \/ cred.id # w.seen.id
        THEN UNCHANGED <<cred, touched>>
        ELSE cred' = Saved(cred, w) /\ Touch(cred.id, w.seen, cred)
    /\ UNCHANGED <<slack, checked, chosen>>

\* gmail_oauth_callback, once Google has exchanged the code, and set_imap_credentials,
\* once the server has taken the login; this one may bring folders along.
ConnectBegin(t, box, folders) ==
    /\ ProviderOf[box] = "gmail" => folders = Nothing
    /\ Begin(t, [at |-> "connect", seen |-> cred, box |-> box, folders |-> folders])
    /\ UNCHANGED <<checked, chosen>>

\* The row is inserted, disabled, or its provider, credentials and folders change.
ConnectEnd(t) ==
    LET w == thread[t]
        new == [id |-> acts, provider |-> ProviderOf[w.box], box |-> w.box, enabled |-> FALSE,
                folders |-> IF w.folders = Nothing THEN Nowhere ELSE w.folders]
        changed == [cred EXCEPT
                      !.provider = Column(@, w.seen.provider, ProviderOf[w.box]),
                      !.box = w.box,
                      !.folders = IF w.folders = Nothing THEN @
                                  ELSE [c \in Columns |->
                                          Column(@[c], w.seen.folders[c], w.folders[c])]]
    IN  /\ w.at = "connect"
        /\ Finish(t)
        /\ cred' = CASE w.seen = Nothing /\ cred = Nothing -> new
                     [] w.seen # Nothing /\ cred # Nothing /\ cred.id = w.seen.id -> changed
                     [] OTHER -> cred    \* another request inserted or deleted it first
        /\ IF cred = Nothing THEN UNCHANGED touched ELSE Touch(cred.id, cred, cred')
        /\ UNCHANGED <<slack, checked, chosen>>

\* disconnect_email_credentials: loaded, revoked at Google, deleted.
DisconnectBegin(t) ==
    /\ cred # Nothing
    /\ Begin(t, [at |-> "disconnect", id |-> cred.id])
    /\ UNCHANGED <<checked, chosen>>

DisconnectEnd(t) ==
    /\ thread[t].at = "disconnect"
    /\ Finish(t)
    /\ cred' = IF cred # Nothing /\ cred.id = thread[t].id THEN Nothing ELSE cred
    /\ UNCHANGED <<slack, past>>

-----------------------------------------------------------------------------
(* Slack                                                                    *)

\* slack_oauth_callback, once Slack has exchanged the code
InstallBegin(t, team) ==
    /\ Begin(t, [at |-> "install", seen |-> slack, team |-> team])
    /\ UNCHANGED <<checked, chosen>>

\* The channel chosen earlier is kept across a re-install.
InstallEnd(t) ==
    LET w == thread[t] IN
    /\ w.at = "install"
    /\ Finish(t)
    /\ slack' = CASE w.seen = Nothing /\ slack = Nothing ->
                        [id |-> acts, team |-> w.team, channel |-> Nothing]
                  [] w.seen # Nothing /\ slack # Nothing /\ slack.id = w.seen.id ->
                        [slack EXCEPT !.team = w.team]
                  [] OTHER -> slack
    /\ UNCHANGED <<cred, past>>

\* slack_set_channel: any channel, also one of a list shown for another workspace
ChannelBegin(t, channel) ==
    /\ slack # Nothing
    /\ Begin(t, [at |-> "channel", seen |-> slack, channel |-> channel])
    /\ chosen' = chosen \cup {slack.id}
    /\ UNCHANGED checked

ChannelEnd(t) ==
    LET w == thread[t] IN
    /\ w.at = "channel"
    /\ Finish(t)
    /\ slack' = IF slack = Nothing \/ slack.id # w.seen.id THEN slack
                ELSE [slack EXCEPT !.channel = Column(@, w.seen.channel, w.channel)]
    /\ UNCHANGED <<cred, past>>

\* slack_disconnect
UninstallBegin(t) ==
    /\ slack # Nothing
    /\ Begin(t, [at |-> "uninstall", id |-> slack.id])
    /\ UNCHANGED <<checked, chosen>>

UninstallEnd(t) ==
    /\ thread[t].at = "uninstall"
    /\ Finish(t)
    /\ slack' = IF slack # Nothing /\ slack.id = thread[t].id THEN Nothing ELSE slack
    /\ UNCHANGED <<cred, past>>

-----------------------------------------------------------------------------
(* The agent                                                                *)

\* set_email_agent_enabled, by an admin
SetFlag ==
    /\ flag' = ~flag
    /\ UNCHANGED <<cred, slack, thread, run, acts, past>>

\* _build_agent_config: Slack is there once a channel is chosen.
ConfigOf(c, s) ==
    LET notify == s # Nothing /\ s.channel # Nothing IN
    [provider |-> c.provider, box |-> c.box, folders |-> c.folders,
     team |-> IF notify THEN s.team ELSE Nothing,
     channel |-> IF notify THEN s.channel ELSE Nothing]

\* cloud_list_users shows the enabled ones, cloud_get_config hands out a copy, and the
\* agent works on a copy that says enabled.
StartAgent ==
    /\ flag
    /\ cred # Nothing /\ cred.enabled
    /\ run' = ConfigOf(cred, slack)
    /\ UNCHANGED <<cred, slack, flag, thread, acts, past>>

\* The run ends; nothing of the configuration is kept.
StopAgent ==
    /\ run # Nothing
    /\ run' = Nothing
    /\ UNCHANGED <<cred, slack, flag, thread, acts, past>>

-----------------------------------------------------------------------------
UserStep(t) ==
    \/ \E f \in Folders, e \in BOOLEAN : PutBegin(t, f, e)
    \/ \E b \in Boxes, f \in Folders \cup {Nothing} : ConnectBegin(t, b, f)
    \/ PutEnd(t) \/ ConnectEnd(t)
    \/ DisconnectBegin(t) \/ DisconnectEnd(t)
    \/ \E w \in Workspaces : InstallBegin(t, w)
    \/ \E c \in Channels : ChannelBegin(t, c)
    \/ InstallEnd(t) \/ ChannelEnd(t)
    \/ UninstallBegin(t) \/ UninstallEnd(t)

MailNext ==
    \/ \E t \in Threads : UserStep(t)
    \/ SetFlag \/ StartAgent \/ StopAgent

MailSpec == MailInit /\ [][MailNext]_mailVars

-----------------------------------------------------------------------------
\* A mailbox the agent may work on was enabled by a check of this very connection, and
\* Slack is told only of a channel chosen for this very connection: what was verified or
\* chosen before a disconnect enables nothing of what is connected after it.  And as
\* long as nothing was written over it, the mailbox has all the folders it is to be
\* worked on with, and its credentials are of the provider the agent is told
\* (agent.py:445-475, 820-845, 912-920).
EnabledByItsCheck ==
    /\ cred # Nothing /\ cred.enabled =>
        /\ cred.id \in checked
        /\ cred.id \notin touched => Verified(cred, cred.folders)
    /\ slack # Nothing /\ slack.channel # Nothing => slack.id \in chosen

\* The agent never works on a partial layout, on folders its mailbox does not have or
\* with credentials of another provider than it is told: "enabling requires all five
\* folders/labels to be set AND to exist on the mailbox", and "a new mailbox starts
\* disabled until its folders are set + verified" (agent.py:445-448, 713-715).
RunsOnVerified == run # Nothing => Verified(run, run.folders)
=============================================================================
