---------------------------- MODULE ConnectScreen ---------------------------
(***************************************************************************)
(* How the page comes to a connection: App.tsx, which asks the server on   *)
(* loading, components/connection/ConnectionDialog.tsx, which is shown     *)
(* until a connect succeeds, stores/connection.ts, which holds what the    *)
(* status bar shows, and the list of connections kept in localStorage.     *)
(*                                                                         *)
(* The button of the dialog is disabled while a connect is pending; Enter  *)
(* in the field and a click on a saved connection are not.  So several     *)
(* connects may be under way.  The server swaps its client when a dial     *)
(* succeeds, in whatever order that happens (QueryService has the rest);   *)
(* the page acts on the answer to its newest connect only, because the     *)
(* callbacks given to mutate are dropped by the next mutate.               *)
(***************************************************************************)
EXTENDS Naturals, Sequences, FiniteSets, Filters

CONSTANTS
  Urls,         \* connection URLs, each of a different database
  Hostless,     \* those that name no host, such as one of a Unix socket
  NoUrl,        \* no connection, no URL, a blank field
  DefaultUrl,   \* what the field starts with
  MaxConnects   \* the connects this page and its earlier loads make (bound)

ASSUME ConnectConstants ==
  Hostless \subseteq Urls /\ NoUrl \notin Urls /\ DefaultUrl \in Urls /\ MaxConnects \in Nat

VARIABLES
  screen,    \* what App renders; restoring: checking, with the tabs under way
  reply,     \* the answer to getConnectionInfo: awaited, failed, or a URL
  server,    \* what the server's client is connected to
  info,      \* what the store and the status bar say
  calls,     \* the connects so far: URL and how far the server has got
  latest,    \* the connect this page listens to; 0: none
  connect,   \* the state of the useConnect hook
  field,     \* url
  editing,   \* editingName
  saved,     \* the saved connections, in localStorage too
  tabWork,   \* initFromServer under way in the shell, tabs changed by the user
  overtaken  \* history: the server was moved by another than the listened-to connect

dialogVars == <<field, editing, saved>>
netVars == <<server, calls, overtaken>>
pageVars == <<screen, reply, info, latest, connect, tabWork>>
connectVars == <<screen, reply, server, info, calls, latest, connect, field, editing,
                 saved, tabWork, overtaken>>

Screens == {"checking", "restoring", "dialog", "shell"}
CallStates == {"dialling", "swapped", "refused", "over"}
NoWork == [loading |-> FALSE, edited |-> FALSE, came |-> "check"]

IsSaved(u) == \E i \in DOMAIN saved : saved[i] = u

(***************************************************************************)
(* Faulty variants: one plausible slip each, not part of the specification.*)
(***************************************************************************)
\* The callbacks are those of useMutation, which run for every call.
HeardByAll(n) == screen = "dialog"

\* initTabs() without return: finally does not wait for it.
TabsNotAwaited ==
  /\ screen = "checking" /\ reply # "awaited"
  /\ IF reply # "failed" /\ reply \in Urls \ Hostless
       THEN /\ info' = reply /\ screen' = "shell"
            /\ tabWork' = [tabWork EXCEPT !.loading = TRUE]
       ELSE screen' = "dialog" /\ UNCHANGED <<info, tabWork>>
  /\ UNCHANGED <<reply, latest, connect, netVars, dialogVars>>

(***************************************************************************)
(* Loading the page.                                                       *)
(***************************************************************************)
ConnectInit ==
  /\ server \in Urls \cup {NoUrl} /\ calls = << >> /\ overtaken = FALSE
  /\ screen = "checking" /\ reply = "awaited" /\ info = NoUrl
  /\ latest = 0 /\ connect = "idle" /\ tabWork = NoWork
  /\ field = DefaultUrl /\ editing = NoUrl /\ saved = << >>

\* The server reads its client, or the request fails.
InfoRead ==
  /\ screen = "checking" /\ reply = "awaited"
  /\ reply' \in {server, "failed"}
  /\ overtaken' = FALSE
  /\ UNCHANGED <<screen, info, latest, connect, tabWork, server, calls, dialogVars>>

\* info?.host
NamesHost(u) == u \in Urls \ Hostless

InfoArrives ==
  /\ screen = "checking" /\ reply # "awaited"
  /\ IF reply # "failed" /\ NamesHost(reply)
       THEN info' = reply /\ screen' = "restoring"
       ELSE screen' = "dialog" /\ UNCHANGED info
  /\ UNCHANGED <<reply, latest, connect, tabWork, netVars, dialogVars>>

\* initTabs has its answer, or has swallowed an error; finally.
TabsRestored ==
  /\ screen = "restoring"
  /\ screen' = "shell"
  /\ UNCHANGED <<reply, info, latest, connect, tabWork, netVars, dialogVars>>

\* The user reloads the page: the server goes on with what it was asked.
Reload ==
  /\ screen \in {"dialog", "shell"}
  /\ screen' = "checking" /\ reply' = "awaited" /\ info' = NoUrl
  /\ latest' = 0 /\ connect' = "idle" /\ tabWork' = NoWork
  /\ field' = DefaultUrl /\ editing' = NoUrl
  /\ UNCHANGED <<saved, netVars>>

(***************************************************************************)
(* The dialog.                                                             *)
(***************************************************************************)
TypeUrl(u) ==
  /\ screen = "dialog" /\ field # u
  /\ field' = u
  /\ UNCHANGED <<editing, saved, pageVars, netVars>>

\* connect.mutate(target): forget the call before.
Send(u) ==
  /\ u # NoUrl /\ Len(calls) < MaxConnects
  /\ calls' = Append(calls, [url |-> u, state |-> "dialling"])
  /\ latest' = Len(calls) + 1 /\ connect' = "pending"
  /\ UNCHANGED <<screen, reply, info, tabWork, server, overtaken, editing, saved>>

PressEnter == screen = "dialog" /\ Send(field) /\ field' = field
PressConnect == connect # "pending" /\ PressEnter
ClickSaved(u) == screen = "dialog" /\ IsSaved(u) /\ Send(u) /\ field' = u

\* handleSave: the name editor opens for a URL that is not saved.
StartSave ==
  /\ screen = "dialog" /\ field # NoUrl /\ ~IsSaved(field)
  /\ editing' = field
  /\ UNCHANGED <<field, saved, pageVars, netVars>>

\* confirmSave, whatever the field says by now, and Cancel.
ConfirmSave ==
  /\ screen = "dialog" /\ editing # NoUrl
  /\ saved' = Append(saved, editing) /\ editing' = NoUrl
  /\ UNCHANGED <<field, pageVars, netVars>>

CancelSave ==
  /\ screen = "dialog" /\ editing # NoUrl
  /\ editing' = NoUrl
  /\ UNCHANGED <<field, saved, pageVars, netVars>>

HandleRemove(u) ==
  /\ screen = "dialog" /\ IsSaved(u)
  /\ saved' = Kept(saved, Urls \ {u})
  /\ UNCHANGED <<field, editing, pageVars, netVars>>

(***************************************************************************)
(* The calls.                                                              *)
(***************************************************************************)
Advance(n, state) == calls' = [calls EXCEPT ![n].state = state]

\* client.New and SwapClient, whether or not the browser still listens.
ServerSwapsFor(n) ==
  /\ calls[n].state = "dialling"
  /\ Advance(n, "swapped")
  /\ server' = calls[n].url /\ overtaken' = (n # latest)
  /\ UNCHANGED <<pageVars, dialogVars>>

DialRefused(n) ==
  /\ calls[n].state = "dialling"
  /\ Advance(n, "refused")
  /\ UNCHANGED <<server, overtaken, pageVars, dialogVars>>

\* The callbacks of a call run if it is the newest and the dialog is mounted.
Heard(n) == n = latest /\ screen = "dialog"

\* onSuccess: setConnected, then initFromServer; App renders the shell.
ConnectAnswered(n) ==
  /\ calls[n].state = "swapped"
  /\ Advance(n, "over")
  /\ IF Heard(n)
       THEN /\ connect' = "idle" /\ info' = calls[n].url /\ screen' = "shell"
            /\ tabWork' = [NoWork EXCEPT !.loading = TRUE, !.came = "dialog"]
            /\ field' = DefaultUrl /\ editing' = NoUrl
       ELSE UNCHANGED <<connect, info, screen, tabWork, field, editing>>
  /\ UNCHANGED <<reply, latest, saved, server, overtaken>>

\* A refusal, or an answer that is lost on the way: the dialog shows the error.
ConnectFailed(n) ==
  /\ calls[n].state \in {"swapped", "refused"}
  /\ Advance(n, "over")
  /\ connect' = IF Heard(n) THEN "error" ELSE connect
  /\ UNCHANGED <<screen, reply, info, latest, tabWork, server, overtaken, dialogVars>>

\* Another window connects, switches or disconnects the one client.
OtherWindow(u) ==
  /\ server # u
  /\ server' = u /\ overtaken' = TRUE
  /\ UNCHANGED <<calls, pageVars, dialogVars>>

(***************************************************************************)
(* The shell.                                                              *)
(***************************************************************************)
EditTabs ==
  /\ screen = "shell" /\ ~tabWork.edited
  /\ tabWork' = [tabWork EXCEPT !.edited = TRUE]
  /\ UNCHANGED <<screen, reply, info, latest, connect, netVars, dialogVars>>

\* initFromServer replaces all tabs if the server has any.
TabsArrive ==
  /\ screen = "shell" /\ tabWork.loading
  /\ \E e \in {FALSE, tabWork.edited} :
       tabWork' = [tabWork EXCEPT !.loading = FALSE, !.edited = e]
  /\ UNCHANGED <<screen, reply, info, latest, connect, netVars, dialogVars>>

ConnectNext ==
  \/ InfoRead \/ InfoArrives \/ TabsRestored \/ Reload
  \/ PressEnter \/ PressConnect \/ StartSave \/ ConfirmSave \/ CancelSave
  \/ \E u \in Urls : ClickSaved(u) \/ HandleRemove(u)
  \/ \E u \in Urls \cup {NoUrl} : TypeUrl(u) \/ OtherWindow(u)
  \/ \E n \in DOMAIN calls : \/ ServerSwapsFor(n) \/ DialRefused(n)
                             \/ ConnectAnswered(n) \/ ConnectFailed(n)
  \/ EditTabs \/ TabsArrive

ConnectSpec == ConnectInit /\ [][ConnectNext]_connectVars

(***************************************************************************)
(* Properties.                                                             *)
(***************************************************************************)
\* Types; a connect always names a URL.
ConnectTypeOK ==
  /\ screen \in Screens /\ reply \in Urls \cup {NoUrl, "awaited", "failed"}
  /\ server \in Urls \cup {NoUrl} /\ info \in Urls \cup {NoUrl}
  /\ calls \in Seq([url : Urls, state : CallStates]) /\ Len(calls) <= MaxConnects
  /\ latest \in 0 .. Len(calls) /\ connect \in {"idle", "pending", "error"}
  /\ {field, editing} \subseteq Urls \cup {NoUrl} /\ saved \in Seq(Urls)
  /\ tabWork \in [loading : BOOLEAN, edited : BOOLEAN, came : {"check", "dialog"}]
  /\ overtaken \in BOOLEAN

\* The status bar names what the server is connected to (ConnectionDialog.tsx:59-77,
\* App.tsx:15-23), although several connects of the dialog may be under way and
\* be answered in any order, until another connect moves the server: an earlier
\* one of this page whose dial took longer, or one of another window.
ShownIsServers ==
  screen \in {"restoring", "shell"} /\ ~overtaken => info = server

\* Whoever loads the page of a connected server is not asked to connect
\* (App.tsx:15-23), if the URL has a host and the question is answered.
DialogOnlyIfUnconnected ==
  screen = "dialog" /\ latest = 0 /\ reply # "failed" /\ ~overtaken =>
    server \in Hostless \cup {NoUrl}

\* The list of saved connections names no URL twice, the key of its entries
\* (ConnectionDialog.tsx:79-95): the name editor may be open for one URL while
\* another is typed, saved and removed.
SavedOnce == \A i, j \in DOMAIN saved : saved[i] = saved[j] => i = j

\* A page that has not been through its dialog listens to no connect.
ListensInDialog == screen \in {"checking", "restoring"} => latest = 0

\* What the page goes by is where the server is, until another moves it: the
\* answer it waits to use or has used, the connect that it listens to, info.
PageFollowsServer ==
  ~overtaken =>
    /\ latest = 0 /\ screen \in {"checking", "dialog"} /\ reply \notin {"awaited", "failed"} =>
         reply = server
    /\ screen = "dialog" /\ latest # 0 /\ calls[latest].state = "swapped" =>
         calls[latest].url = server
    /\ screen \in {"restoring", "shell"} => info = server

\* In the shell the connect that led there is over; in the dialog without one the
\* server had named no host.
HowItCameThere ==
  /\ screen = "shell" /\ latest # 0 => calls[latest].state # "dialling"
  /\ screen = "dialog" /\ latest = 0 => reply # "awaited" /\ (reply = "failed" \/ ~NamesHost(reply))

\* Tabs are loaded and changed in the shell only, and loaded there only behind
\* the dialog.
TabsInShell ==
  /\ screen # "shell" => tabWork = NoWork
  /\ tabWork.loading => tabWork.came = "dialog"

\* Inductive, with the types: the name editor is not open for a URL that is saved.
EditingUnsaved == SavedOnce /\ ~IsSaved(editing)

\* Inductive.
ConnectInv ==
  ConnectTypeOK /\ ListensInDialog /\ PageFollowsServer /\ HowItCameThere /\ TabsInShell

\* What the user does in the tabs is replaced by the tabs of the server only if
\* the page was opened through the dialog, which does not wait for them
\* (ConnectionDialog.tsx:72; App.tsx:20 returns the promise).
EditsSurviveCheck ==
  [][tabWork.edited /\ ~tabWork'.edited /\ screen' = "shell"
       => tabWork.came = "dialog"]_connectVars
=============================================================================
