---------------------------- MODULE SidesProofs -----------------------------
(***************************************************************************)
(* Safety of the components about the connection, QueryCache,              *)
(* ConnectScreen and SideLists, for any number of databases, connects and  *)
(* saved connections, and for any catalogue.                               *)
(***************************************************************************)
EXTENDS MCSides, FilterTheorems

(***************************************************************************)
(* QueryCache.                                                             *)
(***************************************************************************)
\* A fetch that starts anew has no answer under way; the others go on as before.
LEMMA RefetchEffect ==
  ASSUME TypeOK, NEW S \in SUBSET Keys, Refetch(S)
  PROVE  /\ fetch' \in [Keys -> {"idle", "first", "retry"}]
         /\ answer' \in [Keys -> Databases \cup {None}]
         /\ \A k \in Keys : fetch'[k] = "idle" => answer'[k] = None
         /\ \A k \in Keys : answer'[k] \in {None, answer[k]}
         /\ \A k \in S : fetch[k] = "idle" \/ data[k] # None => answer'[k] = None
BY DEF TypeOK, Refetch, Restarted

\* The initial states satisfy the invariant.
LEMMA InitCacheInv == Init => CacheInv
<1> SUFFICES ASSUME Init PROVE CacheInv
  OBVIOUS
<1> USE NoneDistinct DEF Init
<1>1. TypeOK
  BY DEF TypeOK
<1>2. SwitchGoesElsewhere /\ SidebarIsOfServer
  BY DEF SwitchGoesElsewhere, SidebarIsOfServer, InvalidatedBySwitch, AlwaysMounted
<1>3. QED
  BY <1>1, <1>2 DEF CacheInv

\* The sidebar's keys are on the screen throughout.
LEMMA SidebarMounted ==
  ASSUME TypeOK
  PROVE  InvalidatedBySwitch \cap Keys = InvalidatedBySwitch \cap mounted
BY DEF TypeOK, InvalidatedBySwitch, AlwaysMounted

\* A step of one query: what the sidebar has can only become what the server has
\* now, or what the first load brings.
LEMMA QueryStepInv ==
  ASSUME CacheInv, NEW k \in Keys,
         \/ Mount(k) \/ Unmount(k) \/ Collect(k)
         \/ ServerAnswers(k) \/ AnswerArrives(k) \/ FetchFails(k) \/ GiveUp(k)
  PROVE  CacheInv'
<1> USE NoneDistinct DEF CacheInv, TypeOK, connVars
<1>1. SwitchGoesElsewhere'
  BY DEF SwitchGoesElsewhere, Mount, Unmount, Collect, ServerAnswers, AnswerArrives,
     FetchFails, GiveUp
<1>2. CASE Mount(k)
  <2>1. TypeOK'
    BY <1>2 DEF Mount
  <2>2. SidebarIsOfServer'
    BY <1>2 DEF Mount, SidebarIsOfServer
  <2>3. QED
    BY <1>1, <2>1, <2>2
<1>3. CASE Unmount(k)
  <2>1. TypeOK'
    BY <1>3 DEF Unmount
  <2>2. SidebarIsOfServer'
    BY <1>3 DEF Unmount, SidebarIsOfServer
  <2>3. QED
    BY <1>1, <2>1, <2>2
<1>4. CASE Collect(k)
  <2>1. TypeOK'
    BY <1>4 DEF Collect
  <2>2. k \notin InvalidatedBySwitch
    BY <1>4, SidebarMounted DEF Collect
  <2>3. SidebarIsOfServer'
    BY <1>4, <2>2 DEF Collect, SidebarIsOfServer
  <2>4. QED
    BY <1>1, <2>1, <2>3
<1>5. CASE ServerAnswers(k)
  <2>1. TypeOK'
    BY <1>5 DEF ServerAnswers
  <2>2. SidebarIsOfServer'
    BY <1>5 DEF ServerAnswers, SidebarIsOfServer
  <2>3. QED
    BY <1>1, <2>1, <2>2
<1>6. CASE AnswerArrives(k)
  <2>1. TypeOK'
    BY <1>6 DEF AnswerArrives
  <2>2. SidebarIsOfServer'
    BY <1>6 DEF AnswerArrives, SidebarIsOfServer
  <2>3. QED
    BY <1>1, <2>1, <2>2
<1>7. CASE FetchFails(k)
  <2>1. TypeOK'
    BY <1>7 DEF FetchFails
  <2>2. SidebarIsOfServer'
    BY <1>7 DEF FetchFails, SidebarIsOfServer
  <2>3. QED
    BY <1>1, <2>1, <2>2
<1>8. CASE GiveUp(k)
  <2>1. TypeOK'
    BY <1>8 DEF GiveUp
  <2>2. SidebarIsOfServer'
    BY <1>8 DEF GiveUp, SidebarIsOfServer
  <2>3. QED
    BY <1>1, <2>1, <2>2
<1>9. QED
  BY <1>2, <1>3, <1>4, <1>5, <1>6, <1>7, <1>8

\* The switch: its answer restarts every fetch of the sidebar but a first load,
\* which it marks, and one that fails leaves page and server where they were, or
\* apart.
LEMMA SwitchStepInv ==
  ASSUME CacheInv,
         \/ \E d \in Databases : SwitchDatabase(d)
         \/ ServerSwaps \/ SwitchDone \/ SwitchFails
  PROVE  CacheInv'
<1> USE NoneDistinct DEF CacheInv
<1>1. ASSUME NEW d \in Databases, SwitchDatabase(d) PROVE CacheInv'
  <2> USE <1>1 DEF SwitchDatabase, cacheVars
  <2>1. TypeOK'
    BY DEF TypeOK, Phases
  <2>2. SwitchGoesElsewhere'
    BY DEF SwitchGoesElsewhere
  <2>3. SidebarIsOfServer'
    BY DEF SidebarIsOfServer
  <2>4. QED
    BY <2>1, <2>2, <2>3
<1>2. CASE ServerSwaps
  <2>1. switching \in Phases
    BY <1>2 DEF ServerSwaps, TypeOK
  <2>2. /\ serverDb' = switching.to /\ serverDb' \in Databases /\ serverDb' # database'
        /\ switching' \in Phases /\ switching'.to = switching.to
        /\ UNCHANGED <<database, mounted, data, stale, fetch, answer, joined>>
    BY <1>2, <2>1 DEF ServerSwaps, SwitchGoesElsewhere, cacheVars, Phases
  <2>3. TypeOK'
    BY <2>2 DEF TypeOK
  <2>4. SwitchGoesElsewhere' /\ SidebarIsOfServer'
    BY <2>2, <1>2 DEF SwitchGoesElsewhere, SidebarIsOfServer, ServerSwaps
  <2>5. QED
    BY <2>3, <2>4
<1>3. CASE SwitchDone
  <2> DEFINE Sidebar == InvalidatedBySwitch \cap mounted
  <2>1. /\ switching \in Phases /\ serverDb = switching.to
        /\ database' = serverDb /\ switching' = None
        /\ UNCHANGED <<serverDb, mounted, data>>
    BY <1>3 DEF SwitchDone, TypeOK, SwitchGoesElsewhere
  <2>2. Sidebar \in SUBSET Keys /\ Refetch(Sidebar)
    BY <1>3 DEF SwitchDone, TypeOK
  <2>3. /\ fetch' \in [Keys -> {"idle", "first", "retry"}]
        /\ answer' \in [Keys -> Databases \cup {None}]
        /\ \A k \in Keys : fetch'[k] = "idle" => answer'[k] = None
        /\ \A k \in Sidebar : fetch[k] = "idle" \/ data[k] # None => answer'[k] = None
    BY <2>2, RefetchEffect
  <2>4. /\ stale' \in [Keys -> BOOLEAN] /\ joined' \subseteq Keys
        /\ \A k \in Sidebar : data[k] # None => stale'[k]
        /\ \A k \in Sidebar : ~(fetch[k] = "idle" \/ data[k] # None) => k \in joined'
    BY <1>3, <2>2 DEF SwitchDone, TypeOK, Restarted
  <2>5. TypeOK'
    BY <2>1, <2>3, <2>4 DEF TypeOK
  <2>6. SwitchGoesElsewhere'
    BY <2>1 DEF SwitchGoesElsewhere
  <2>7. SidebarIsOfServer'
    BY <2>1, <2>3, <2>4, SidebarMounted DEF SidebarIsOfServer
  <2>8. QED
    BY <2>5, <2>6, <2>7
<1>4. CASE SwitchFails
  <2> USE <1>4 DEF SwitchFails, cacheVars
  <2>1. TypeOK'
    BY DEF TypeOK
  <2>2. SwitchGoesElsewhere' /\ SidebarIsOfServer'
    BY DEF SwitchGoesElsewhere, SidebarIsOfServer
  <2>3. QED
    BY <2>1, <2>2
<1>5. QED
  BY <1>1, <1>2, <1>3, <1>4

\* The invariant is inductive.
LEMMA NextCacheInv == CacheInv /\ [Next]_vars => CacheInv'
<1> SUFFICES ASSUME CacheInv, [Next]_vars PROVE CacheInv'
  OBVIOUS
<1>1. CASE RefreshObjects
  <2>1. Refetch({"objects"}) /\ {"objects"} \in SUBSET Keys
    BY <1>1 DEF RefreshObjects
  <2>2. /\ fetch' \in [Keys -> {"idle", "first", "retry"}]
        /\ answer' \in [Keys -> Databases \cup {None}]
        /\ \A k \in Keys : fetch'[k] = "idle" => answer'[k] = None
        /\ \A k \in Keys : answer'[k] \in {None, answer[k]}
    BY <2>1, RefetchEffect DEF CacheInv
  <2>3. UNCHANGED <<serverDb, database, switching, mounted, data, stale, joined>>
    BY <1>1 DEF RefreshObjects, connVars
  <2>4. TypeOK'
    BY <2>2, <2>3 DEF CacheInv, TypeOK
  <2>5. SwitchGoesElsewhere' /\ SidebarIsOfServer'
    BY <2>2, <2>3 DEF CacheInv, SwitchGoesElsewhere, SidebarIsOfServer
  <2>6. QED
    BY <2>4, <2>5 DEF CacheInv
<1>2. CASE UNCHANGED vars
  BY <1>2 DEF vars, CacheInv, TypeOK, SwitchGoesElsewhere, SidebarIsOfServer
<1>3. QED
  BY <1>1, <1>2, QueryStepInv, SwitchStepInv DEF Next

\* What is proved once for all about the cache.
THEOREM CacheInvariance == Spec => []CacheInv
BY InitCacheInv, NextCacheInv, PTL DEF Spec

\* In step with the server, the loaded sidebar is of the database that the status
\* bar names, but for a first load that the switch joined.
THEOREM SidebarFollows == Spec => []SidebarFollowsSwitch
<1>1. CacheInv => SidebarFollowsSwitch
  BY DEF CacheInv, SidebarIsOfServer, SidebarFollowsSwitch, InSync
<1>2. QED
  BY CacheInvariance, <1>1, PTL

\* No step that leaves page and server in step replaces what the sidebar shows of
\* the connected database by what another has.
THEOREM SidebarStays == Spec => SidebarStaysCurrent
<1> DEFINE Stays == \A k \in InvalidatedBySwitch \cap Keys :
                      InSync /\ InSync' /\ data[k] = database => data'[k] = database'
<1>1. ASSUME CacheInv, [Next]_vars PROVE Stays
  <2> SUFFICES ASSUME NEW k \in InvalidatedBySwitch \cap Keys,
                      InSync, InSync', data[k] = database
               PROVE  data'[k] = database'
    OBVIOUS
  <2> USE <1>1, NoneDistinct DEF CacheInv, TypeOK, InSync
  <2>1. switching = None /\ data[k] # None
    OBVIOUS
  <2>2. ASSUME NEW j \in Keys, AnswerArrives(j) PROVE data'[k] = database'
    BY <2>1, <2>2 DEF AnswerArrives, SidebarIsOfServer, connVars
  <2>3. ASSUME NEW j \in Keys, Collect(j) PROVE data'[k] = database'
    <3>1. j # k
      BY <2>3, SidebarMounted DEF Collect
    <3>2. QED
      BY <3>1, <2>3 DEF Collect, connVars
  <2>4. ASSUME NEW j \in Keys,
               Mount(j) \/ Unmount(j) \/ ServerAnswers(j) \/ FetchFails(j) \/ GiveUp(j)
        PROVE  data'[k] = database'
    BY <2>4 DEF Mount, Unmount, ServerAnswers, FetchFails, GiveUp, connVars
  <2>5. CASE RefreshObjects \/ \E d \in Databases : SwitchDatabase(d)
    BY <2>5 DEF RefreshObjects, SwitchDatabase, connVars, cacheVars
  <2>6. CASE ServerSwaps \/ SwitchDone \/ SwitchFails
    BY <2>1, <2>6 DEF ServerSwaps, SwitchDone, SwitchFails
  <2>7. CASE UNCHANGED vars
    BY <2>7 DEF vars
  <2>8. QED
    BY <2>2, <2>3, <2>4, <2>5, <2>6, <2>7 DEF Next
<1>2. CacheInv /\ [Next]_vars => [Stays]_vars
  BY <1>1
<1>3. QED
  BY CacheInvariance, <1>2, PTL DEF Spec, SidebarStaysCurrent

(***************************************************************************)
(* ConnectScreen.                                                          *)
(***************************************************************************)
Call == [url : Urls, state : CallStates]

\* What a step on one call does to the calls: its state moves on.
LEMMA AdvanceEffect ==
  ASSUME ConnectTypeOK, NEW n \in DOMAIN calls, NEW state \in CallStates, Advance(n, state)
  PROVE  /\ calls' \in Seq(Call) /\ Len(calls') = Len(calls)
         /\ \A m \in DOMAIN calls :
              calls'[m].url = calls[m].url /\ (m # n => calls'[m] = calls[m])
         /\ calls'[n].state = state
<1>1. calls \in Seq(Call) /\ DOMAIN calls = 1 .. Len(calls)
  BY DEF ConnectTypeOK, Call
<1>2. calls' = [calls EXCEPT ![n].state = state]
  BY DEF Advance
<1>3. calls[n] \in Call
  BY <1>1
<1>4. [calls[n] EXCEPT !.state = state] \in Call
  BY <1>3 DEF Call
<1>5. QED
  BY <1>1, <1>2, <1>3, <1>4 DEF Call

\* The initial states satisfy the invariant.
LEMMA InitConnectInv == ConnectInit => ConnectInv
<1> SUFFICES ASSUME ConnectInit PROVE ConnectInv
  OBVIOUS
<1> USE ConnectConstants DEF ConnectInit
<1>1. ConnectTypeOK
  <2>1. calls \in Seq([url : Urls, state : CallStates]) /\ Len(calls) = 0 /\ saved \in Seq(Urls)
    OBVIOUS
  <2>2. tabWork \in [loading : BOOLEAN, edited : BOOLEAN, came : {"check", "dialog"}]
    BY DEF NoWork
  <2>3. latest \in 0 .. Len(calls) /\ Len(calls) <= MaxConnects
    BY <2>1
  <2>4. {field, editing} \subseteq Urls \cup {NoUrl}
    OBVIOUS
  <2>5. /\ screen \in Screens /\ reply \in Urls \cup {NoUrl, "awaited", "failed"}
        /\ server \in Urls \cup {NoUrl} /\ info \in Urls \cup {NoUrl}
        /\ connect \in {"idle", "pending", "error"} /\ overtaken \in BOOLEAN
    BY DEF Screens
  <2>6. QED
    BY <2>1, <2>2, <2>3, <2>4, <2>5 DEF ConnectTypeOK
<1>2. ListensInDialog /\ PageFollowsServer /\ HowItCameThere /\ TabsInShell
  BY DEF ListensInDialog, PageFollowsServer, HowItCameThere, TabsInShell, NoWork
<1>3. QED
  BY <1>1, <1>2 DEF ConnectInv

\* Loading the page: what it goes by is the server's answer of the time.
LEMMA LoadStepInv ==
  ASSUME ConnectInv, InfoRead \/ InfoArrives \/ TabsRestored \/ Reload
  PROVE  ConnectInv'
<1> USE ConnectConstants DEF ConnectInv, netVars, dialogVars, pageVars
<1>1. CASE InfoRead
  <2> USE <1>1 DEF InfoRead
  <2>1. ConnectTypeOK'
    BY DEF ConnectTypeOK
  <2>2. PageFollowsServer'
    BY DEF PageFollowsServer, ListensInDialog
  <2>3. ListensInDialog' /\ HowItCameThere' /\ TabsInShell'
    BY DEF ListensInDialog, HowItCameThere, TabsInShell
  <2>4. QED
    BY <2>1, <2>2, <2>3
<1>2. CASE InfoArrives
  <2>1. /\ screen = "checking" /\ reply # "awaited" /\ latest = 0
        /\ UNCHANGED <<reply, latest, connect, tabWork, server, calls, overtaken, field,
                       editing, saved>>
    BY <1>2 DEF InfoArrives, ListensInDialog
  <2>2. \/ /\ reply # "failed" /\ NamesHost(reply)
           /\ info' = reply /\ screen' = "restoring"
        \/ /\ ~(reply # "failed" /\ NamesHost(reply))
           /\ info' = info /\ screen' = "dialog"
    BY <1>2 DEF InfoArrives
  <2>3. ConnectTypeOK'
    BY <2>1, <2>2 DEF ConnectTypeOK, Screens, NamesHost
  <2>4. ListensInDialog'
    BY <2>1 DEF ListensInDialog
  <2>5. PageFollowsServer'
    BY <2>1, <2>2 DEF PageFollowsServer
  <2>6. HowItCameThere'
    BY <2>1, <2>2 DEF HowItCameThere, NamesHost
  <2>7. TabsInShell'
    BY <2>1, <2>2 DEF TabsInShell
  <2>8. QED
    BY <2>3, <2>4, <2>5, <2>6, <2>7
<1>3. CASE TabsRestored
  <2> USE <1>3 DEF TabsRestored
  <2>1. ConnectTypeOK'
    BY DEF ConnectTypeOK, Screens
  <2>2. ListensInDialog' /\ PageFollowsServer' /\ HowItCameThere' /\ TabsInShell'
    BY DEF ListensInDialog, PageFollowsServer, HowItCameThere, TabsInShell
  <2>3. QED
    BY <2>1, <2>2
<1>4. CASE Reload
  <2> USE <1>4 DEF Reload
  <2>1. ConnectTypeOK'
    BY DEF ConnectTypeOK, Screens, NoWork
  <2>2. ListensInDialog' /\ PageFollowsServer' /\ HowItCameThere' /\ TabsInShell'
    BY DEF ListensInDialog, PageFollowsServer, HowItCameThere, TabsInShell, NoWork
  <2>3. QED
    BY <2>1, <2>2
<1>5. QED
  BY <1>1, <1>2, <1>3, <1>4

\* A connect is sent: from now on it is the one that is listened to.
LEMMA SendInv ==
  ASSUME ConnectInv, screen = "dialog", NEW u \in Urls, Send(u), field' \in Urls \cup {NoUrl}
  PROVE  ConnectInv'
<1> DEFINE call == [url |-> u, state |-> "dialling"]
<1>1. /\ calls \in Seq(Call) /\ call \in Call
      /\ calls' = Append(calls, call) /\ latest' = Len(calls) + 1
      /\ Len(calls) < MaxConnects /\ MaxConnects \in Nat /\ connect' = "pending"
      /\ UNCHANGED <<screen, reply, info, tabWork, server, overtaken, editing, saved>>
  BY ConnectConstants DEF Send, ConnectInv, ConnectTypeOK, Call, CallStates
<1> HIDE DEF call
<1>2. /\ calls' \in Seq(Call) /\ Len(calls') = Len(calls) + 1
      /\ calls'[latest'] = call /\ latest' \in 1 .. Len(calls')
  BY <1>1
<1>3. call.state = "dialling"
  BY DEF call
<1>4. ConnectTypeOK'
  BY <1>1, <1>2 DEF ConnectInv, ConnectTypeOK, Call
<1>5. ListensInDialog' /\ PageFollowsServer' /\ HowItCameThere' /\ TabsInShell'
  BY <1>1, <1>2, <1>3
     DEF ConnectInv, ListensInDialog, PageFollowsServer, HowItCameThere, TabsInShell
<1>6. QED
  BY <1>4, <1>5 DEF ConnectInv

\* The dialog: typing, and the list of saved connections.
LEMMA DialogStepInv ==
  ASSUME ConnectInv,
         \/ PressEnter \/ PressConnect \/ StartSave \/ ConfirmSave \/ CancelSave
         \/ \E u \in Urls : ClickSaved(u)
         \/ \E u \in Urls \cup {NoUrl} : TypeUrl(u)
  PROVE  ConnectInv'
<1>1. CASE PressEnter \/ PressConnect
  <2>1. /\ screen = "dialog" /\ field \in Urls \cup {NoUrl} /\ field # NoUrl
        /\ Send(field) /\ field' = field
    BY <1>1 DEF PressEnter, PressConnect, Send, ConnectInv, ConnectTypeOK
  <2>2. QED
    BY <2>1, SendInv
<1>2. ASSUME NEW u \in Urls, ClickSaved(u) PROVE ConnectInv'
  BY <1>2, SendInv DEF ClickSaved
<1>3. ASSUME StartSave \/ CancelSave \/ \E u \in Urls \cup {NoUrl} : TypeUrl(u)
      PROVE  ConnectInv'
  <2>1. /\ {field', editing'} \subseteq Urls \cup {NoUrl}
        /\ UNCHANGED <<saved, pageVars, netVars>>
    BY <1>3 DEF StartSave, CancelSave, TypeUrl, ConnectInv, ConnectTypeOK
  <2>2. QED
    BY <2>1 DEF ConnectInv, ConnectTypeOK, ListensInDialog, PageFollowsServer,
                HowItCameThere, TabsInShell, pageVars, netVars
<1>4. CASE ConfirmSave
  <2>1. /\ editing \in Urls /\ saved' = Append(saved, editing) /\ editing' = NoUrl
        /\ UNCHANGED <<field, pageVars, netVars>>
    BY <1>4 DEF ConfirmSave, ConnectInv, ConnectTypeOK
  <2>2. saved' \in Seq(Urls)
    BY <2>1 DEF ConnectInv, ConnectTypeOK
  <2>3. QED
    BY <2>1, <2>2 DEF ConnectInv, ConnectTypeOK, ListensInDialog, PageFollowsServer,
                      HowItCameThere, TabsInShell, pageVars, netVars
<1>5. QED
  BY <1>1, <1>2, <1>3, <1>4

\* The calls: only the dialog's newest moves the page, to where it moved the
\* server, unless another moved the server since.
LEMMA CallStepInv ==
  ASSUME ConnectInv, NEW n \in DOMAIN calls,
         ServerSwapsFor(n) \/ DialRefused(n) \/ ConnectAnswered(n) \/ ConnectFailed(n)
  PROVE  ConnectInv'
<1>1. /\ calls \in Seq(Call) /\ DOMAIN calls = 1 .. Len(calls) /\ n \in 1 .. Len(calls)
      /\ calls[n] \in Call /\ calls[n].url \in Urls
  <2>1. calls \in Seq(Call) /\ DOMAIN calls = 1 .. Len(calls)
    BY DEF ConnectInv, ConnectTypeOK, Call
  <2>2. calls[n] \in Call
    BY <2>1
  <2>3. QED
    BY <2>1, <2>2 DEF Call
<1>2. PICK state \in CallStates : Advance(n, state)
  BY DEF ServerSwapsFor, DialRefused, ConnectAnswered, ConnectFailed, CallStates
<1>3. /\ calls' \in Seq(Call) /\ Len(calls') = Len(calls)
      /\ \A m \in DOMAIN calls :
           calls'[m].url = calls[m].url /\ (m # n => calls'[m] = calls[m])
      /\ calls'[n].state = state
  BY <1>2, AdvanceEffect DEF ConnectInv
<1>4. latest \in 0 .. Len(calls) /\ (latest # 0 => latest \in DOMAIN calls)
  BY <1>1 DEF ConnectInv, ConnectTypeOK
<1>5. CASE ServerSwapsFor(n)
  <2>1. /\ server' = calls[n].url /\ overtaken' = (n # latest)
        /\ calls[n].state = "dialling"
        /\ UNCHANGED <<screen, reply, info, latest, connect, tabWork, field, editing, saved>>
    BY <1>5 DEF ServerSwapsFor, pageVars, dialogVars
  <2>2. ConnectTypeOK'
    BY <1>1, <1>3, <2>1 DEF ConnectInv, ConnectTypeOK, Call
  <2>3. ListensInDialog' /\ TabsInShell'
    BY <2>1 DEF ConnectInv, ListensInDialog, TabsInShell
  <2>4. HowItCameThere'
    BY <1>3, <1>4, <2>1 DEF ConnectInv, HowItCameThere
  <2>5. PageFollowsServer'
    <3>1. CASE n # latest
      BY <2>1, <3>1 DEF PageFollowsServer
    <3>2. CASE n = latest
      <4>1. latest # 0
        BY <1>1, <3>2
      <4>2. screen = "dialog"
        BY <2>1, <3>2, <4>1
           DEF ConnectInv, ListensInDialog, HowItCameThere, ConnectTypeOK, Screens
      <4>3. calls'[latest].url = server'
        BY <1>1, <1>3, <2>1, <3>2
      <4>4. QED
        BY <2>1, <4>1, <4>2, <4>3 DEF PageFollowsServer
    <3>3. QED
      BY <3>1, <3>2
  <2>6. QED
    BY <2>2, <2>3, <2>4, <2>5 DEF ConnectInv
<1>6. CASE DialRefused(n) \/ ConnectFailed(n)
  <2>1. /\ connect' \in {"error", connect}
        /\ UNCHANGED <<screen, reply, info, latest, tabWork, server, overtaken, field,
                       editing, saved>>
    BY <1>6 DEF DialRefused, ConnectFailed, pageVars, dialogVars
  <2>2. calls'[n].state \in {"refused", "over"}
    <3>1. ASSUME DialRefused(n) PROVE calls'[n].state = "refused"
      BY <1>1, <3>1 DEF DialRefused, Advance
    <3>2. ASSUME ConnectFailed(n) PROVE calls'[n].state = "over"
      BY <1>1, <3>2 DEF ConnectFailed, Advance
    <3>3. QED
      BY <1>6, <3>1, <3>2
  <2>3. ConnectTypeOK'
    BY <1>1, <1>3, <2>1 DEF ConnectInv, ConnectTypeOK, Call
  <2>4. ListensInDialog' /\ TabsInShell'
    BY <2>1 DEF ConnectInv, ListensInDialog, TabsInShell
  <2>5. HowItCameThere'
    BY <1>3, <1>4, <2>1, <2>2 DEF ConnectInv, HowItCameThere
  <2>6. PageFollowsServer'
    BY <1>3, <1>4, <2>1, <2>2 DEF ConnectInv, PageFollowsServer
  <2>7. QED
    BY <2>3, <2>4, <2>5, <2>6 DEF ConnectInv
<1>7. CASE ConnectAnswered(n) /\ Heard(n)
  <2>1. /\ n = latest /\ screen = "dialog" /\ calls[n].state = "swapped"
        /\ calls'[n].state = "over"
        /\ connect' = "idle" /\ info' = calls[n].url /\ screen' = "shell"
        /\ tabWork' = [NoWork EXCEPT !.loading = TRUE, !.came = "dialog"]
        /\ field' = DefaultUrl /\ editing' = NoUrl
        /\ UNCHANGED <<reply, latest, saved, server, overtaken>>
    BY <1>1, <1>7 DEF ConnectAnswered, Heard, Advance
  <2>2. ConnectTypeOK'
    BY <1>1, <1>3, <2>1, ConnectConstants DEF ConnectInv, ConnectTypeOK, Call, NoWork, Screens
  <2>3. ListensInDialog' /\ TabsInShell'
    BY <2>1 DEF ListensInDialog, TabsInShell, NoWork
  <2>4. HowItCameThere'
    BY <2>1 DEF HowItCameThere
  <2>5. PageFollowsServer'
    BY <1>1, <2>1 DEF ConnectInv, PageFollowsServer
  <2>6. QED
    BY <2>2, <2>3, <2>4, <2>5 DEF ConnectInv
<1>8. CASE ConnectAnswered(n) /\ ~Heard(n)
  <2>1. /\ calls'[n].state = "over"
        /\ UNCHANGED <<connect, info, screen, tabWork, field, editing,
                       reply, latest, saved, server, overtaken>>
    BY <1>1, <1>8 DEF ConnectAnswered, Advance
  <2>2. ConnectTypeOK'
    BY <1>1, <1>3, <2>1 DEF ConnectInv, ConnectTypeOK, Call
  <2>3. ListensInDialog' /\ TabsInShell'
    BY <2>1 DEF ConnectInv, ListensInDialog, TabsInShell
  <2>4. HowItCameThere'
    BY <1>3, <1>4, <2>1 DEF ConnectInv, HowItCameThere
  <2>5. PageFollowsServer'
    BY <1>3, <1>4, <2>1 DEF ConnectInv, PageFollowsServer
  <2>6. QED
    BY <2>2, <2>3, <2>4, <2>5 DEF ConnectInv
<1>9. QED
  BY <1>5, <1>6, <1>7, <1>8

\* Another window, and the tabs of the shell.
LEMMA ShellStepInv ==
  ASSUME ConnectInv,
         (\E u \in Urls \cup {NoUrl} : OtherWindow(u)) \/ EditTabs \/ TabsArrive
  PROVE  ConnectInv'
<1>1. ASSUME NEW u \in Urls \cup {NoUrl}, OtherWindow(u) PROVE ConnectInv'
  BY <1>1 DEF OtherWindow, pageVars, dialogVars, ConnectInv, ConnectTypeOK, ListensInDialog,
              PageFollowsServer, HowItCameThere, TabsInShell
<1>2. CASE EditTabs \/ TabsArrive
  <2>1. /\ screen = "shell"
        /\ UNCHANGED <<screen, reply, info, latest, connect, server, calls, overtaken,
                       field, editing, saved>>
    BY <1>2 DEF EditTabs, TabsArrive, netVars, dialogVars
  <2>2. /\ tabWork' \in [loading : BOOLEAN, edited : BOOLEAN, came : {"check", "dialog"}]
        /\ tabWork'.came = tabWork.came /\ (tabWork'.loading => tabWork.loading)
    BY <1>2 DEF EditTabs, TabsArrive, ConnectInv, ConnectTypeOK
  <2>3. QED
    BY <2>1, <2>2 DEF ConnectInv, ConnectTypeOK, ListensInDialog, PageFollowsServer,
                      HowItCameThere, TabsInShell
<1>3. QED
  BY <1>1, <1>2

\* Removing a saved connection leaves a sequence of URLs.
LEMMA RemoveInv ==
  ASSUME ConnectInv, NEW u \in Urls, HandleRemove(u)
  PROVE  ConnectInv'
<1>1. saved' \in Seq(Urls) /\ UNCHANGED <<field, editing, pageVars, netVars>>
  BY KeptPlaces DEF HandleRemove, ConnectInv, ConnectTypeOK
<1>2. QED
  BY <1>1 DEF ConnectInv, ConnectTypeOK, ListensInDialog, PageFollowsServer,
              HowItCameThere, TabsInShell, pageVars, netVars

\* The invariant is inductive.
LEMMA NextConnectInv == ConnectInv /\ [ConnectNext]_connectVars => ConnectInv'
<1> SUFFICES ASSUME ConnectInv, [ConnectNext]_connectVars PROVE ConnectInv'
  OBVIOUS
<1>1. CASE UNCHANGED connectVars
  BY <1>1 DEF connectVars, ConnectInv, ConnectTypeOK, ListensInDialog, PageFollowsServer,
              HowItCameThere, TabsInShell
<1>2. QED
  BY <1>1, LoadStepInv, DialogStepInv, CallStepInv, ShellStepInv, RemoveInv DEF ConnectNext

\* What is proved once for all about the way to a connection.
THEOREM ConnectInvariance == ConnectSpec => []ConnectInv
BY InitConnectInv, NextConnectInv, PTL DEF ConnectSpec

\* The status bar names what the server is connected to, in whatever order the
\* connects of the dialog are answered, until the server is moved by another than
\* the last of them: an earlier one carried out later, or one of another window.
THEOREM ShownIsConnected == ConnectSpec => []ShownIsServers
<1>1. ConnectInv => ShownIsServers
  BY DEF ConnectInv, PageFollowsServer, ShownIsServers
<1>2. QED
  BY ConnectInvariance, <1>1, PTL

\* A page that is loaded while the server is connected goes past the dialog, if
\* the URL has a host, the question is answered, and no other window has connected
\* the server since.
THEOREM DialogWhenNeeded == ConnectSpec => []DialogOnlyIfUnconnected
<1>1. ConnectInv => DialogOnlyIfUnconnected
  BY DEF ConnectInv, ConnectTypeOK, PageFollowsServer, HowItCameThere,
         DialogOnlyIfUnconnected, NamesHost
<1>2. QED
  BY ConnectInvariance, <1>1, PTL

\* No step takes back what the user did in the tabs, but where the dialog has let
\* him into the shell before they were loaded.
THEOREM EditsSurvive == ConnectSpec => EditsSurviveCheck
<1> DEFINE Survives == tabWork.edited /\ ~tabWork'.edited /\ screen' = "shell"
                         => tabWork.came = "dialog"
<1>1. ASSUME ConnectInv, [ConnectNext]_connectVars PROVE Survives
  <2> SUFFICES ASSUME tabWork.edited, ~tabWork'.edited, screen' = "shell"
               PROVE  tabWork.came = "dialog"
    OBVIOUS
  <2>1. screen = "shell"
    BY <1>1 DEF ConnectInv, TabsInShell, NoWork
  <2>2. tabWork' # tabWork
    OBVIOUS
  <2>3. CASE TabsArrive
    BY <1>1, <2>3 DEF ConnectInv, TabsInShell, TabsArrive
  <2>4. CASE EditTabs
    BY <2>4 DEF EditTabs
  <2>5. CASE \E n \in DOMAIN calls : ConnectAnswered(n)
    BY <2>1, <2>2, <2>5 DEF ConnectAnswered, Heard
  <2>6. ~InfoRead /\ ~InfoArrives /\ ~TabsRestored /\ ~Reload
    BY <2>1 DEF InfoRead, InfoArrives, TabsRestored, Reload
  <2>7. /\ ~PressEnter /\ ~PressConnect /\ ~StartSave /\ ~ConfirmSave /\ ~CancelSave
        /\ \A u \in Urls : ~ClickSaved(u) /\ ~HandleRemove(u)
        /\ \A u \in Urls \cup {NoUrl} : ~TypeUrl(u)
    BY <2>1 DEF PressEnter, PressConnect, StartSave, ConfirmSave, CancelSave, ClickSaved,
                HandleRemove, TypeUrl
  <2>8. /\ \A u \in Urls \cup {NoUrl} : ~OtherWindow(u)
        /\ \A n \in DOMAIN calls : ~ServerSwapsFor(n) /\ ~DialRefused(n) /\ ~ConnectFailed(n)
        /\ ~UNCHANGED connectVars
    BY <2>2 DEF OtherWindow, ServerSwapsFor, DialRefused, ConnectFailed, pageVars, connectVars
  <2>9. QED
    BY <1>1, <2>3, <2>4, <2>5, <2>6, <2>7, <2>8 DEF ConnectNext
<1>2. ConnectInv /\ [ConnectNext]_connectVars => [Survives]_connectVars
  BY <1>1
<1>3. QED
  BY ConnectInvariance, <1>2, PTL DEF ConnectSpec, EditsSurviveCheck

\* The list of saved connections: what is appended is not in it, what is removed
\* leaves the others as they are.
LEMMA NextEditingUnsaved ==
  ConnectInv /\ EditingUnsaved /\ [ConnectNext]_connectVars => EditingUnsaved'
<1> SUFFICES ASSUME ConnectInv, EditingUnsaved, [ConnectNext]_connectVars
             PROVE  EditingUnsaved'
  OBVIOUS
<1>1. /\ saved \in Seq(Urls) /\ DOMAIN saved = 1 .. Len(saved) /\ Len(saved) \in Nat
      /\ NoUrl \notin Urls /\ \A i \in DOMAIN saved : saved[i] \in Urls
  BY ConnectConstants DEF ConnectInv, ConnectTypeOK
<1>2. ~IsSaved(NoUrl)
  BY <1>1 DEF IsSaved
<1>3. ASSUME UNCHANGED saved, editing' \in {editing, NoUrl} PROVE EditingUnsaved'
  BY <1>2, <1>3 DEF EditingUnsaved, SavedOnce, IsSaved
<1>4. CASE StartSave
  BY <1>4 DEF StartSave, EditingUnsaved, SavedOnce, IsSaved
<1>5. CASE ConfirmSave
  <2>1. /\ editing \in Urls /\ editing' = NoUrl
        /\ saved' = Append(saved, editing)
    BY <1>5 DEF ConfirmSave, ConnectInv, ConnectTypeOK
  <2>2. /\ DOMAIN saved' = 1 .. Len(saved) + 1 /\ saved'[Len(saved) + 1] = editing
        /\ \A i \in DOMAIN saved : saved'[i] = saved[i]
        /\ \A i \in DOMAIN saved' : i = Len(saved) + 1 \/ i \in DOMAIN saved
    BY <1>1, <2>1
  <2>3. QED
    BY <1>1, <2>1, <2>2 DEF EditingUnsaved, SavedOnce, IsSaved
<1>6. ASSUME NEW u \in Urls, HandleRemove(u) PROVE EditingUnsaved'
  <2>1. saved' = Kept(saved, Urls \ {u}) /\ editing' = editing
    BY <1>6 DEF HandleRemove
  <2>2. SavedOnce'
    BY <1>1, <2>1, KeptPairs DEF EditingUnsaved, SavedOnce
  <2>3. ~IsSaved(editing)'
    <3>1. \A i \in DOMAIN saved' : \E a \in DOMAIN saved : saved'[i] = saved[a]
      BY <1>1, <2>1, KeptPairs
    <3>2. QED
      BY <2>1, <3>1 DEF EditingUnsaved, IsSaved
  <2>4. QED
    BY <2>2, <2>3 DEF EditingUnsaved
<1>7. ASSUME NEW n \in DOMAIN calls,
             ServerSwapsFor(n) \/ DialRefused(n) \/ ConnectAnswered(n) \/ ConnectFailed(n)
      PROVE  UNCHANGED saved /\ editing' \in {editing, NoUrl}
  BY <1>7 DEF ServerSwapsFor, DialRefused, ConnectAnswered, ConnectFailed, dialogVars
<1>8. ASSUME InfoRead \/ InfoArrives \/ TabsRestored \/ Reload \/ EditTabs \/ TabsArrive
      PROVE  UNCHANGED saved /\ editing' \in {editing, NoUrl}
  BY <1>8 DEF InfoRead, InfoArrives, TabsRestored, Reload, EditTabs, TabsArrive, dialogVars
<1>9. ASSUME \/ PressEnter \/ PressConnect \/ CancelSave
             \/ \E u \in Urls : ClickSaved(u)
             \/ \E u \in Urls \cup {NoUrl} : TypeUrl(u) \/ OtherWindow(u)
             \/ UNCHANGED connectVars
      PROVE  UNCHANGED saved /\ editing' \in {editing, NoUrl}
  BY <1>9 DEF PressEnter, PressConnect, Send, CancelSave, ClickSaved, TypeUrl, OtherWindow,
              dialogVars, connectVars
<1>10. QED
  BY <1>3, <1>4, <1>5, <1>6, <1>7, <1>8, <1>9 DEF ConnectNext

\* The name editor is never open for a saved connection.
THEOREM EditingNotSaved == ConnectSpec => []EditingUnsaved
<1>1. ConnectInit => EditingUnsaved
  BY DEF ConnectInit, EditingUnsaved, SavedOnce, IsSaved
<1>2. QED
  BY ConnectInvariance, NextEditingUnsaved, <1>1, PTL DEF ConnectSpec

\* No connection is saved twice.
THEOREM ConnectionsOnce == ConnectSpec => []SavedOnce
<1>1. EditingUnsaved => SavedOnce
  BY DEF EditingUnsaved
<1>2. QED
  BY <1>1, EditingNotSaved, PTL

(***************************************************************************)
(* SideLists.                                                              *)
(***************************************************************************)
DottedNames == Seq(NameParts) \ {<<>>}

\* Names are sequences of parts, of one at least, and so is what they are put
\* together to.
LEMMA NamesTyped ==
  /\ \A o \in AllObjects : /\ o.schema \in DottedNames /\ o.name \in DottedNames
                           /\ QualifiedName(o) \in DottedNames
  /\ Public \in NameParts /\ TableNames \subseteq DottedNames
  /\ References \subseteq DottedNames
<1>1. Public \in NameParts
  BY DEF NameParts
<1>2. \A o \in AllObjects : o.schema \in DottedNames /\ o.name \in DottedNames
  BY ObjectsTyped DEF DottedNames
<1>3. \A m, n \in DottedNames : m \o n \in DottedNames
  BY DEF DottedNames
<1>4. \A o \in AllObjects : QualifiedName(o) \in DottedNames
  BY <1>2, <1>3 DEF QualifiedName
<1>5. TableNames \subseteq DottedNames
  BY <1>4 DEF TableNames
<1>6. \A n \in TableNames : <<Public>> \o n \in DottedNames
  <2>1. <<Public>> \in DottedNames
    BY <1>1 DEF DottedNames
  <2>2. QED
    BY <1>3, <1>5, <2>1
<1>7. References \subseteq DottedNames
  BY <1>5, <1>6 DEF References
<1>8. QED
  BY <1>1, <1>2, <1>4, <1>5, <1>7

\* What the server splits a name into, and that it is a pair of names.
LEMMA SplitNameTyped ==
  ASSUME NEW n \in DottedNames
  PROVE  SplitName(n) \in [schema : Seq(NameParts), name : Seq(NameParts)]
<1>1. n \in Seq(NameParts) /\ Len(n) \in Nat /\ Len(n) # 0 /\ n[1] \in NameParts
      /\ Tail(n) \in Seq(NameParts)
  BY DEF DottedNames
<1>2. <<Public>> \in Seq(NameParts) /\ <<n[1]>> \in Seq(NameParts)
  BY <1>1, NamesTyped
<1>3. QED
  BY <1>1, <1>2 DEF SplitName

\* Two names are split alike only if they are one, up to a schema public that one
\* of them spells out.
LEMMA SplitAlike ==
  ASSUME NEW m \in DottedNames, NEW n \in DottedNames, SplitName(m) = SplitName(n)
  PROVE  \/ m = n
         \/ Len(n) = 1 /\ m = <<Public>> \o n
         \/ Len(m) = 1 /\ n = <<Public>> \o m
<1>1. /\ m \in Seq(NameParts) /\ n \in Seq(NameParts)
      /\ Len(m) \in Nat \ {0} /\ Len(n) \in Nat \ {0}
  BY DEF DottedNames
<1>2. \A k \in {m, n} : k = <<k[1]>> \o Tail(k)
  BY <1>1
<1>3. CASE Len(m) = 1 /\ Len(n) = 1
  BY <1>3 DEF SplitName
<1>4. CASE Len(m) = 1 /\ Len(n) # 1
  <2>1. <<Public>> = <<n[1]>> /\ m = Tail(n)
    BY <1>4 DEF SplitName
  <2>2. QED
    BY <1>2, <1>4, <2>1
<1>5. CASE Len(m) # 1 /\ Len(n) = 1
  <2>1. <<m[1]>> = <<Public>> /\ Tail(m) = n
    BY <1>5 DEF SplitName
  <2>2. QED
    BY <1>2, <1>5, <2>1
<1>6. CASE Len(m) # 1 /\ Len(n) # 1
  <2>1. <<m[1]>> = <<n[1]>> /\ Tail(m) = Tail(n)
    BY <1>6 DEF SplitName
  <2>2. QED
    BY <1>2, <2>1
<1>7. QED
  BY <1>3, <1>4, <1>5, <1>6

\* Spelling out the schema public does not change what a name is split into.
LEMMA SplitPublic ==
  ASSUME NEW n \in DottedNames, Len(n) = 1
  PROVE  SplitName(<<Public>> \o n) = SplitName(n)
<1>1. <<Public>> \in Seq(NameParts) /\ n \in Seq(NameParts)
  BY NamesTyped DEF DottedNames
<1> DEFINE p == <<Public>> \o n
<1>2. /\ p \in Seq(NameParts) /\ Len(p) = 2 /\ p[1] = Public /\ p[2] = n[1]
  BY <1>1, ConcatProperties
<1> HIDE DEF p
<1>3. Tail(p) \in Seq(NameParts) /\ Len(Tail(p)) = 1 /\ Tail(p)[1] = n[1]
  BY <1>2
<1>4. Tail(p) = n
  <2>1. \A i \in 1 .. Len(n) : Tail(p)[i] = n[i]
    BY <1>1, <1>3
  <2>2. Len(Tail(p)) = Len(n)
    BY <1>3
  <2>3. QED
    BY <1>1, <1>3, <2>1, <2>2, SeqEqual
<1>5. SplitName(p) = SplitName(n)
  <2>1. SplitName(p) = [schema |-> <<p[1]>>, name |-> Tail(p)]
    BY <1>2 DEF SplitName
  <2>2. SplitName(n) = [schema |-> <<Public>>, name |-> n]
    BY DEF SplitName
  <2>3. QED
    BY <1>2, <1>4, <2>1, <2>2
<1>6. QED
  BY <1>5 DEF p

\* What is cached is cached under its name.
THEOREM CacheUnderNames == SideSpec => []CachedUnderItsName
<1>1. SideInit => CachedUnderItsName
  BY DEF SideInit, CachedUnderItsName
<1>2. CachedUnderItsName /\ [SideNext]_sideVars => CachedUnderItsName'
  <2> SUFFICES ASSUME CachedUnderItsName, [SideNext]_sideVars PROVE CachedUnderItsName'
    OBVIOUS
  <2>1. CASE ColumnsAnswered
    BY <2>1 DEF ColumnsAnswered, CachedUnderItsName
  <2>2. ASSUME UNCHANGED columns PROVE CachedUnderItsName'
    BY <2>2 DEF CachedUnderItsName
  <2>3. ASSUME SideNext, ~ColumnsAnswered PROVE UNCHANGED columns
    BY <2>3 DEF SideNext, ObjectsAnswered, SchemasAnswered, SetSection, SelectSchema, TypeSearch,
                ToggleGroup, ClickRow, LeaveObject
  <2>4. CASE UNCHANGED sideVars
    BY <2>2, <2>4 DEF sideVars
  <2>5. QED
    BY <2>1, <2>2, <2>3, <2>4
<1>3. QED
  BY <1>1, <1>2, PTL DEF SideSpec

\* The columns that are offered after a reference are those of the table it means;
\* and if its columns were read they are offered, but for the schema public.
THEOREM ColumnsOfReference == SideSpec => []ColumnsAreOfReference
<1>1. ASSUME CachedUnderItsName, NEW ref \in References
      PROVE  /\ Offered(ref) \subseteq {Meant(ref)}
             /\ Meant(ref) \in {columns[n] : n \in TableNames} =>
                  Meant(ref) \in Offered(ref) \/ ref[1] = Public
  <2>1. /\ ref \in DottedNames /\ Len(ref) \in Nat \ {0} /\ TableNames \subseteq DottedNames
        /\ DOMAIN columns = TableNames
        /\ \A n \in TableNames : columns[n] \in {SplitName(n), NotRead}
    BY <1>1, NamesTyped DEF DottedNames, CachedUnderItsName
  <2>2. \A n \in LookupNames(ref) : SplitName(n) = SplitName(ref)
    BY <2>1, SplitPublic DEF LookupNames
  <2>3. Offered(ref) \subseteq {Meant(ref)}
    BY <2>1, <2>2 DEF Offered, Meant
  <2>4. ASSUME NEW n \in TableNames, columns[n] = Meant(ref), ref[1] # Public
        PROVE  Meant(ref) \in Offered(ref)
    <3>1. Meant(ref) # NotRead
      BY <2>1, SplitNameTyped, NotReadDistinct DEF Meant
    <3>2. SplitName(n) = SplitName(ref)
      BY <2>1, <2>4, <3>1 DEF Meant
    <3>3. n = ref \/ (Len(ref) = 1 /\ n = <<Public>> \o ref) \/ (Len(n) = 1 /\ ref = <<Public>> \o n)
      BY <2>1, <3>2, SplitAlike
    <3>4. ref # <<Public>> \o n
      <4>1. <<Public>> \in Seq(NameParts) /\ n \in Seq(NameParts)
        BY <2>1, NamesTyped DEF DottedNames
      <4>2. (<<Public>> \o n)[1] = Public
        BY <4>1
      <4>3. QED
        BY <2>4, <4>2
    <3>5. n \in LookupNames(ref)
      BY <3>3, <3>4 DEF LookupNames
    <3>6. QED
      BY <2>1, <2>4, <3>1, <3>5 DEF Offered
  <2>5. QED
    BY <2>3, <2>4
<1>2. CachedUnderItsName => ColumnsAreOfReference
  BY <1>1 DEF ColumnsAreOfReference
<1>3. QED
  BY CacheUnderNames, <1>2, PTL

\* The server reads the name of an object as the object, if and only if there is
\* no dot in its schema's name, nor in its own if it is in public.
LEMMA SplitQualified ==
  ASSUME NEW o \in AllObjects
  PROVE  SplitName(QualifiedName(o)) = [schema |-> o.schema, name |-> o.name] <=> Plain(o)
<1> DEFINE s == o.schema
           n == o.name
<1>1. /\ s \in Seq(NameParts) /\ n \in Seq(NameParts)
      /\ Len(s) \in Nat \ {0} /\ Len(n) \in Nat \ {0}
  <2>1. s \in DottedNames /\ n \in DottedNames
    BY NamesTyped
  <2>2. QED
    BY <2>1 DEF DottedNames
<1>2. CASE s = <<Public>>
  <2>1. SplitName(QualifiedName(o)) = SplitName(n) /\ (Plain(o) <=> Len(n) = 1)
    BY <1>2 DEF QualifiedName, Plain
  <2>2. CASE Len(n) = 1
    BY <1>2, <2>1, <2>2 DEF SplitName
  <2>3. CASE Len(n) # 1
    <3>1. SplitName(n).name = Tail(n) /\ Len(Tail(n)) = Len(n) - 1
      BY <1>1, <2>3 DEF SplitName
    <3>2. Tail(n) # n
      <4>1. Len(Tail(n)) # Len(n)
        BY <1>1, <3>1
      <4>2. QED
        BY <4>1
    <3>3. [schema |-> o.schema, name |-> o.name].name = n
      OBVIOUS
    <3>4. QED
      BY <2>1, <2>3, <3>1, <3>2, <3>3
  <2>4. QED
    BY <2>2, <2>3
<1>3. CASE s # <<Public>>
  <2> DEFINE q == s \o n
  <2>1. QualifiedName(o) = q /\ (Plain(o) <=> Len(s) = 1)
    BY <1>3 DEF QualifiedName, Plain
  <2>2. /\ q \in Seq(NameParts) /\ Len(q) = Len(s) + Len(n) /\ q[1] = s[1]
        /\ \A i \in 1 .. Len(n) : q[Len(s) + i] = n[i]
    <3>1. /\ q \in Seq(NameParts) /\ Len(q) = Len(s) + Len(n)
          /\ \A i \in 1 .. Len(s) + Len(n) :
               q[i] = IF i <= Len(s) THEN s[i] ELSE n[i - Len(s)]
      <4> HIDE DEF s, n
      <4> QED
        BY <1>1, ConcatProperties
    <3> HIDE DEF s, n, q
    <3>2. q[1] = s[1]
      BY <1>1, <3>1
    <3>3. ASSUME NEW i \in 1 .. Len(n) PROVE q[Len(s) + i] = n[i]
      <4>1. /\ Len(s) + i \in 1 .. Len(s) + Len(n)
            /\ ~(Len(s) + i <= Len(s)) /\ (Len(s) + i) - Len(s) = i
        BY <1>1
      <4>2. q[Len(s) + i] = n[(Len(s) + i) - Len(s)]
        BY <3>1, <4>1
      <4>3. QED
        BY <4>1, <4>2
    <3>4. QED
      BY <3>1, <3>2, <3>3
  <2> HIDE DEF q
  <2>3. SplitName(q) = [schema |-> <<s[1]>>, name |-> Tail(q)]
    <3>1. Len(q) # 1
      <4> HIDE DEF s, n
      <4> QED
        BY <1>1, <2>2
    <3>2. <<q[1]>> = <<s[1]>>
      BY <2>2
    <3>3. QED
      BY <3>1, <3>2 DEF SplitName
  <2>4. CASE Len(s) = 1
    <3>1. s = <<s[1]>>
      BY <1>1, <2>4
    <3>2. Tail(q) = n
      <4>1. Tail(q) \in Seq(NameParts) /\ Len(Tail(q)) = Len(n)
        BY <1>1, <2>2, <2>4
      <4>2. \A i \in 1 .. Len(n) : Tail(q)[i] = n[i]
        <5>1. \A i \in 1 .. Len(n) : Tail(q)[i] = q[1 + i]
          BY <1>1, <2>2, <2>4
        <5>2. QED
          BY <2>2, <2>4, <5>1
      <4> HIDE DEF n
      <4>3. QED
        BY <1>1, <4>1, <4>2, SeqEqual
    <3>3. QED
      BY <2>1, <2>3, <2>4, <3>1, <3>2
  <2>5. CASE Len(s) # 1
    <3>1. <<s[1]>> # s
      <4>1. Len(<<s[1]>>) = 1
        OBVIOUS
      <4>2. QED
        BY <2>5, <4>1
    <3>2. /\ SplitName(q).schema = <<s[1]>>
          /\ [schema |-> o.schema, name |-> o.name].schema = s
      BY <2>3
    <3>3. QED
      BY <2>1, <2>5, <3>1, <3>2
  <2>6. QED
    BY <2>4, <2>5
<1>4. QED
  BY <1>2, <1>3

\* The inductive invariant.
SideInv == SideTypeOK /\ TabOfRow

\* The initial states satisfy the invariant.
LEMMA InitSideInv == SideInit => SideInv
BY DEF SideInit, SideInv, SideTypeOK, TabOfRow

\* Every step keeps the invariant.
LEMMA NextSideInv == SideInv /\ [SideNext]_sideVars => SideInv'
<1> SUFFICES ASSUME SideInv, [SideNext]_sideVars PROVE SideInv'
  OBVIOUS
<1> USE DEF SideInv, SideTypeOK, TabOfRow
<1>1. ASSUME NEW d \in CatalogueDbs, ObjectsAnswered(d) \/ SchemasAnswered(d) PROVE SideInv'
  BY <1>1 DEF ObjectsAnswered, SchemasAnswered
<1>2. ASSUME NEW s \in {"objects", "saved", "history"}, SetSection(s) PROVE SideInv'
  BY <1>2 DEF SetSection
<1>3. ASSUME NEW s \in PartsOf(Schemas[schemasOf]), SelectSchema(s) PROVE SideInv'
  BY <1>3 DEF SelectSchema
<1>4. ASSUME NEW text \in SearchTexts \cup {NoText}, TypeSearch(text) PROVE SideInv'
  BY <1>4 DEF TypeSearch
<1>5. ASSUME NEW o \in Heads, ToggleGroup(o) PROVE SideInv'
  <2>1. o \in AllObjects
    BY DEF Heads, AllObjects
  <2>2. collapsed' \subseteq {<<p.schema, p.type>> : p \in AllObjects}
    BY <1>5, <2>1 DEF ToggleGroup
  <2>3. QED
    BY <1>5, <2>2 DEF ToggleGroup
<1>6. ASSUME NEW o \in Rows, ClickRow(o) PROVE SideInv'
  <2>1. o \in AllObjects /\ o.type \in TableLike \cup {"functions"}
    BY <1>6 DEF Rows, AllObjects, ClickRow
  <2>2. /\ openTab'.of = o /\ openTab'.name = QualifiedName(o)
        /\ openTab'.type = IF o.type = "functions" THEN "function" ELSE "table"
    BY <1>6 DEF ClickRow
  <2>3. openTab'.type = "table" => openTab'.name \in TableNames
    BY <2>1, <2>2 DEF TableNames
  <2>4. /\ UNCHANGED <<objectsOf, schemasOf, selectedSchema, search, collapsed, section, columns>>
    BY <1>6 DEF ClickRow
  <2>5. TabOfRow'
    BY <2>1, <2>2
  <2>6. SideTypeOK'
    BY <2>1, <2>2, <2>3, <2>4
  <2>7. QED
    BY <2>5, <2>6
<1>7. CASE LeaveObject
  BY <1>7 DEF LeaveObject
<1>8. CASE ColumnsAnswered
  <2>1. openTab.name \in TableNames /\ SplitName(openTab.name) \in ReadTables
    BY <1>8 DEF ColumnsAnswered, ReadTables
  <2>2. columns' \in [TableNames -> ReadTables \cup {NotRead}]
    BY <1>8, <2>1 DEF ColumnsAnswered
  <2>3. QED
    BY <1>8, <2>2 DEF ColumnsAnswered
<1>9. CASE UNCHANGED sideVars
  BY <1>9 DEF sideVars
<1>10. QED
  BY <1>1, <1>2, <1>3, <1>4, <1>5, <1>6, <1>7, <1>8, <1>9 DEF SideNext

\* The inductive invariant of SideLists.
THEOREM SideInvariance == SideSpec => []SideInv
BY InitSideInv, NextSideInv, PTL DEF SideSpec

\* A click makes the server read the object that was clicked, exactly if its name
\* survives being written with dots, for any catalogue (client.go:650).
THEOREM ReadsClicked == SideSpec => []ReadsWhatWasClicked
<1>1. SideInv => ReadsWhatWasClicked
  BY SplitQualified DEF SideInv, TabOfRow, ReadsWhatWasClicked
<1>2. QED
  BY <1>1, SideInvariance, PTL

\* The row that is highlighted is the object the active tab reads (Sidebar.tsx:177).
THEOREM HighlightNames == SideSpec => []HighlightNamesTab
<1>1. ASSUME SideInv, NEW o \in Rows
      PROVE  /\ IsActive(o) /\ Plain(o) =>
                  SplitName(openTab.name) = [schema |-> o.schema, name |-> o.name]
             /\ openTab # NoTab /\ openTab.of = o => IsActive(o)
  <2>1. o \in AllObjects
    BY <1>1 DEF SideInv, SideTypeOK, Rows, AllObjects
  <2>2. QED
    BY <1>1, <2>1, SplitQualified DEF SideInv, TabOfRow, IsActive
<1>2. SideInv => HighlightNamesTab
  BY <1>1 DEF HighlightNamesTab
<1>3. QED
  BY <1>2, SideInvariance, PTL

\* The rows are of the schema that the selector shows, also when the selected one
\* is not in the database (Sidebar.tsx:46).
THEOREM ShownSchema == SideSpec => []ListIsOfShownSchema
<1>1. SideInv => ListIsOfShownSchema
  BY SchemasListed DEF SideInv, SideTypeOK, ListIsOfShownSchema, Rows, InGroup, Shown
<1>2. QED
  BY <1>1, SideInvariance, PTL

(***************************************************************************)
(* The parts together, as cache_switch runs them.                          *)
(***************************************************************************)
\* A behaviour of all is one of each part.
LEMMA SidesParts == SidesSpec => Spec /\ ConnectSpec /\ SideSpec
<1>1. SidesInit => Init /\ ConnectInit /\ SideInit
  BY DEF SidesInit
<1>2. [SidesNext]_<<part, vars, connectVars, sideVars>>
        => [Next]_vars /\ [ConnectNext]_connectVars /\ [SideNext]_sideVars
  BY DEF SidesNext
<1>3. QED
  BY <1>1, <1>2, PTL DEF SidesSpec, Spec, ConnectSpec, SideSpec

\* What the parts keep beside the properties named above.
THEOREM SidesKept == SidesSpec => []SidesInv
<1>1. CacheInv /\ ConnectInv /\ DialogOnlyIfUnconnected /\ EditingUnsaved /\ SideInv
        /\ CachedUnderItsName /\ ReadsWhatWasClicked /\ HighlightNamesTab
        /\ ListIsOfShownSchema => SidesInv
  BY DEF SideInv, SidesInv
<1>2. QED
  BY <1>1, SidesParts, CacheInvariance, ConnectInvariance, DialogWhenNeeded, EditingNotSaved,
     SideInvariance, CacheUnderNames, ReadsClicked, HighlightNames, ShownSchema, PTL
=============================================================================
