----------------------------- MODULE PanelProofs ----------------------------
(***************************************************************************)
(* Safety of what is below TabPanel: EditorPanel for any tabs,             *)
(* AiPanel for any conversations, TableView for any tables, any numbers of *)
(* rows and any heights, QueryPanel for any tabs and calls under way, and  *)
(* TreeViews for plans of any length and documents of any depth.           *)
(***************************************************************************)
EXTENDS MCPanel, FilterTheorems, FiniteSetTheorems

(***************************************************************************)
(* EditorPanel.                                                            *)
(***************************************************************************)
EditorInv == EditorTypeOK /\ TitleIsOfTab /\ SaveIsOfOneTab

\* The initial states satisfy the invariant.
LEMMA InitEditorInv == EditorInit => EditorInv
BY DEF EditorInit, EditorInv, EditorTypeOK, TitleIsOfTab, SaveIsOfOneTab, DialogOpen

\* Every step of the panel and of its dialog keeps the invariant.
LEMMA NextEditorInv == EditorInv /\ [EditorNext]_editorVars => EditorInv'
<1> SUFFICES ASSUME EditorInv, [EditorNext]_editorVars PROVE EditorInv'
  OBVIOUS
<1> USE EditorConstants DEF EditorInv, EditorTypeOK, TitleIsOfTab, SaveIsOfOneTab, DialogOpen,
        DialogFor, SavedIdOf
<1>1. ASSUME NEW t \in EditorTabs, ShowTab(t) PROVE EditorInv'
  <2>1. CASE UNCHANGED dialog
    BY <1>1, <2>1 DEF ShowTab
  <2>2. CASE dialog' = DialogFor(t)
    <3>1. DialogFor(t) \in [of : EditorTabs, title : EditorTabs \cup {NewQuery}, pending : BOOLEAN]
      BY <1>1
    <3>2. EditorTypeOK'
      BY <1>1, <2>2, <3>1 DEF ShowTab
    <3>3. TitleIsOfTab'
      BY <2>2
    <3>4. SaveIsOfOneTab'
      BY <1>1 DEF ShowTab
    <3>5. QED
      BY <3>2, <3>3, <3>4
  <2>3. QED
    BY <1>1, <2>1, <2>2 DEF ShowTab
<1>2. CASE OpenSave
  BY <1>2 DEF OpenSave
<1>3. CASE TypeTitle
  BY <1>3 DEF TypeTitle
<1>4. CASE SaveIt
  <2>1. EditorTypeOK' /\ TitleIsOfTab'
    BY <1>4 DEF SaveIt
  <2>2. SaveIsOfOneTab'
    BY <1>4 DEF SaveIt
  <2>3. QED
    BY <2>1, <2>2
<1>5. CASE SaveAnswered
  BY <1>5 DEF SaveAnswered
<1>6. CASE CloseSave
  BY <1>6 DEF CloseSave
<1>7. CASE UNCHANGED editorVars
  BY <1>7 DEF editorVars
<1>8. QED
  BY <1>1, <1>2, <1>3, <1>4, <1>5, <1>6, <1>7 DEF EditorNext

\* What is proved once for all about the panel's tabs and the save dialog: what a
\* save puts together, and where the dialog's title comes from.
THEOREM EditorInvariance == EditorSpec => []EditorInv
BY InitEditorInv, NextEditorInv, PTL DEF EditorSpec

\* No saved query gets the SQL of another tab, whichever tabs come up behind the
\* dialog, nor the title of another unless one did.
THEOREM SaveOfOneTab == EditorSpec => []SaveIsOfOneTab
<1>1. EditorInv => SaveIsOfOneTab
  BY DEF EditorInv
<1>2. QED
  BY EditorInvariance, <1>1, PTL

(***************************************************************************)
(* AiPanel.                                                                *)
(***************************************************************************)
AiInv == AiTypeOK /\ ContextStays /\ ErrorOfNewestQuestion /\ TurnsFollowEachOther

\* The initial states satisfy the invariant.
LEMMA InitAiInv == AiInit => AiInv
BY DEF AiInit, AiInv, AiTypeOK, ContextStays, ErrorOfNewestQuestion, TurnsFollowEachOther

\* One more turn: it was asked after those that are there.
LEMMA AppendInv ==
  ASSUME AiInv, NEW sql \in Replies, ReplyArrives(sql)
  PROVE  AiInv'
<1>1. CASE asking.tab \notin opened
  BY <1>1 DEF ReplyArrives, chatVars, AiInv, AiTypeOK, ContextStays, ErrorOfNewestQuestion,
              TurnsFollowEachOther
<1>2. CASE asking.tab \in opened
  <2> DEFINE u == asking.tab
             turn == Turn(sql)
             s == turnsOf[u]
  <2>1. /\ u \in AiTabs /\ s \in Seq(Turns) /\ Len(s) \in Nat
        /\ turnsOf \in [AiTabs -> Seq(Turns)] /\ turnIndex \in [AiTabs -> Nat]
    BY <1>2 DEF ReplyArrives, AiInv, AiTypeOK
  <2>2. turn \in Turns /\ turn.askedIn = u /\ turn.after = Len(s) /\ turn.sql = sql
    BY <1>2, <2>1 DEF ReplyArrives, AiInv, AiTypeOK, ContextStays, Context, Turn, Turns
  <2>3. /\ turnsOf' = [turnsOf EXCEPT ![u] = Append(s, turn)]
        /\ turnIndex' = [turnIndex EXCEPT ![u] = Len(s) + 1]
        /\ editorSql' = [editorSql EXCEPT ![u] = sql]
        /\ asking' = NoTab /\ UNCHANGED <<seen, opened, draft, aiError>>
    BY <1>2 DEF ReplyArrives, AppendAiTurn
  <2> HIDE DEF u, turn, s
  <2>4. /\ Append(s, turn) \in Seq(Turns) /\ Len(Append(s, turn)) = Len(s) + 1
        /\ Append(s, turn)[Len(s) + 1] = turn
        /\ \A i \in 1 .. Len(s) : Append(s, turn)[i] = s[i]
        /\ Append(s, turn) # <<>>
    <3>1. s \in Seq(Turns) /\ turn \in Turns /\ Len(s) \in Nat
      BY <2>1, <2>2
    <3>2. QED
      BY <3>1, AppendProperties
  <2>5. /\ turnsOf'[u] = Append(s, turn) /\ turnIndex'[u] = Len(s) + 1
        /\ \A t \in AiTabs \ {u} : turnsOf'[t] = turnsOf[t] /\ turnIndex'[t] = turnIndex[t]
    BY <2>1, <2>3
  <2>6. AiTypeOK'
    <3>1. turnsOf' \in [AiTabs -> Seq(Turns)] /\ turnIndex' \in [AiTabs -> Nat]
      BY <2>1, <2>3, <2>4
    <3>2. \A t \in AiTabs : IF turnsOf'[t] = <<>> THEN turnIndex'[t] = 0
                            ELSE turnIndex'[t] \in 1 .. Len(turnsOf'[t])
      BY <2>1, <2>4, <2>5 DEF AiInv, AiTypeOK
    <3>3. QED
      BY <2>1, <2>3, <3>1, <3>2 DEF AiInv, AiTypeOK
  <2>7. ContextStays' /\ ErrorOfNewestQuestion'
    BY <2>3 DEF ContextStays, ErrorOfNewestQuestion
  <2>8. TurnsFollowEachOther'
    <3> SUFFICES ASSUME NEW t \in AiTabs, NEW i \in 1 .. Len(turnsOf'[t])
                 PROVE  turnsOf'[t][i].askedIn = t /\ turnsOf'[t][i].after = i - 1
      BY DEF TurnsFollowEachOther
    <3>1. CASE t # u
      BY <2>5, <3>1 DEF AiInv, TurnsFollowEachOther
    <3>2. CASE t = u /\ i \in 1 .. Len(s)
      <4>1. turnsOf'[t][i] = turnsOf[t][i] /\ i \in 1 .. Len(turnsOf[t])
        BY <2>4, <2>5, <3>2 DEF s
      <4>2. QED
        BY <4>1 DEF AiInv, TurnsFollowEachOther
    <3>3. CASE t = u /\ i = Len(s) + 1
      BY <2>1, <2>2, <2>4, <2>5, <3>3
    <3>4. QED
      BY <2>1, <2>4, <2>5, <3>1, <3>2, <3>3
  <2>9. QED
    BY <2>6, <2>7, <2>8 DEF AiInv
<1>3. QED
  BY <1>1, <1>2

\* Every step keeps the invariant.
LEMMA NextAiInv == AiInv /\ [AiNext]_aiVars => AiInv'
<1> SUFFICES ASSUME AiInv, [AiNext]_aiVars PROVE AiInv'
  OBVIOUS
<1> USE DEF AiInv, AiTypeOK, ContextStays, ErrorOfNewestQuestion, TurnsFollowEachOther, Context
<1>1. CASE TypePrompt
  BY <1>1 DEF TypePrompt, chatVars
<1>2. CASE Submit
  BY <1>2, AiConstants DEF Submit, chatVars
<1>3. ASSUME NEW sql \in Replies, ReplyArrives(sql) PROVE AiInv'
  BY <1>3, AppendInv
<1>4. CASE ReplyFails
  BY <1>4 DEF ReplyFails, chatVars
<1>5. ASSUME NEW i \in 1 .. MaxTurns + 1, Navigate(i) PROVE AiInv'
  <2>1. seen \in AiTabs /\ turnsOf[seen] # <<>>
    BY <1>5, AiConstants DEF Navigate, ChatShows
  <2>2. turnsOf[seen][i] \in Turns
    BY <1>5, <2>1 DEF Navigate
  <2>3. QED
    <3>1. turnsOf[seen][i].sql \in Replies
      BY <2>2 DEF Turns
    <3>2. QED
      BY <1>5, <2>1, <3>1 DEF Navigate
<1>6. CASE TypeSql
  BY <1>6 DEF TypeSql
<1>7. ASSUME NEW t \in AiTabs \cup {NoTab}, Activate(t) PROVE AiInv'
  BY <1>7 DEF Activate, chatVars
<1>8. ASSUME NEW t \in AiTabs, CloseAiTab(t) PROVE AiInv'
  BY <1>8 DEF CloseAiTab
<1>9. CASE ReloadPanel
  BY <1>9 DEF ReloadPanel, chatVars
<1>10. CASE UNCHANGED aiVars
  BY <1>10 DEF aiVars
<1>11. QED
  BY <1>1, <1>2, <1>3, <1>4, <1>5, <1>6, <1>7, <1>8, <1>9, <1>10 DEF AiNext

\* What is proved once for all about conversations.
THEOREM AiInvariance == AiSpec => []AiInv
BY InitAiInv, NextAiInv, PTL DEF AiSpec

\* Every turn of a conversation is of its tab, and was asked with exactly the turns
\* before it, however tabs are activated and closed while the model is thinking.
THEOREM OneConversation == AiSpec => []TurnsFollowEachOther
<1>1. AiInv => TurnsFollowEachOther
  BY DEF AiInv
<1>2. QED
  BY AiInvariance, <1>1, PTL

\* The editor has the SQL of the turn on the screen, unless the user has typed
\* since.
THEOREM EditorFollows == AiSpec => []EditorShowsTurn
<1>1. AiInit => EditorShowsTurn
  BY DEF AiInit, EditorShowsTurn
<1>2. ASSUME AiInv, EditorShowsTurn, [AiNext]_aiVars PROVE EditorShowsTurn'
  <2> USE DEF AiInv, AiTypeOK
  <2>1. ASSUME NEW sql \in Replies, ReplyArrives(sql), asking.tab \in opened
        PROVE  EditorShowsTurn'
    <3> DEFINE u == asking.tab
               turn == Turn(sql)
    <3>1. u \in AiTabs /\ turnsOf[u] \in Seq(Turns) /\ Len(turnsOf[u]) \in Nat
      BY <1>2, <2>1
    <3>2. turn \in Turns /\ turn.sql = sql
      BY <1>2, <2>1, <3>1 DEF ReplyArrives, Turn, Turns
    <3>3. /\ turnsOf' = [turnsOf EXCEPT ![u] = Append(turnsOf[u], turn)]
          /\ turnIndex' = [turnIndex EXCEPT ![u] = Len(turnsOf[u]) + 1]
          /\ editorSql' = [editorSql EXCEPT ![u] = sql]
      BY <2>1 DEF ReplyArrives, AppendAiTurn
    <3> HIDE DEF u, turn
    <3>4. Append(turnsOf[u], turn)[Len(turnsOf[u]) + 1] = turn
      BY <3>1, <3>2, AppendProperties
    <3>5. /\ turnsOf'[u] = Append(turnsOf[u], turn) /\ turnIndex'[u] = Len(turnsOf[u]) + 1
          /\ editorSql'[u] = sql
          /\ \A t \in AiTabs \ {u} : /\ turnsOf'[t] = turnsOf[t] /\ turnIndex'[t] = turnIndex[t]
                                     /\ editorSql'[t] = editorSql[t]
      BY <1>2, <3>1, <3>3
    <3>6. SUFFICES ASSUME NEW t \in AiTabs, editorSql'[t] # Typed
                   PROVE  /\ turnIndex'[t] # 0
                          /\ editorSql'[t] = turnsOf'[t][turnIndex'[t]].sql
      BY DEF EditorShowsTurn
    <3>7. CASE t = u
      BY <3>1, <3>2, <3>4, <3>5, <3>7
    <3>8. CASE t # u
      BY <1>2, <3>5, <3>6, <3>8 DEF EditorShowsTurn
    <3>9. QED
      BY <3>7, <3>8
  <2>2. ASSUME NEW i \in 1 .. MaxTurns + 1, Navigate(i) PROVE EditorShowsTurn'
    BY <1>2, <2>2, AiConstants DEF Navigate, EditorShowsTurn
  <2>3. CASE TypeSql
    BY <1>2, <2>3 DEF TypeSql, EditorShowsTurn
  <2>4. ASSUME NEW t \in AiTabs, CloseAiTab(t) PROVE EditorShowsTurn'
    BY <1>2, <2>4 DEF CloseAiTab, EditorShowsTurn
  <2>5. CASE UNCHANGED chatVars
    BY <1>2, <2>5 DEF chatVars, EditorShowsTurn
  <2>6. \/ \E sql \in Replies : ReplyArrives(sql) /\ asking.tab \in opened
        \/ \E i \in 1 .. MaxTurns + 1 : Navigate(i)
        \/ TypeSql
        \/ \E t \in AiTabs : CloseAiTab(t)
        \/ UNCHANGED chatVars
    BY <1>2 DEF AiNext, aiVars, chatVars, TypePrompt, Submit, ReplyArrives, ReplyFails,
       Activate, ReloadPanel
  <2>7. QED
    BY <2>1, <2>2, <2>3, <2>4, <2>5, <2>6
<1>3. QED
  BY AiInvariance, <1>1, <1>2, PTL DEF AiSpec

(***************************************************************************)
(* TableView.                                                              *)
(***************************************************************************)
\* A number is a quotient and a remainder.
LEMMA DivMod ==
  ASSUME NEW a \in Int, NEW b \in Nat \ {0}
  PROVE  /\ a \div b \in Int
         /\ b * (a \div b) <= a /\ a < b * (a \div b) + b
BY SMTT(30)

\* What is filled is a quotient.
LEMMA DivUnique ==
  ASSUME NEW a \in Int, NEW b \in Nat \ {0}, NEW q \in Int, b * q <= a, a < b * q + b
  PROVE  a \div b = q
BY DivMod, SMTT(30)

\* Pages have at least ten rows.
LEMMA PageSizeTyped ==
  ASSUME NEW h \in Nat
  PROVE  PageSizeOf(h) \in Nat /\ PageSizeOf(h) >= 10
BY DEF PageSizeOf, BaseRowHeight, MinPageSize

\* Page numbers are natural.
LEMMA LastPageTyped ==
  ASSUME NEW t \in Tables, NEW size \in PageSizes
  PROVE  size \in Nat /\ size >= 10 /\ LastPage(RowCount[t], size) \in Nat
<1>1. size \in Nat /\ size >= 10
  BY PageSizeTyped, HeightsNatural DEF PageSizes
<1>2. RowCount[t] \in Nat
  BY RowCountNatural
<1>3. CASE RowCount[t] = 0
  BY <1>1, <1>3 DEF LastPage
<1>4. CASE RowCount[t] # 0
  <2> DEFINE q == (RowCount[t] - 1) \div size
  <2>1. q \in Int /\ RowCount[t] - 1 < size * q + size
    BY <1>1, <1>2, DivMod
  <2> HIDE DEF q
  <2>2. q >= 0
    <3> SUFFICES ASSUME q <= -1 PROVE FALSE
      BY <2>1
    <3>1. size * q <= size * (-1)
      BY <1>1, <2>1
    <3>2. QED
      BY <1>1, <1>2, <1>4, <2>1, <3>1
  <2>3. QED
    BY <1>1, <1>4, <2>1, <2>2 DEF LastPage, q
<1>5. QED
  BY <1>1, <1>3, <1>4

\* The pages of a table of n rows are numbered from 0 to the last.
LEMMA PagesCounted ==
  ASSUME NEW n \in Nat, NEW size \in Nat \ {0}
  PROVE  (n + size - 1) \div size = IF n = 0 THEN 0 ELSE LastPage(n, size) + 1
<1>1. CASE n = 0
  <2>1. size * 0 <= n + size - 1 /\ n + size - 1 < size * 0 + size
    BY <1>1
  <2>2. QED
    BY <1>1, <2>1, DivUnique
<1>2. CASE n # 0
  <2> DEFINE q == (n - 1) \div size
  <2>1. q \in Int /\ size * q <= n - 1 /\ n - 1 < size * q + size
    BY <1>2, DivMod
  <2> HIDE DEF q
  <2>2. size * (q + 1) = size * q + size
    BY <2>1
  <2>3. (n + size - 1) \div size = q + 1
    BY <2>1, <2>2, DivUnique
  <2>4. LastPage(n, size) = q
    BY <1>2 DEF LastPage, q
  <2>5. QED
    BY <1>2, <2>3, <2>4
<1>3. QED
  BY <1>1, <1>2

TableInv ==
  /\ TableTypeOK /\ CachedUnderItsKey /\ PastEndOnlyAfterChange /\ OneOverlay
  /\ CopiedMarkLasts /\ FailedIsUnsettled

\* What is asked for has a type.
LEMMA WantedTyped ==
  ASSUME NEW t \in Tables, NEW h \in Heights, NEW p \in Nat
  PROVE  /\ WantedAt(t, h, p) \in Content
         /\ WantedAt(t, h, p).table = t /\ WantedAt(t, h, p).size = PageSizeOf(h)
         /\ WantedAt(t, h, p).page = p
BY DEF WantedAt, Content, PageSizes

\* Equal keys are of equal contents.
LEMMA KeysDiffer ==
  ASSUME NEW c \in Content, NEW d \in Content, RowsKey(c) = RowsKey(d)
  PROVE  c = d
BY DEF Content, RowsKey

\* What is on the screen: an answer for the wanted rows, or what was there before.
LEMMA ShownTyped ==
  ASSUME TableInv
  PROVE  /\ ShownRows \in Content \cup {Nothing}
         /\ Settled => /\ ShownRows \in Content /\ ShownRows.table = browsed
                       /\ ShownRows.size = PageSizeOf(height) /\ ShownRows.page = page
         /\ ~Settled => ShownRows \in {Nothing, previous}
         /\ failed => ShownRows = Nothing
<1>1. CASE Settled
  <2>1. CachedAnswer \in Hits(Wanted) /\ browsed \in Tables
    BY <1>1 DEF Settled, CachedAnswer
  <2>2. ShownRows = CachedAnswer.content
    BY <1>1 DEF ShownRows
  <2>3. /\ CachedAnswer.key = RowsKey(Wanted)
        /\ CachedAnswer.key = RowsKey(CachedAnswer.content)
        /\ CachedAnswer.content \in Content
    BY <2>1 DEF Hits, TableInv, CachedUnderItsKey, TableTypeOK
  <2>4. Wanted \in Content /\ Wanted.table = browsed /\ Wanted.size = PageSizeOf(height)
        /\ Wanted.page = page
    BY <2>1, WantedTyped DEF Wanted, TableInv, TableTypeOK
  <2>5. CachedAnswer.content = Wanted
    BY <2>3, <2>4, KeysDiffer
  <2>6. ~failed
    BY <1>1 DEF TableInv, FailedIsUnsettled
  <2>7. QED
    BY <1>1, <2>2, <2>4, <2>5, <2>6
<1>2. CASE ~Settled
  <2>1. ShownRows = Nothing \/ (ShownRows = previous /\ ~failed)
    BY <1>2 DEF ShownRows
  <2>2. previous \in Content \cup {Nothing}
    BY DEF TableInv, TableTypeOK
  <2>3. failed => ShownRows = Nothing
    BY <1>2 DEF ShownRows
  <2>4. QED
    BY <1>2, <2>1, <2>2, <2>3
<1>3. QED
  BY <1>1, <1>2

\* The initial states satisfy the invariant.
LEMMA InitTableInv == TableInit => TableInv
<1> SUFFICES ASSUME TableInit PROVE TableInv
  OBVIOUS
<1>1. TableTypeOK
  <2>1. TableTypeOK!1 /\ TableTypeOK!2 /\ height \in Heights /\ page \in Nat
        /\ asked \subseteq Content
    BY DEF TableInit
  <2>2. timers \in 0 .. 1
    BY DEF TableInit
  <2>3. QED
    BY <2>1, <2>2 DEF TableInit, TableTypeOK
<1>2. CachedUnderItsKey /\ OneOverlay /\ FailedIsUnsettled
  BY DEF TableInit, CachedUnderItsKey, OneOverlay, FailedIsUnsettled
<1>3. CopiedMarkLasts
  BY DEF TableInit, CopiedMarkLasts
<1>4. PastEndOnlyAfterChange
  BY LastPageTyped DEF TableInit, PastEndOnlyAfterChange
<1>5. QED
  BY <1>1, <1>2, <1>3, <1>4 DEF TableInv

\* A change of what is asked for.
LEMMA WantRows ==
  ASSUME TableInv, NEW c \in Content, Want(c)
  PROVE  /\ previous' \in Content \cup {Nothing} /\ failed' = FALSE
         /\ asked' \subseteq Content /\ cached' = cached /\ facts' = facts
         /\ \A d \in asked' : Hits(d)' = {}
         /\ Settled => previous' = ShownRows
         /\ ~Settled => previous' = previous
<1>1. ShownRows \in Content \cup {Nothing}
  BY ShownTyped
<1>2. previous' \in Content \cup {Nothing} /\ asked' \subseteq Content
  BY <1>1 DEF Want, TableInv, TableTypeOK
<1>3. \A d \in asked' : Hits(d)' = {}
  BY DEF Want, TableInv, CachedUnderItsKey, Hits
<1>4. QED
  BY <1>2, <1>3 DEF Want

\* The pager turns to a page that the shown table has, or back.
LEMMA TurnedTo ==
  ASSUME TableInv, PrevPage \/ NextPage
  PROVE  \E p \in Nat :
           /\ TurnTo(p)
           /\ \/ p <= page /\ chosenOn' = chosenOn
              \/ /\ ShownRows \in Content
                 /\ chosenOn' = [table |-> ShownRows.table, size |-> PageSizeOf(height)]
                 /\ p <= LastPage(RowCount[ShownRows.table], PageSizeOf(height))
<1>1. page \in Nat
  BY DEF TableInv, TableTypeOK
<1>2. CASE PrevPage
  BY <1>1, <1>2 DEF PrevPage
<1>3. CASE NextPage
  <2>1. /\ page < TotalPages - 1 /\ TurnTo(page + 1)
        /\ chosenOn' = [table |-> ShownRows.table, size |-> PageSizeOf(height)]
    BY <1>3 DEF NextPage
  <2>2. ShownRows \in Content
    BY <2>1, ShownTyped DEF TurnTo, PagerShown, GridMounted
  <2>3. RowCount[ShownRows.table] \in Nat
    BY <2>2, RowCountNatural DEF Content
  <2>4. PageSizeOf(height) \in Nat \ {0}
    BY PageSizeTyped, HeightsNatural DEF TableInv, TableTypeOK
  <2>5. TotalPages > 1
    BY <2>1 DEF TurnTo, PagerShown
  <2>6. ShownRows # Nothing
    BY <2>1 DEF TurnTo, PagerShown, GridMounted
  <2>7. TotalPages = (RowCount[ShownRows.table] + PageSizeOf(height) - 1) \div PageSizeOf(height)
    BY <2>6 DEF TotalPages
  <2>8. RowCount[ShownRows.table] # 0
    BY <2>3, <2>4, <2>5, <2>7, PagesCounted
  <2>9. TotalPages = LastPage(RowCount[ShownRows.table], PageSizeOf(height)) + 1
    BY <2>3, <2>4, <2>7, <2>8, PagesCounted
  <2>10. LastPage(RowCount[ShownRows.table], PageSizeOf(height)) \in Nat
    BY <2>2, LastPageTyped DEF Content, PageSizes, TableInv, TableTypeOK
  <2>11. page + 1 <= LastPage(RowCount[ShownRows.table], PageSizeOf(height))
    BY <1>1, <2>1, <2>9, <2>10
  <2>12. QED
    BY <1>1, <2>1, <2>2, <2>11
<1>4. QED
  BY <1>2, <1>3

\* Every step keeps the types.
LEMMA NextTableType == TableInv /\ [TableNext]_tableVars => TableTypeOK'
<1> SUFFICES ASSUME TableInv, [TableNext]_tableVars PROVE TableTypeOK'
  OBVIOUS
<1>1. \A t \in Tables, h \in Heights, p \in Nat : WantedAt(t, h, p) \in Content
  BY WantedTyped
<1>2. TableTypeOK
  BY DEF TableInv
<1> DEFINE Timers == 0 .. 1
<1>0. timers \in Timers /\ 0 \in Timers /\ 1 \in Timers /\ (timers > 0 => timers - 1 \in Timers)
      /\ (timers' \in Timers => timers' \in 0 .. 1)
  BY <1>2 DEF TableTypeOK
<1> HIDE DEF Timers
<1>3. ASSUME NEW t \in Tables, SwitchTable(t) PROVE TableTypeOK'
  <2>1. Want(WantedAt(t, height, page)) /\ WantedAt(t, height, page) \in Content
    BY <1>1, <1>2, <1>3 DEF SwitchTable, TableTypeOK
  <2>2. QED
    BY <1>0, <1>2, <1>3, <2>1, WantRows
    DEF SwitchTable, TableTypeOK, GridLost, ByMouseOrNot
<1>4. ASSUME NEW t \in Tables, OpenTable(t) PROVE TableTypeOK'
  <2>1. Want(WantedAt(t, height, 0)) /\ WantedAt(t, height, 0) \in Content
    BY <1>1, <1>2, <1>4 DEF OpenTable, TableTypeOK
  <2>2. QED
    BY <1>2, <1>4, <2>1, WantRows DEF OpenTable, TableTypeOK, gridVars
<1>5. ASSUME NEW o \in Functions \cup {Nothing}, LeaveTable(o) PROVE TableTypeOK'
  BY <1>0, <1>2, <1>5 DEF LeaveTable, GridLost, TableTypeOK, fetchVars
<1>6. ASSUME NEW o \in Functions \cup {Nothing}, OpenFunction(o) PROVE TableTypeOK'
  BY <1>2, <1>6 DEF OpenFunction, TableTypeOK, fetchVars, gridVars
<1>7. ASSUME NEW h \in Heights, Resize(h) PROVE TableTypeOK'
  <2>1. CASE browsed \in Tables /\ PageSizeOf(h) # PageSizeOf(height)
    <3>1. Want(WantedAt(browsed, h, page)) /\ WantedAt(browsed, h, page) \in Content
      BY <1>1, <1>2, <1>7, <2>1 DEF Resize, TableTypeOK
    <3>2. QED
      BY <1>2, <1>7, <3>1, WantRows DEF Resize, TableTypeOK, gridVars
  <2>2. CASE ~(browsed \in Tables /\ PageSizeOf(h) # PageSizeOf(height))
    BY <1>2, <1>7, <2>2 DEF Resize, TableTypeOK, fetchVars, gridVars
  <2>3. QED
    BY <2>1, <2>2
<1>8. CASE PrevPage \/ NextPage
  <2>1. PICK p \in Nat : TurnTo(p)
    BY <1>8, TurnedTo
  <2>2. Want(WantedAt(browsed, height, p)) /\ WantedAt(browsed, height, p) \in Content
    BY <1>1, <1>2, <2>1 DEF TurnTo, PagerShown, GridMounted, TableTypeOK
  <2>3. QED
    BY <1>2, <2>1, <2>2, WantRows DEF TurnTo, TableTypeOK, ByMouseOrNot
<1>9. ASSUME NEW v \in FactViews \cup {"rows"}, SelectView(v) PROVE TableTypeOK'
  BY <1>0, <1>2, <1>9 DEF SelectView, GridLost, TableTypeOK, fetchVars
<1>10. ASSUME NEW c \in asked, RowsArrive(c) PROVE TableTypeOK'
  <2>1. c \in Content
    BY <1>2 DEF TableTypeOK
  <2>2. \A e \in cached' : e \in cached \/ e = [key |-> RowsKey(c), content |-> c]
    BY <1>10 DEF RowsArrive
  <2>3. \A e \in cached' : e.content \in Content
    BY <1>2, <2>1, <2>2 DEF TableTypeOK
  <2>4. failed' \in BOOLEAN
    BY <1>10 DEF RowsArrive
  <2>5. QED
    BY <1>2, <1>10, <2>3, <2>4 DEF RowsArrive, TableTypeOK, gridVars
<1>11. ASSUME NEW c \in asked, RowsFail(c) PROVE TableTypeOK'
  <2>1. failed' \in BOOLEAN
    BY <1>11 DEF RowsFail
  <2>2. QED
    BY <1>0, <1>2, <1>11, <2>1 DEF RowsFail, GridLost, TableTypeOK, gridVars
<1>12. ASSUME NEW v \in FactViews \cup {"definition"}, FactsArrive(v) PROVE TableTypeOK'
  BY <1>2, <1>12 DEF FactsArrive, TableTypeOK, gridVars
<1>13. CASE ClickCell \/ CloseCell
  BY <1>2, <1>13 DEF ClickCell, CloseCell, TableTypeOK, fetchVars
<1>14. CASE OpenMenu \/ CloseMenu
  BY <1>2, <1>14 DEF OpenMenu, CloseMenu, TableTypeOK, fetchVars
<1>15. CASE CopyCell \/ CopyTimer
  BY <1>0, <1>2, <1>15 DEF CopyCell, CopyTimer, TableTypeOK, fetchVars
<1>16. CASE UNCHANGED tableVars
  BY <1>2, <1>16 DEF tableVars, TableTypeOK
<1>17. QED
  BY <1>3, <1>4, <1>5, <1>6, <1>7, <1>8, <1>9, <1>10, <1>11, <1>12, <1>13, <1>14, <1>15, <1>16
  DEF TableNext

\* A step asks for other rows, or leaves what is asked for and cached alone, or is
\* an answer.
LEMMA AskingSteps ==
  ASSUME TableInv, [TableNext]_tableVars
  PROVE  \/ \E c \in Content : Want(c)
         \/ UNCHANGED <<previous, failed, fetchVars>>
         \/ UNCHANGED fetchVars /\ previous' = Nothing /\ failed' = FALSE
         \/ \E c \in asked : RowsArrive(c) \/ RowsFail(c)
         \/ \E v \in FactViews \cup {"definition"} : FactsArrive(v)
<1>1. \A t \in Tables, h \in Heights, p \in Nat : WantedAt(t, h, p) \in Content
  BY WantedTyped
<1>2. height \in Heights /\ page \in Nat
  BY DEF TableInv, TableTypeOK
<1>3. ASSUME NEW t \in Tables, SwitchTable(t) \/ OpenTable(t) PROVE \E c \in Content : Want(c)
  BY <1>1, <1>2, <1>3 DEF SwitchTable, OpenTable
<1>4. ASSUME NEW h \in Heights, Resize(h)
      PROVE  (\E c \in Content : Want(c)) \/ UNCHANGED <<previous, failed, fetchVars>>
  BY <1>1, <1>2, <1>4 DEF Resize
<1>5. CASE PrevPage \/ NextPage
  <2>1. PICK p \in Nat : TurnTo(p)
    BY <1>5, TurnedTo
  <2>2. QED
    BY <1>1, <1>2, <2>1 DEF TurnTo, PagerShown, GridMounted
<1>6. ASSUME NEW o \in Functions \cup {Nothing}, LeaveTable(o) \/ OpenFunction(o)
      PROVE  \/ UNCHANGED <<previous, failed, fetchVars>>
             \/ UNCHANGED fetchVars /\ previous' = Nothing /\ failed' = FALSE
  BY <1>6 DEF LeaveTable, OpenFunction
<1>7. ASSUME \/ \E v \in FactViews \cup {"rows"} : SelectView(v)
             \/ ClickCell \/ CloseCell \/ OpenMenu \/ CloseMenu \/ CopyCell \/ CopyTimer
             \/ UNCHANGED tableVars
      PROVE  UNCHANGED <<previous, failed, fetchVars>>
  BY <1>7 DEF SelectView, ClickCell, CloseCell, OpenMenu, CloseMenu, CopyCell, CopyTimer,
              tableVars, fetchVars
<1>8. QED
  BY <1>3, <1>4, <1>5, <1>6, <1>7 DEF TableNext

\* The cache keeps what it has under its key, and nothing that it has is asked for.
LEMMA NextCachedUnderItsKey == TableInv /\ [TableNext]_tableVars => CachedUnderItsKey'
<1> SUFFICES ASSUME TableInv, [TableNext]_tableVars PROVE CachedUnderItsKey'
  OBVIOUS
<1>1. CachedUnderItsKey /\ asked \subseteq Content
  BY DEF TableInv, TableTypeOK
<1>2. ASSUME NEW c \in Content, Want(c) PROVE CachedUnderItsKey'
  BY <1>1, <1>2, WantRows DEF CachedUnderItsKey
<1>3. CASE UNCHANGED fetchVars
  BY <1>1, <1>3 DEF CachedUnderItsKey, Hits, fetchVars
<1>4. ASSUME NEW c \in asked, RowsArrive(c) PROVE CachedUnderItsKey'
  <2> DEFINE new == [key |-> RowsKey(c), content |-> c]
  <2>1. asked' = asked \ {c} /\ facts' = facts
        /\ \A e \in cached' : e \in cached \/ e = new
    BY <1>4 DEF RowsArrive
  <2>2. new.key = RowsKey(c) /\ new.content = c
    OBVIOUS
  <2> HIDE DEF new
  <2>3. \A d \in asked' : RowsKey(d) # RowsKey(c)
    BY <1>1, <2>1, KeysDiffer
  <2>4. \A d \in asked' : Hits(d)' = {}
    BY <1>1, <2>1, <2>2, <2>3 DEF CachedUnderItsKey, Hits
  <2>5. \A e \in cached' : e.key = RowsKey(e.content)
    BY <1>1, <2>1, <2>2 DEF CachedUnderItsKey
  <2>6. QED
    BY <1>1, <2>1, <2>4, <2>5 DEF CachedUnderItsKey
<1>5. ASSUME NEW c \in asked, RowsFail(c) PROVE CachedUnderItsKey'
  BY <1>1, <1>5 DEF RowsFail, CachedUnderItsKey, Hits
<1>6. ASSUME NEW v \in FactViews \cup {"definition"}, FactsArrive(v) PROVE CachedUnderItsKey'
  BY <1>1, <1>6 DEF FactsArrive, CachedUnderItsKey, Hits
<1>7. QED
  BY <1>2, <1>3, <1>4, <1>5, <1>6, AskingSteps

\* The page stays within what Next was last pressed on.
LEMMA NextPastEnd == TableInv /\ [TableNext]_tableVars => PastEndOnlyAfterChange'
<1> SUFFICES ASSUME TableInv, [TableNext]_tableVars PROVE PastEndOnlyAfterChange'
  OBVIOUS
<1>1. PastEndOnlyAfterChange /\ page \in Nat
  BY DEF TableInv, TableTypeOK
<1>2. CASE PrevPage \/ NextPage
  <2>1. PICK p \in Nat :
           /\ TurnTo(p)
           /\ \/ p <= page /\ chosenOn' = chosenOn
              \/ /\ ShownRows \in Content
                 /\ chosenOn' = [table |-> ShownRows.table, size |-> PageSizeOf(height)]
                 /\ p <= LastPage(RowCount[ShownRows.table], PageSizeOf(height))
    BY <1>2, TurnedTo
  <2>2. page' = p
    BY <2>1 DEF TurnTo
  <2>3. SUFFICES ASSUME NEW t \in Tables, NEW size \in PageSizes,
                        page' > LastPage(RowCount[t], size)
                 PROVE  chosenOn' # [table |-> t, size |-> size]
    BY DEF PastEndOnlyAfterChange
  <2>4. LastPage(RowCount[t], size) \in Nat
    BY LastPageTyped
  <2>5. CASE p <= page /\ chosenOn' = chosenOn
    BY <1>1, <2>2, <2>3, <2>4, <2>5 DEF PastEndOnlyAfterChange
  <2>6. ASSUME chosenOn' = [table |-> ShownRows.table, size |-> PageSizeOf(height)],
               p <= LastPage(RowCount[ShownRows.table], PageSizeOf(height)),
               chosenOn' = [table |-> t, size |-> size]
        PROVE  FALSE
    <3>1. ShownRows.table = t /\ PageSizeOf(height) = size
      BY <2>6
    <3>2. p <= LastPage(RowCount[t], size)
      BY <2>6, <3>1
    <3>3. QED
      BY <2>2, <2>3, <2>4, <3>2
  <2>7. QED
    BY <2>1, <2>5, <2>6
<1>3. ASSUME NEW o \in Functions \cup {Nothing}, LeaveTable(o) PROVE PastEndOnlyAfterChange'
  <2>1. page' = 0
    BY <1>3 DEF LeaveTable
  <2>2. QED
    BY <2>1, LastPageTyped DEF PastEndOnlyAfterChange
<1>4. CASE page' = page /\ chosenOn' = chosenOn
  BY <1>1, <1>4 DEF PastEndOnlyAfterChange
<1>5. \/ PrevPage \/ NextPage
      \/ \E o \in Functions \cup {Nothing} : LeaveTable(o)
      \/ page' = page /\ chosenOn' = chosenOn
  BY DEF TableNext, SwitchTable, OpenTable, OpenFunction, Resize, SelectView, RowsArrive,
     RowsFail, FactsArrive, ClickCell, CloseCell, OpenMenu, CloseMenu, CopyCell, CopyTimer,
     tableVars
<1>6. QED
  BY <1>2, <1>3, <1>4, <1>5

\* What opens the one of the dialog and the menu is covered by the dialog and
\* closes the menu.
LEMMA NextOneOverlay == TableInv /\ [TableNext]_tableVars => OneOverlay'
<1> SUFFICES ASSUME TableInv, [TableNext]_tableVars PROVE OneOverlay'
  OBVIOUS
<1>1. OneOverlay
  BY DEF TableInv
<1>2. CASE detail' \in {detail, FALSE} /\ menu' \in {menu, FALSE}
  BY <1>1, <1>2 DEF OneOverlay
<1>3. CASE ClickCell \/ OpenMenu
  BY <1>3 DEF ClickCell, OpenMenu, OneOverlay
<1>4. ASSUME \E c \in asked : RowsFail(c)
      PROVE  detail' \in {detail, FALSE} /\ menu' \in {menu, FALSE}
  BY <1>4 DEF RowsFail, GridLost, gridVars
<1>5. ASSUME \E t \in Tables : SwitchTable(t)
      PROVE  detail' \in {detail, FALSE} /\ menu' \in {menu, FALSE}
  BY <1>5 DEF SwitchTable, GridLost, ByMouseOrNot
<1>6. \/ ClickCell \/ OpenMenu
      \/ \E c \in asked : RowsFail(c)
      \/ \E t \in Tables : SwitchTable(t)
      \/ detail' \in {detail, FALSE} /\ menu' \in {menu, FALSE}
  BY DEF TableNext, OpenTable, LeaveTable, OpenFunction, Resize, PrevPage, NextPage, TurnTo,
     SelectView, RowsArrive, FactsArrive, CloseCell, CloseMenu, CopyCell, CopyTimer,
     tableVars, GridLost, gridVars, ByMouseOrNot
<1>7. QED
  BY <1>2, <1>3, <1>4, <1>5, <1>6

\* The mark comes and goes with its timer.
LEMMA NextCopiedMark == TableInv /\ [TableNext]_tableVars => CopiedMarkLasts'
<1> SUFFICES ASSUME TableInv, [TableNext]_tableVars PROVE CopiedMarkLasts'
  OBVIOUS
<1>1. CopiedMarkLasts /\ timers \in 0 .. 1
  BY DEF TableInv, TableTypeOK
<1>2. CASE copied' = copied /\ timers' = timers
  BY <1>1, <1>2 DEF CopiedMarkLasts
<1>3. CASE copied' = FALSE /\ timers' = 0
  BY <1>3 DEF CopiedMarkLasts
<1>4. CASE copied' = TRUE /\ timers' = 1
  BY <1>4 DEF CopiedMarkLasts
<1>5. CASE copied' = FALSE /\ timers > 0 /\ timers' = timers - 1
  BY <1>1, <1>5 DEF CopiedMarkLasts
<1>6. \/ copied' = copied /\ timers' = timers
      \/ copied' = FALSE /\ timers' = 0
      \/ copied' = TRUE /\ timers' = 1
      \/ copied' = FALSE /\ timers > 0 /\ timers' = timers - 1
  BY DEF TableNext, SwitchTable, OpenTable, LeaveTable, OpenFunction, Resize, PrevPage, NextPage,
     TurnTo, SelectView, RowsArrive, RowsFail, FactsArrive, ClickCell, CloseCell, OpenMenu,
     CloseMenu, CopyCell, CopyTimer, tableVars, GridLost, gridVars
<1>7. QED
  BY <1>2, <1>3, <1>4, <1>5, <1>6

\* Rows are given up only as long as they are not there.
LEMMA NextFailed == TableInv /\ [TableNext]_tableVars => FailedIsUnsettled'
<1> SUFFICES ASSUME TableInv, [TableNext]_tableVars PROVE FailedIsUnsettled'
  OBVIOUS
<1>1. FailedIsUnsettled
  BY DEF TableInv
<1>2. height \in Heights /\ page \in Nat /\ asked \subseteq Content
  BY DEF TableInv, TableTypeOK
<1>3. \A t \in Tables, h \in Heights, p \in Nat : WantedAt(t, h, p) \in Content
  BY WantedTyped
<1>4. CASE failed' = FALSE
  BY <1>4 DEF FailedIsUnsettled
<1>5. ASSUME UNCHANGED <<browsed, page, failed, cached>>, PageSizeOf(height') = PageSizeOf(height)
      PROVE  FailedIsUnsettled'
  <2>1. Settled' <=> Settled
    BY <1>5 DEF Settled, Hits, Wanted, WantedAt, RowsKey
  <2>2. QED
    BY <1>1, <1>5, <2>1 DEF FailedIsUnsettled
<1>6. ASSUME NEW o \in Functions \cup {Nothing}, OpenFunction(o) PROVE FailedIsUnsettled'
  BY <1>1, <1>6 DEF OpenFunction, FailedIsUnsettled
<1>7. ASSUME NEW h \in Heights, Resize(h) PROVE FailedIsUnsettled'
  <2>1. CASE browsed \in Tables /\ PageSizeOf(h) # PageSizeOf(height)
    BY <1>4, <1>7, <2>1 DEF Resize, Want
  <2>2. CASE browsed \in Tables /\ PageSizeOf(h) = PageSizeOf(height)
    BY <1>5, <1>7, <2>2 DEF Resize, fetchVars
  <2>3. CASE browsed \notin Tables
    BY <1>1, <1>7, <2>3 DEF Resize, FailedIsUnsettled
  <2>4. QED
    BY <2>1, <2>2, <2>3
<1>8. ASSUME NEW c \in asked, RowsArrive(c) PROVE FailedIsUnsettled'
  <2> SUFFICES ASSUME failed' PROVE browsed' \in Tables /\ ~Settled'
    BY DEF FailedIsUnsettled
  <2>1. /\ browsed' = browsed /\ Wanted' = Wanted
        /\ failed /\ c # Wanted
    BY <1>8 DEF RowsArrive, Wanted
  <2>2. browsed \in Tables /\ Hits(Wanted) = {}
    BY <1>1, <2>1 DEF FailedIsUnsettled, Settled
  <2>3. Wanted \in Content /\ c \in Content
    BY <1>2, <1>3, <2>2 DEF Wanted
  <2>4. \A e \in cached' : e \in cached \/ e = [key |-> RowsKey(c), content |-> c]
    BY <1>8 DEF RowsArrive
  <2>5. RowsKey(c) # RowsKey(Wanted)
    BY <2>1, <2>3, KeysDiffer
  <2>6. \A e \in cached' : e.key # RowsKey(Wanted)
    BY <2>2, <2>4, <2>5 DEF Hits
  <2>7. QED
    BY <2>1, <2>2, <2>6 DEF Settled, Hits
<1>9. ASSUME NEW c \in asked, RowsFail(c) PROVE FailedIsUnsettled'
  <2>1. /\ browsed' = browsed /\ (Settled' <=> Settled)
        /\ failed' <=> failed \/ (browsed \in Tables /\ c = Wanted)
    BY <1>9 DEF RowsFail, Settled, Hits, Wanted
  <2>2. Hits(c) = {}
    BY DEF TableInv, CachedUnderItsKey
  <2>3. c = Wanted => ~Settled
    BY <2>2 DEF Settled
  <2>4. CASE failed
    BY <1>1, <2>1, <2>4 DEF FailedIsUnsettled
  <2>5. CASE ~failed
    BY <2>1, <2>3, <2>5 DEF FailedIsUnsettled
  <2>6. QED
    BY <2>4, <2>5
<1>10. ASSUME NEW t \in Tables, SwitchTable(t) \/ OpenTable(t) PROVE failed' = FALSE
  BY <1>10 DEF SwitchTable, OpenTable, Want
<1>11. ASSUME PrevPage \/ NextPage PROVE failed' = FALSE
  BY <1>11 DEF PrevPage, NextPage, TurnTo, Want
<1>12. ASSUME NEW o \in Functions \cup {Nothing}, LeaveTable(o) PROVE failed' = FALSE
  BY <1>12 DEF LeaveTable
<1>13. ASSUME \/ \E v \in FactViews \cup {"rows"} : SelectView(v)
              \/ \E v \in FactViews \cup {"definition"} : FactsArrive(v)
              \/ ClickCell \/ CloseCell \/ OpenMenu \/ CloseMenu \/ CopyCell \/ CopyTimer
              \/ UNCHANGED tableVars
       PROVE  FailedIsUnsettled'
  BY <1>5, <1>13 DEF SelectView, FactsArrive, ClickCell, CloseCell, OpenMenu, CloseMenu, CopyCell,
                     CopyTimer, tableVars, fetchVars
<1>14. QED
  BY <1>4, <1>6, <1>7, <1>8, <1>9, <1>10, <1>11, <1>12, <1>13 DEF TableNext

\* What is proved once for all about the table browser.
THEOREM TableInvariance == TableSpec => []TableInv
<1>1. TableInv /\ [TableNext]_tableVars => TableInv'
  BY NextTableType, NextCachedUnderItsKey, NextPastEnd, NextOneOverlay, NextCopiedMark,
     NextFailed DEF TableInv
<1>2. QED
  BY InitTableInv, <1>1, PTL DEF TableSpec

\* What a tab shows is about its object, and its rows have their own numbers,
\* unless the placeholder is on the screen.
THEOREM RowsNumbered == TableSpec => []RowsAreNumberedRight
<1>1. ASSUME TableInv PROVE RowsAreNumberedRight
  <2>1. ASSUME Settled
        PROVE  ShownRows.table = browsed /\ RowNumber(1) = ShownRows.page * ShownRows.size + 1
    BY <1>1, <2>1, ShownTyped DEF RowNumber
  <2>2. ASSUME NEW v \in FactViews \cup {"definition"} PROVE ShownFacts(v) \subseteq {browsed}
    BY <1>1 DEF ShownFacts, FactsKey, TableInv, CachedUnderItsKey
  <2>3. QED
    BY <2>1, <2>2 DEF RowsAreNumberedRight
<1>2. QED
  BY TableInvariance, <1>1, PTL

\* The pager itself never leads past the end of a table.
THEOREM PagerStaysInside == TableSpec => []PastEndOnlyAfterChange
<1>1. TableInv => PastEndOnlyAfterChange
  BY DEF TableInv
<1>2. QED
  BY TableInvariance, <1>1, PTL

\* The rows of a full page and the header fit, whatever the height of the window.
THEOREM PageFits == TableSpec => []GridFits
<1>1. ASSUME TableInv PROVE GridFits
  <2> DEFINE rows == PageSizeOf(height) + 1
  <2>0. height \in Heights
    BY <1>1 DEF TableInv, TableTypeOK
  <2>1. height \in Nat /\ rows \in Nat \ {0}
    BY <2>0, HeightsNatural, PageSizeTyped
  <2>2. height >= (MinPageSize + 1) * BaseRowHeight => rows * BaseRowHeight <= height
    BY <2>1 DEF PageSizeOf, BaseRowHeight, MinPageSize
  <2>3. RowHeightOf(height) = height \div rows
    BY DEF RowHeightOf
  <2> HIDE DEF rows
  <2>4. /\ height \div rows \in Int
        /\ rows * (height \div rows) <= height /\ height < rows * (height \div rows) + rows
    BY <2>1, DivMod
  <2>5. rows * BaseRowHeight <= height => height \div rows >= BaseRowHeight
    <3> DEFINE q == height \div rows
    <3> HIDE DEF q
    <3>1. q \in Int /\ height < rows * (q + 1)
      BY <2>1, <2>4 DEF q
    <3>2. rows * 26 <= height => q + 1 > 26
      BY <2>1, <3>1
    <3>3. QED
      BY <3>1, <3>2 DEF q, BaseRowHeight
  <2>6. QED
    BY <2>2, <2>3, <2>4, <2>5 DEF GridFits, rows
<1>2. QED
  BY TableInvariance, <1>1, PTL

(***************************************************************************)
(* QueryPanel.                                                             *)
(***************************************************************************)
USE NoRunDistinct DEF Hooks

\* The initial states satisfy the invariant.
LEMMA InitIndInv == Init => IndInv
<1> SUFFICES ASSUME Init PROVE IndInv
  OBVIOUS
<1> USE DEF Init
<1>1. tabOf \in [Runs -> Tabs]
  OBVIOUS
<1>2. TypeOK
  BY <1>1 DEF TypeOK
<1>3. SpinnerHasCall
  BY DEF SpinnerHasCall
<1>4. NamedOnce /\ NamingLife
  BY DEF NamedOnce, NamingLife
<1>5. QED
  BY <1>2, <1>3, <1>4 DEF IndInv

\* A new call: the latest of its hook from now on, and it may ask for a name
\* only if no earlier call has.
LEMMA MutateInv ==
  ASSUME IndInv, NEW h \in Hooks, NEW r \in Runs, Mutate(h, r)
  PROVE  IndInv'
<1> USE DEF IndInv, TypeOK, Mutate, tabVars
<1>1. TypeOK'
  OBVIOUS
<1>2. SpinnerHasCall'
  BY DEF SpinnerHasCall
<1>3. naming[r] = "none"
  BY DEF NamingLife
<1>4. NamedOnce'
  BY <1>3 DEF NamedOnce
<1>5. NamingLife'
  BY <1>3 DEF NamingLife
<1>6. QED
  BY <1>1, <1>2, <1>4, <1>5

\* An answer: only the latest call of a hook is listened to, and the first that
\* asks for a name marks the tab.
LEMMA AnswerInv ==
  ASSUME IndInv, NEW h \in Hooks, NEW r \in Runs,
         NEW outcome \in {"ok", "sqlError", "failed"}, Answer(h, r, outcome)
  PROVE  IndInv'
<1> USE DEF IndInv, TypeOK
<1>1. CASE latest[h] # r
  <2> USE <1>1 DEF Answer
  <2>1. TypeOK'
    OBVIOUS
  <2>2. SpinnerHasCall'
    BY DEF SpinnerHasCall
  <2>3. NamedOnce' /\ NamingLife'
    BY DEF NamedOnce, NamingLife
  <2>4. QED
    BY <2>1, <2>2, <2>3
<1>2. CASE latest[h] = r /\ ~(h = "run" /\ outcome = "ok" /\ mayName[r])
  <2> USE <1>2 DEF Answer
  <2>1. TypeOK'
    OBVIOUS
  <2>2. SpinnerHasCall'
    BY DEF SpinnerHasCall
  <2>3. NamedOnce' /\ NamingLife'
    BY DEF NamedOnce, NamingLife
  <2>4. QED
    BY <2>1, <2>2, <2>3
<1>3. CASE latest[h] = r /\ h = "run" /\ outcome = "ok" /\ mayName[r]
  <2>1. /\ call' = [call EXCEPT ![r] = "answered"]
        /\ isRunning' = FALSE /\ result' = r
        /\ aiRenamed' = [aiRenamed EXCEPT ![tabOf[r]] = TRUE]
        /\ naming' = [naming EXCEPT ![r] = "asked"]
        /\ UNCHANGED <<active, title, userRenamed, latest, tabOf, mayName>>
    BY <1>3 DEF Answer
  <2>2. \A q \in Runs : naming[q] # "none" => tabOf[q] # tabOf[r]
    BY <1>3 DEF Answer, NamingLife
  <2>3. TypeOK'
    BY <2>1
  <2>4. SpinnerHasCall'
    BY <2>1 DEF SpinnerHasCall
  <2>5. NamedOnce'
    BY <2>1, <2>2 DEF NamedOnce
  <2>6. NamingLife'
    BY <1>3, <2>1 DEF NamingLife
  <2>7. QED
    BY <2>3, <2>4, <2>5, <2>6
<1>4. QED
  BY <1>1, <1>2, <1>3

\* The invariant is inductive.
LEMMA NextIndInv == IndInv /\ [Next]_vars => IndInv'
<1> SUFFICES ASSUME IndInv, [Next]_vars PROVE IndInv'
  OBVIOUS
<1> USE DEF IndInv, TypeOK, SpinnerHasCall, NamedOnce, NamingLife
<1>1. ASSUME NEW r \in Runs, NEW h \in Hooks, Mutate(h, r) PROVE IndInv'
  BY <1>1, MutateInv
<1>2. ASSUME NEW r \in Runs, NEW h \in Hooks,
             NEW outcome \in {"ok", "sqlError", "failed"}, Answer(h, r, outcome)
      PROVE  IndInv'
  BY <1>2, AnswerInv
<1>3. ASSUME NEW r \in Runs, NameArrives(r) PROVE IndInv'
  <2>1. /\ naming[r] = "asked" /\ naming' = [naming EXCEPT ![r] = "answered"]
        /\ title' \in [Tabs -> {"generated", "model", "user"}]
        /\ UNCHANGED <<active, userRenamed, isRunning, result, latest, call, tabOf, mayName>>
    BY <1>3 DEF NameArrives
  <2>2. /\ aiRenamed' \in [Tabs -> BOOLEAN]
        /\ \A t \in Tabs : aiRenamed[t] => aiRenamed'[t]
    BY <1>3 DEF NameArrives
  <2>3. \A q \in Runs : naming'[q] # "none" <=> naming[q] # "none"
    BY <2>1
  <2>4. TypeOK' /\ SpinnerHasCall'
    BY <2>1, <2>2
  <2>5. NamedOnce' /\ NamingLife'
    BY <2>1, <2>2, <2>3
  <2>6. QED
    BY <2>4, <2>5
<1>4. ASSUME NEW t \in Tabs, RenameTab(t) PROVE IndInv'
  BY <1>4 DEF RenameTab, callVars
<1>5. ASSUME NEW t \in Tabs, SetActiveTab(t) PROVE IndInv'
  BY <1>5 DEF SetActiveTab, callVars
<1>6. CASE UNCHANGED vars
  BY <1>6 DEF vars
<1>7. QED
  BY <1>1, <1>2, <1>3, <1>4, <1>5, <1>6 DEF Next, CallStep

\* What is proved once for all.
THEOREM Invariance == Spec => []IndInv
BY InitIndInv, NextIndInv, PTL DEF Spec

\* The Cancel button is there only while an answer is awaited that removes it.
THEOREM SpinnerEnds == Spec => []SpinnerHasCall
<1>1. IndInv => SpinnerHasCall
  BY DEF IndInv
<1>2. QED
  BY Invariance, <1>1, PTL

\* However runs overlap, a tab is sent to the model for a name at most once.
THEOREM OneName == Spec => []NamedOnce
<1>1. IndInv => NamedOnce
  BY DEF IndInv
<1>2. QED
  BY Invariance, <1>1, PTL

(***************************************************************************)
(* TreeViews: parsePlanLines.                                              *)
(***************************************************************************)
\* The greatest of some numbers of lines, or 0.
LEMMA NearestIn ==
  ASSUME NEW n \in Nat, NEW S, S \subseteq 1 .. n
  PROVE  /\ S = {} => Nearest(S) = 0
         /\ S # {} => Nearest(S) \in S /\ \A k \in S : k <= Nearest(S)
<1>1. CASE S = {}
  BY <1>1 DEF Nearest
<1>2. CASE S # {}
  <2>1. \E j \in S : \A k \in S : k <= j
    BY <1>2, GreatestNumber
  <2>2. QED
    BY <1>2, <2>1 DEF Nearest
<1>3. QED
  BY <1>1, <1>2

\* It is known by what it is.
LEMMA NearestIs ==
  ASSUME NEW n \in Nat, NEW S, S \subseteq 1 .. n, NEW j \in S, \A k \in S : k <= j
  PROVE  Nearest(S) = j
<1>1. Nearest(S) \in S /\ \A k \in S : k <= Nearest(S)
  BY NearestIn
<1>2. Nearest(S) <= j /\ j <= Nearest(S)
  BY <1>1
<1>3. Nearest(S) \in 1 .. n /\ j \in 1 .. n
  BY <1>1
<1> HIDE DEF Nearest
<1>4. QED
  BY <1>2, <1>3

\* What the loop of parsePlanLines works on.
Level(n) == [line : 1 .. n, indent : Nat]
ParseStates(n) ==
  [stack : Seq(Level(n)), parent : [1 .. n -> Int], owner : [1 .. n -> Int],
   path : [1 .. n -> Seq(Nat)]]

\* The parts of the loop's state.
LEMMA ParseTyped ==
  ASSUME NEW n, NEW s \in ParseStates(n)
  PROVE  /\ s.stack \in Seq(Level(n)) /\ s.parent \in [1 .. n -> Int]
         /\ s.owner \in [1 .. n -> Int] /\ s.path \in [1 .. n -> Seq(Nat)]
BY DEF ParseStates

\* Before the first line.
NoLines(n) ==
  [stack |-> << >>, parent |-> [i \in 1 .. n |-> NotOne], owner |-> [i \in 1 .. n |-> NotOne],
   path |-> [i \in 1 .. n |-> << >>]]

\* What is left of the stack: its beginning, as long as the last less indented one.
LEMMA PoppedTyped ==
  ASSUME NEW n \in Nat, NEW stack \in Seq(Level(n)), NEW indent \in Nat
  PROVE  LET rest == PopTo(stack, indent) IN
         /\ rest \in Seq(Level(n)) /\ Len(rest) <= Len(stack)
         /\ \A k \in 1 .. Len(rest) : rest[k] = stack[k]
         /\ \A k \in 1 .. Len(stack) :
              stack[k].indent < indent => k <= Len(rest) /\ stack[Len(rest)].indent < indent
         /\ Len(rest) # 0 => stack[Len(rest)].indent < indent
<1> DEFINE S == {k \in 1 .. Len(stack) : stack[k].indent < indent}
           m == Nearest(S)
           rest == SubSeq(stack, 1, m)
<1>1. Len(stack) \in Nat /\ S \subseteq 1 .. Len(stack)
  OBVIOUS
<1>2. /\ S = {} => m = 0
      /\ S # {} => m \in S /\ \A k \in S : k <= m
  <2> HIDE DEF S
  <2> QED
    BY <1>1, NearestIn
<1> HIDE DEF m
<1>3. m \in 0 .. Len(stack)
  BY <1>1, <1>2
<1>4. /\ rest \in Seq(Level(n)) /\ Len(rest) = m
      /\ \A k \in 1 .. m : rest[k] = stack[k]
  <2>1. \A k \in 1 .. m : stack[k] \in Level(n)
    BY <1>1, <1>3
  <2>2. 1 \in Int /\ m \in Int
    BY <1>3
  <2>3. /\ rest \in Seq(Level(n)) /\ Len(rest) = (IF 1 <= m THEN m - 1 + 1 ELSE 0)
        /\ \A k \in 1 .. m - 1 + 1 : rest[k] = stack[1 + k - 1]
    BY <2>1, <2>2, SubSeqProperties
  <2> HIDE DEF rest
  <2>4. Len(rest) = m
    BY <1>3, <2>3
  <2>5. \A k \in 1 .. m : k \in 1 .. m - 1 + 1 /\ 1 + k - 1 = k
    BY <1>3
  <2>6. QED
    BY <2>3, <2>4, <2>5
<1> HIDE DEF rest
<1>5. \A k \in 1 .. Len(stack) :
        stack[k].indent < indent => k <= m /\ stack[m].indent < indent
  BY <1>2
<1>6. m # 0 => stack[m].indent < indent
  BY <1>2
<1>7. PopTo(stack, indent) = rest
  BY DEF PopTo, rest, m
<1>8. QED
  BY <1>3, <1>4, <1>5, <1>6, <1>7

\* The nodes among the first i lines, and those among them that have a parent.
NodesTo(s, i) == {j \in 1 .. i : s.parent[j] # NotOne}
Older(s, i, parent) == {j \in 1 .. i - 1 : s.parent[j] = parent}

\* They can be counted.
LEMMA OlderCounted ==
  ASSUME NEW s, NEW i \in Nat, NEW parent
  PROVE  IsFiniteSet(Older(s, i, parent)) /\ Cardinality(Older(s, i, parent)) \in Nat
<1>1. IsFiniteSet(1 .. i - 1)
  BY FS_Interval
<1>2. IsFiniteSet(Older(s, i, parent))
  BY <1>1, FS_Subset DEF Older
<1>3. QED
  BY <1>2, FS_CardinalityType

\* The top of a stack is a line, or 0 when the stack is empty.
LEMMA TopTyped ==
  ASSUME NEW n \in Nat, NEW stack \in Seq(Level(n))
  PROVE  /\ Top(stack) \in 0 .. n
         /\ Len(stack) # 0 => Top(stack) = stack[Len(stack)].line /\ Top(stack) \in 1 .. n
         /\ Len(stack) = 0 => Top(stack) = 0
         /\ stack = << >> <=> Len(stack) = 0
<1>1. Len(stack) \in Nat /\ (stack = << >> <=> Len(stack) = 0)
  OBVIOUS
<1>2. CASE Len(stack) # 0
  <2>1. stack[Len(stack)] \in Level(n)
    BY <1>1, <1>2
  <2>2. stack[Len(stack)].line \in 1 .. n
    BY <2>1 DEF Level
  <2>3. QED
    BY <1>1, <1>2, <2>2 DEF Top
<1>3. CASE Len(stack) = 0
  BY <1>1, <1>3 DEF Top
<1>4. QED
  BY <1>2, <1>3

\* Where a new node is put, when rest is what is left of the stack.
PathAbove(s, rest) == IF rest = << >> THEN << >> ELSE s.path[Top(rest)]
PlaceBelow(s, i, rest) == Cardinality(Older(s, i, Top(rest))) + 1

\* What AddNode makes of the four parts of the state.
IsAdded(t, rest, s, n, i, indent) ==
  /\ t \in ParseStates(n)
  /\ t.stack = Append(rest, [line |-> i, indent |-> indent])
  /\ t.parent = [s.parent EXCEPT ![i] = Top(rest)]
  /\ t.owner = s.owner
  /\ t.path = [s.path EXCEPT ![i] = Append(PathAbove(s, rest), PlaceBelow(s, i, rest))]
  /\ PathAbove(s, rest) \in Seq(Nat) /\ Top(rest) \in 0 .. n

LEMMA NodeAdded ==
  ASSUME NEW n \in Nat, NEW s \in ParseStates(n), NEW i \in 1 .. n, NEW indent \in Nat
  PROVE  IsAdded(AddNode(s, i, indent), PopTo(s.stack, indent), s, n, i, indent)
<1> DEFINE rest == PopTo(s.stack, indent)
           t == AddNode(s, i, indent)
           above == PathAbove(s, rest)
           level == [line |-> i, indent |-> indent]
           place == PlaceBelow(s, i, rest)
<1>1. /\ s.stack \in Seq(Level(n)) /\ s.parent \in [1 .. n -> Int]
      /\ s.owner \in [1 .. n -> Int] /\ s.path \in [1 .. n -> Seq(Nat)]
  BY DEF ParseStates
<1>2. rest \in Seq(Level(n))
  BY <1>1, PoppedTyped
<1>3. level \in Level(n)
  BY DEF Level
<1>4. /\ t.stack = Append(rest, level)
      /\ t.parent = [s.parent EXCEPT ![i] = Top(rest)]
      /\ t.owner = s.owner
      /\ t.path = [s.path EXCEPT ![i] = Append(above, place)]
      /\ t = [stack |-> t.stack, parent |-> t.parent, owner |-> t.owner, path |-> t.path]
  BY DEF AddNode, Older, PathAbove, PlaceBelow
<1> HIDE DEF level, rest, t
<1>5. Append(rest, level) \in Seq(Level(n))
  BY <1>2, <1>3
<1>6. Top(rest) \in 0 .. n /\ (rest # << >> => Top(rest) \in 1 .. n)
  BY <1>2, TopTyped
<1>7. above \in Seq(Nat)
  <2>1. << >> \in Seq(Nat)
    OBVIOUS
  <2>2. QED
    BY <1>1, <1>6, <2>1 DEF PathAbove
<1>8. place \in Nat
  BY OlderCounted DEF PlaceBelow
<1> HIDE DEF above, place
<1>9. Append(above, place) \in Seq(Nat)
  BY <1>7, <1>8
<1>10. t \in ParseStates(n)
  <2>1. [s.path EXCEPT ![i] = Append(above, place)] \in [1 .. n -> Seq(Nat)]
    BY <1>1, <1>9
  <2>2. [s.parent EXCEPT ![i] = Top(rest)] \in [1 .. n -> Int]
    BY <1>1, <1>6
  <2>3. QED
    BY <1>1, <1>4, <1>5, <2>1, <2>2 DEF ParseStates
<1>11. QED
  BY <1>4, <1>6, <1>7, <1>10 DEF above, level, place, rest, t, IsAdded

\* Every line keeps the state what it is.
LEMMA AddLineTyped ==
  ASSUME NEW n \in Nat, NEW s \in ParseStates(n), NEW i \in 1 .. n, NEW line \in Lines
  PROVE  AddLine(s, i, line) \in ParseStates(n)
<1>1. line.indent \in Nat
  BY DEF Lines
<1>2. AddNode(s, i, line.indent) \in ParseStates(n)
  <2>1. IsAdded(AddNode(s, i, line.indent), PopTo(s.stack, line.indent), s, n, i, line.indent)
    BY <1>1, NodeAdded
  <2>2. QED
    BY <2>1 DEF IsAdded
<1>3. [s EXCEPT !.owner = [@ EXCEPT ![i] = Top(s.stack)]] \in ParseStates(n)
  <2>1. Top(s.stack) \in Int
    <3>1. s.stack \in Seq(Level(n))
      BY ParseTyped
    <3>2. QED
      BY <3>1, TopTyped
  <2>2. QED
    BY <2>1 DEF ParseStates
<1>4. QED
  BY <1>2, <1>3 DEF AddLine

\* The states of the loop, line by line.
IsParse(G, p) ==
  G = [i \in 0 .. Len(p) |-> IF i = 0 THEN NoLines(Len(p)) ELSE AddLine(G[i - 1], i, p[i])]

\* The loop of parsePlanLines.
LEMMA ParseLoop ==
  ASSUME NEW p \in Seq(Lines)
  PROVE  \E G : /\ Parse(p) = G[Len(p)] /\ G[0] = NoLines(Len(p))
                /\ G[0] \in ParseStates(Len(p))
                /\ \A i \in 1 .. Len(p) : /\ p[i] \in Lines
                                          /\ G[i - 1] \in ParseStates(Len(p))
                                          /\ G[i] = AddLine(G[i - 1], i, p[i])
                /\ G[Len(p)] \in ParseStates(Len(p))
<1> DEFINE n == Len(p)
           first == NoLines(n)
           step == [i \in Nat |-> [s \in ParseStates(n) |->
                     IF i \in 1 .. n THEN AddLine(s, i, p[i]) ELSE s]]
<1>1. n \in Nat /\ \A i \in 1 .. n : p[i] \in Lines
  OBVIOUS
<1>2. first \in ParseStates(n)
  BY <1>1 DEF NoLines, ParseStates, NotOne
<1>3. step \in Rounds(ParseStates(n))
  BY <1>1, AddLineTyped DEF Rounds
<1>4. PICK G : IsRun(G, n, ParseStates(n), first, step)
  <2> HIDE DEF n, first, step
  <2> QED
    BY <1>1, <1>2, <1>3, LoopRuns
<1>5. /\ G \in [0 .. n -> ParseStates(n)] /\ G[0] = first
      /\ \A i \in 1 .. n : G[i] = step[i][G[i - 1]]
  BY <1>4 DEF IsRun
<1>6. ASSUME NEW i \in 1 .. n PROVE G[i] = AddLine(G[i - 1], i, p[i])
  <2>1. i \in Nat /\ i - 1 \in 0 .. n
    BY <1>1
  <2>2. QED
    BY <1>5, <2>1
<1>7. IsParse(G, p)
  <2> DEFINE E == [i \in 0 .. n |-> IF i = 0 THEN first ELSE AddLine(G[i - 1], i, p[i])]
  <2>1. \A i \in 0 .. n : i = 0 \/ i \in 1 .. n
    BY <1>1
  <2>2. \A i \in 0 .. n : G[i] = E[i]
    BY <1>5, <1>6, <2>1
  <2>3. E = [i \in 0 .. n |-> E[i]] /\ G = [i \in 0 .. n |-> G[i]]
    BY <1>5
  <2> HIDE DEF E
  <2>4. G = E
    BY <2>2, <2>3
  <2>5. QED
    BY <2>4 DEF E, IsParse
<1>8. PICK F : IsParse(F, p) /\ Parse(p) = F[Len(p)]
  BY <1>7 DEF Parse, IsParse, NoLines
<1>9. \A i \in 0 .. n : F[i] = IF i = 0 THEN first ELSE AddLine(F[i - 1], i, p[i])
  <2> DEFINE E(i) == IF i = 0 THEN first ELSE AddLine(F[i - 1], i, p[i])
  <2>1. F = [i \in 0 .. n |-> E(i)]
    BY <1>8 DEF IsParse
  <2> HIDE DEF E
  <2>2. \A i \in 0 .. n : F[i] = E(i)
    BY <2>1
  <2>3. QED
    BY <2>2 DEF E
<1>10. \A i \in 0 .. n : F[i] \in ParseStates(n)
  <2> DEFINE good == {x \in Nat \X ParseStates(n) : TRUE}
  <2>1. <<0, F[0]>> \in good
    BY <1>1, <1>2, <1>9
  <2>2. ASSUME NEW i \in 1 .. n, <<i - 1, F[i - 1]>> \in good PROVE <<i, F[i]>> \in good
    BY <1>1, <1>9, <2>2, AddLineTyped
  <2> HIDE DEF good
  <2>3. \A i \in 0 .. n : <<i, F[i]>> \in good
    BY <1>1, <2>1, <2>2, LoopKeeps
  <2>4. QED
    BY <2>3 DEF good
<1> HIDE DEF first
<1>11. F[0] = first /\ \A i \in 1 .. n : F[i] = AddLine(F[i - 1], i, p[i])
  BY <1>1, <1>9
<1>12. \A i \in 1 .. n : F[i - 1] \in ParseStates(n)
  BY <1>1, <1>10
<1>13. F[0] \in ParseStates(n) /\ F[n] \in ParseStates(n)
  BY <1>1, <1>10
<1>14. QED
  BY <1>1, <1>8, <1>11, <1>12, <1>13 DEF first

\* What the loop keeps, after i lines of p.  Lines to come have no parent yet.
Fresh(s, i, n) == \A j \in i + 1 .. n : s.parent[j] = NotOne

\* The stack has nodes, from above to below, and every node that no later one
\* with as little indent covers.
StackOK(s, i, p) ==
  /\ \A k \in 1 .. Len(s.stack) : /\ s.stack[k].line \in NodesTo(s, i)
                                  /\ s.stack[k].indent = p[s.stack[k].line].indent
  /\ \A k, l \in 1 .. Len(s.stack) : k < l => s.stack[k].line < s.stack[l].line
  /\ \A j \in NodesTo(s, i) :
       (\A m \in NodesTo(s, i) : j < m => p[j].indent < p[m].indent)
         => \E k \in 1 .. Len(s.stack) : s.stack[k].line = j

\* Parents and owners are what PlanIsOutline says of them,
Outer(s, j, indent, p) == {m \in NodesTo(s, j - 1) : p[m].indent < indent}
OutlineOK(s, i, p) ==
  \A j \in 1 .. i :
    /\ j \in NodesTo(s, i) => s.parent[j] = Nearest(Outer(s, j, p[j].indent, p))
    /\ p[j].kind # "blank" /\ j \notin NodesTo(s, i) =>
         s.owner[j] = Nearest(NodesTo(s, j - 1)) /\ s.owner[j] # 0

\* and a node is the last child of its parent when it is added.
PathOf(s, j) ==
  Append(IF s.parent[j] = 0 THEN << >> ELSE s.path[s.parent[j]],
         Cardinality(Older(s, j, s.parent[j])) + 1)
PathsOK(s, i) == \A j \in NodesTo(s, i) : s.path[j] = PathOf(s, j)

ParseOK(s, i, p) ==
  Fresh(s, i, Len(p)) /\ StackOK(s, i, p) /\ OutlineOK(s, i, p) /\ PathsOK(s, i)

\* The lines have indents.
Indented(p, n) == \A j \in 1 .. n : p[j].indent \in Nat

\* The node that parsePlanLines finds on the stack is the nearest one.
LEMMA NearestOnStack ==
  ASSUME NEW p, NEW n \in Nat, Indented(p, n),
         NEW s \in ParseStates(n), NEW i \in 1 .. n, StackOK(s, i - 1, p), NEW indent \in Nat
  PROVE  Top(PopTo(s.stack, indent)) = Nearest(Outer(s, i, indent, p))
<1> DEFINE S == {m \in NodesTo(s, i - 1) : p[m].indent < indent}
           rest == PopTo(s.stack, indent)
           top == Len(rest)
<1>1. /\ n \in Nat /\ i - 1 \in Nat /\ i - 1 <= n
      /\ \A j \in 1 .. n : p[j].indent \in Nat
  BY DEF Indented
<1>2. S \subseteq 1 .. i - 1 /\ NodesTo(s, i - 1) \subseteq 1 .. i - 1
  BY DEF NodesTo
<1>3. s.stack \in Seq(Level(n)) /\ Len(s.stack) \in Nat
  BY <1>1 DEF ParseStates
<1>4. /\ rest \in Seq(Level(n)) /\ top <= Len(s.stack) /\ top \in Nat
      /\ \A k \in 1 .. top : rest[k] = s.stack[k]
      /\ \A k \in 1 .. Len(s.stack) :
           s.stack[k].indent < indent => k <= top /\ s.stack[top].indent < indent
      /\ top # 0 => s.stack[top].indent < indent
  <2>1. rest \in Seq(Level(n))
    BY <1>1, <1>3, PoppedTyped
  <2>2. QED
    BY <1>1, <1>3, <2>1, PoppedTyped
<1> HIDE DEF rest
<1>5. /\ Top(rest) \in 0 .. n
      /\ top # 0 => Top(rest) = rest[top].line
      /\ top = 0 => Top(rest) = 0
  BY <1>1, <1>4, TopTyped
<1>6. CASE S = {}
  <2>1. top = 0
    <3> SUFFICES ASSUME top # 0 PROVE FALSE
      OBVIOUS
    <3>1. top \in 1 .. Len(s.stack)
      BY <1>3, <1>4
    <3>2. s.stack[top].line \in S
      BY <1>4, <3>1 DEF StackOK
    <3>3. QED
      BY <1>6, <3>2
  <2>2. Nearest(S) = 0
    <3> HIDE DEF S
    <3> QED
      BY <1>1, <1>2, <1>6, NearestIn
  <2>3. QED
    BY <1>5, <2>1, <2>2 DEF rest, Outer
<1>7. CASE S # {}
  <2> DEFINE m == Nearest(S)
  <2>1. m \in S /\ \A k \in S : k <= m
    <3> HIDE DEF S
    <3> QED
      BY <1>1, <1>2, <1>7, NearestIn
  <2> HIDE DEF m
  <2>2. ASSUME NEW j \in NodesTo(s, i - 1), m < j PROVE p[m].indent < p[j].indent
    <3>1. j \notin S
      BY <1>2, <2>1, <2>2
    <3>2. /\ p[j].indent \in Nat /\ p[m].indent \in Nat
          /\ ~(p[j].indent < indent) /\ p[m].indent < indent
      BY <1>1, <1>2, <2>1, <2>2, <3>1
    <3>3. QED
      BY <3>2
  <2>3. PICK k \in 1 .. Len(s.stack) : s.stack[k].line = m
    BY <2>1, <2>2 DEF StackOK
  <2>4. s.stack[k].indent < indent
    BY <2>1, <2>3 DEF StackOK
  <2>5. k <= top /\ top \in 1 .. Len(s.stack) /\ s.stack[top].indent < indent
    BY <1>3, <1>4, <2>3, <2>4
  <2>6. s.stack[top].line \in S /\ Top(rest) = s.stack[top].line
    BY <1>4, <1>5, <2>5 DEF StackOK
  <2>7. k = top \/ k < top
    BY <2>5, <1>3
  <2>8. m <= s.stack[top].line
    BY <1>2, <2>1, <2>3, <2>5, <2>7 DEF StackOK
  <2>9. Top(rest) <= m /\ m <= Top(rest) /\ m \in 1 .. n /\ Top(rest) \in 0 .. n
    BY <1>1, <1>2, <1>5, <2>1, <2>6, <2>8
  <2>10. Top(rest) = m
    BY <2>9
  <2>11. QED
    BY <2>10 DEF m, rest, Outer
<1>8. QED
  BY <1>6, <1>7 DEF rest, Outer

\* Another line changes nothing about the nodes above it.
SameAbove(t, s, i) ==
  /\ \A j \in 0 .. i - 1 : NodesTo(t, j) = NodesTo(s, j)
  /\ \A j \in 1 .. i, q \in Int : Older(t, j, q) = Older(s, j, q)
  /\ NodesTo(t, i) = IF t.parent[i] = NotOne THEN NodesTo(s, i - 1)
                     ELSE NodesTo(s, i - 1) \cup {i}

LEMMA OldNodes ==
  ASSUME NEW s, NEW t, NEW i \in Nat \ {0}, \A j \in 1 .. i - 1 : t.parent[j] = s.parent[j]
  PROVE  SameAbove(t, s, i)
<1>1. \A j \in 0 .. i - 1 : \A k \in 1 .. j : k \in 1 .. i - 1
  OBVIOUS
<1>2. \A j \in 1 .. i : \A k \in 1 .. j - 1 : k \in 1 .. i - 1
  OBVIOUS
<1>3. 1 .. i = 1 .. i - 1 \cup {i}
  OBVIOUS
<1>4. QED
  BY <1>1, <1>2, <1>3 DEF NodesTo, Older, SameAbove

\* A line with an arrow, or the first text: a node is added.
LEMMA NodeOutlines ==
  ASSUME NEW p, NEW n \in Nat, n = Len(p), Indented(p, n),
         NEW s \in ParseStates(n), NEW i \in 1 .. n, ParseOK(s, i - 1, p),
         NEW d, d = p[i].indent, NEW rest, rest = PopTo(s.stack, d),
         NEW t, t = AddNode(s, i, d)
  PROVE  ParseOK(t, i, p)
<1> DEFINE above == PathAbove(s, rest)
           place == PlaceBelow(s, i, rest)
           e == [line |-> i, indent |-> d]
<1>1. d \in Nat
  BY DEF Indented
<1>2. /\ Fresh(s, i - 1, n) /\ StackOK(s, i - 1, p)
      /\ OutlineOK(s, i - 1, p) /\ PathsOK(s, i - 1)
  BY DEF ParseOK
<1>3. /\ t \in ParseStates(n) /\ t.stack = Append(rest, e)
      /\ t.parent = [s.parent EXCEPT ![i] = Top(rest)] /\ t.owner = s.owner
      /\ t.path = [s.path EXCEPT ![i] = Append(above, place)]
      /\ Top(rest) \in 0 .. n
  <2>1. IsAdded(t, rest, s, n, i, d)
    BY <1>1, NodeAdded
  <2>2. QED
    BY <2>1 DEF IsAdded
<1>4. /\ s.stack \in Seq(Level(n)) /\ s.parent \in [1 .. n -> Int]
      /\ s.path \in [1 .. n -> Seq(Nat)]
      /\ Len(s.stack) \in Nat
  BY ParseTyped
<1>5. /\ rest \in Seq(Level(n)) /\ Len(rest) <= Len(s.stack) /\ Len(rest) \in Nat
      /\ \A k \in 1 .. Len(rest) : rest[k] = s.stack[k]
      /\ \A k \in 1 .. Len(s.stack) : s.stack[k].indent < d => k <= Len(rest)
  <2>1. rest \in Seq(Level(n))
    BY <1>1, <1>4, PoppedTyped
  <2>2. QED
    BY <1>1, <1>4, <2>1, PoppedTyped
<1>6. Top(rest) = Nearest(Outer(s, i, d, p))
  BY <1>1, <1>2, NearestOnStack
<1> HIDE DEF above, place
<1>7. /\ t.parent[i] = Top(rest) /\ t.parent[i] # NotOne
      /\ \A j \in 1 .. n : j # i => t.parent[j] = s.parent[j] /\ t.path[j] = s.path[j]
      /\ t.path[i] = Append(above, place)
  <2>1. i \in 1 .. n /\ Top(rest) # NotOne
    BY <1>3 DEF NotOne
  <2>2. QED
    BY <1>3, <1>4, <2>1
<1>8. /\ \A j \in 0 .. i - 1 : NodesTo(t, j) = NodesTo(s, j)
      /\ \A j \in 1 .. i, q \in Int : Older(t, j, q) = Older(s, j, q)
      /\ NodesTo(t, i) = NodesTo(s, i - 1) \cup {i}
      /\ NodesTo(s, i - 1) \subseteq 1 .. i - 1
  <2>1. \A j \in 1 .. i - 1 : t.parent[j] = s.parent[j]
    BY <1>1, <1>7
  <2>2. QED
    <3>1. SameAbove(t, s, i)
      BY <2>1, OldNodes
    <3>2. QED
      BY <1>7, <3>1 DEF SameAbove, NodesTo
<1>9. Fresh(t, i, n)
  <2>1. \A j \in i + 1 .. n : j \in i - 1 + 1 .. n /\ j \in 1 .. n /\ j # i
    OBVIOUS
  <2>2. QED
    BY <1>2, <1>7, <2>1 DEF Fresh
<1>10. StackOK(t, i, p)
  <2>1. /\ Len(t.stack) = Len(rest) + 1 /\ t.stack[Len(rest) + 1] = e
        /\ \A k \in 1 .. Len(rest) : t.stack[k] = s.stack[k] /\ k \in 1 .. Len(s.stack)
        /\ \A k \in 1 .. Len(t.stack) : k \in 1 .. Len(rest) \/ k = Len(rest) + 1
    <3>1. e \in Level(n)
      BY <1>1 DEF Level
    <3>2. rest \in Seq(Level(n)) /\ t.stack = Append(rest, e)
      BY <1>3, <1>5
    <3> HIDE DEF e
    <3>3. /\ Len(t.stack) = Len(rest) + 1 /\ t.stack[Len(rest) + 1] = e
          /\ \A k \in 1 .. Len(rest) : t.stack[k] = rest[k]
      BY <3>1, <3>2
    <3>4. /\ \A k \in 1 .. Len(rest) : k \in 1 .. Len(s.stack)
          /\ \A k \in 1 .. Len(rest) + 1 : k \in 1 .. Len(rest) \/ k = Len(rest) + 1
      BY <1>4, <1>5
    <3>5. QED
      BY <1>5, <3>3, <3>4
  <2>2. \A k \in 1 .. Len(t.stack) : /\ t.stack[k].line \in NodesTo(t, i)
                                     /\ t.stack[k].indent = p[t.stack[k].line].indent
    <3> SUFFICES ASSUME NEW k \in 1 .. Len(t.stack)
        PROVE  /\ t.stack[k].line \in NodesTo(t, i)
               /\ t.stack[k].indent = p[t.stack[k].line].indent
      OBVIOUS
    <3>1. CASE k \in 1 .. Len(rest)
      BY <1>2, <1>8, <2>1, <3>1 DEF StackOK
    <3>2. CASE k = Len(rest) + 1
      BY <1>8, <2>1, <3>2
    <3>3. QED
      BY <2>1, <3>1, <3>2
  <2>3. ASSUME NEW k \in 1 .. Len(t.stack), NEW l \in 1 .. Len(t.stack), k < l
        PROVE  t.stack[k].line < t.stack[l].line
    <3>1. k \in 1 .. Len(rest)
      BY <1>5, <2>1, <2>3
    <3>2. CASE l \in 1 .. Len(rest)
      BY <1>2, <2>1, <2>3, <3>1, <3>2 DEF StackOK
    <3>3. CASE l = Len(rest) + 1
      <4>1. s.stack[k].line \in NodesTo(s, i - 1) /\ t.stack[k] = s.stack[k]
        BY <1>2, <2>1, <3>1 DEF StackOK
      <4>2. t.stack[k].line \in 1 .. i - 1 /\ t.stack[l].line = i
        BY <1>8, <2>1, <3>3, <4>1
      <4>3. QED
        BY <4>2
    <3>4. QED
      BY <2>1, <3>2, <3>3
  <2>4. ASSUME NEW j \in NodesTo(t, i),
               \A m \in NodesTo(t, i) : j < m => p[j].indent < p[m].indent
        PROVE  \E k \in 1 .. Len(t.stack) : t.stack[k].line = j
    <3>1. CASE j = i
      BY <1>5, <2>1, <3>1
    <3>2. CASE j \in NodesTo(s, i - 1)
      <4>1. j < i /\ p[j].indent < d
        BY <1>8, <2>4, <3>2
      <4>2. PICK k \in 1 .. Len(s.stack) : s.stack[k].line = j
        BY <1>2, <1>8, <2>4, <3>2 DEF StackOK
      <4>3. s.stack[k].indent < d
        BY <1>2, <4>1, <4>2 DEF StackOK
      <4>4. k \in 1 .. Len(rest)
        BY <1>4, <1>5, <4>2, <4>3
      <4>5. k \in 1 .. Len(t.stack) /\ t.stack[k].line = j
        BY <1>5, <2>1, <4>2, <4>4
      <4>6. QED
        BY <4>5
    <3>3. QED
      BY <1>8, <3>1, <3>2
  <2>5. QED
    BY <2>2, <2>3, <2>4 DEF StackOK
<1>11. OutlineOK(t, i, p)
  <2> SUFFICES ASSUME NEW j \in 1 .. i
      PROVE  /\ j \in NodesTo(t, i) => t.parent[j] = Nearest(Outer(t, j, p[j].indent, p))
             /\ p[j].kind # "blank" /\ j \notin NodesTo(t, i) =>
                  t.owner[j] = Nearest(NodesTo(t, j - 1)) /\ t.owner[j] # 0
    BY DEF OutlineOK
  <2>1. NodesTo(t, j - 1) = NodesTo(s, j - 1) /\ \A k : Outer(t, j, k, p) = Outer(s, j, k, p)
    <3>1. j - 1 \in 0 .. i - 1
      OBVIOUS
    <3>2. QED
      BY <1>8, <3>1 DEF Outer
  <2>2. CASE j = i
    BY <1>6, <1>7, <1>8, <2>1, <2>2
  <2>3. CASE j \in 1 .. i - 1
    <3>1. j \in 1 .. n /\ j # i /\ (j \in NodesTo(t, i) <=> j \in NodesTo(s, i - 1))
      BY <1>1, <1>8, <2>3
    <3>2. QED
      BY <1>2, <1>3, <1>7, <2>1, <2>3, <3>1 DEF OutlineOK
  <2>4. QED
    BY <2>2, <2>3
<1>12. PathsOK(t, i)
  <2> SUFFICES ASSUME NEW j \in NodesTo(t, i) PROVE t.path[j] = PathOf(t, j)
    BY DEF PathsOK
  <2>1. j \in 1 .. i /\ i \in 1 .. n
    BY DEF NodesTo
  <2>2. t.parent[j] \in Int
    <3>1. t.parent \in [1 .. n -> Int] /\ j \in 1 .. n
      BY <1>3, <2>1, ParseTyped
    <3>2. QED
      BY <3>1
  <2>3. t.parent[j] \in 0 .. j - 1
    <3>1. Outer(t, j, p[j].indent, p) \subseteq 1 .. j - 1 /\ j - 1 \in Nat
      BY <2>1 DEF Outer, NodesTo
    <3>2. t.parent[j] = Nearest(Outer(t, j, p[j].indent, p))
      BY <1>11, <2>1 DEF OutlineOK
    <3>3. QED
      BY <3>1, <3>2, NearestIn
  <2>4. CASE j = i
    <3>1. rest = << >> <=> Top(rest) = 0
      BY <1>1, <1>5, TopTyped
    <3>2. place = Cardinality(Older(t, i, t.parent[i])) + 1
      <4>1. Older(t, i, t.parent[i]) = Older(s, i, t.parent[i])
        BY <1>8, <2>1, <2>2, <2>4
      <4>2. QED
        BY <1>7, <4>1 DEF place, PlaceBelow
    <3>3. above = IF t.parent[i] = 0 THEN << >> ELSE t.path[t.parent[i]]
      <4>1. Top(rest) # 0 => Top(rest) \in 1 .. n /\ Top(rest) # i
        BY <1>1, <1>3, <1>7, <2>3, <2>4
      <4>2. Top(rest) # 0 => t.path[Top(rest)] = s.path[Top(rest)]
        BY <1>7, <4>1
      <4>3. QED
        BY <1>7, <3>1, <4>2 DEF above, PathAbove
    <3>4. QED
      BY <1>7, <2>4, <3>2, <3>3 DEF PathOf
  <2>5. CASE j \in NodesTo(s, i - 1)
    <3>1. /\ j # i /\ j \in 1 .. n /\ t.parent[j] = s.parent[j] /\ t.path[j] = s.path[j]
          /\ Older(t, j, t.parent[j]) = Older(s, j, t.parent[j])
      BY <1>1, <1>7, <1>8, <2>1, <2>2, <2>5
    <3>2. t.parent[j] # 0 => t.path[t.parent[j]] = s.path[t.parent[j]]
      <4>1. t.parent[j] # 0 => t.parent[j] \in 1 .. n /\ t.parent[j] # i
        BY <1>1, <2>1, <2>3
      <4>2. QED
        BY <1>7, <4>1
    <3>3. s.path[j] = PathOf(s, j)
      BY <1>2, <2>5 DEF PathsOK
    <3>4. QED
      BY <3>1, <3>2, <3>3 DEF PathOf
  <2>6. QED
    BY <1>8, <2>4, <2>5
<1>13. QED
  BY <1>9, <1>10, <1>11, <1>12 DEF ParseOK

\* The first text of all begins the tree, other text belongs to the top of the stack.
LEMMA LineOutlines ==
  ASSUME NEW p, NEW n \in Nat, n = Len(p), Indented(p, n),
         NEW s \in ParseStates(n), NEW i \in 1 .. n, p[i] \in Lines, ParseOK(s, i - 1, p)
  PROVE  ParseOK(AddLine(s, i, p[i]), i, p)
<1> DEFINE owner == [s.owner EXCEPT ![i] = Top(s.stack)]
           u == [s EXCEPT !.owner = owner]
<1>1. CASE IsNode(s, p[i])
  <2>1. ParseOK(AddNode(s, i, p[i].indent), i, p)
    BY NodeOutlines
  <2>2. QED
    BY <1>1, <2>1 DEF AddLine
<1>2. ASSUME NEW t \in ParseStates(n),
             t.stack = s.stack, t.parent = s.parent, t.path = s.path,
             \A j \in 1 .. i - 1 : t.owner[j] = s.owner[j],
             p[i].kind # "blank" => t.owner[i] = Top(s.stack) /\ s.stack # << >>
      PROVE  ParseOK(t, i, p)
  <2>1. /\ Fresh(s, i - 1, n) /\ StackOK(s, i - 1, p)
        /\ OutlineOK(s, i - 1, p) /\ PathsOK(s, i - 1)
    BY DEF ParseOK
  <2>2. t.parent[i] = NotOne
    BY <1>2, <2>1 DEF Fresh
  <2>3. /\ \A j \in 0 .. i - 1 : NodesTo(t, j) = NodesTo(s, j)
        /\ \A j \in 1 .. i, q \in Int : Older(t, j, q) = Older(s, j, q)
        /\ NodesTo(t, i) = NodesTo(s, i - 1)
        /\ NodesTo(s, i - 1) \subseteq 1 .. i - 1 /\ i - 1 \in Nat
    <3>1. SameAbove(t, s, i)
      BY <1>2, OldNodes
    <3>2. QED
      BY <2>2, <3>1 DEF SameAbove, NodesTo
  <2>4. Fresh(t, i, n)
    BY <1>2, <2>1 DEF Fresh
  <2>5. StackOK(t, i, p)
    BY <1>2, <2>1, <2>3 DEF StackOK
  <2>6. OutlineOK(t, i, p)
    <3> SUFFICES ASSUME NEW j \in 1 .. i
        PROVE  /\ j \in NodesTo(t, i) => t.parent[j] = Nearest(Outer(t, j, p[j].indent, p))
               /\ p[j].kind # "blank" /\ j \notin NodesTo(t, i) =>
                    t.owner[j] = Nearest(NodesTo(t, j - 1)) /\ t.owner[j] # 0
      BY DEF OutlineOK
    <3>1. CASE j \in 1 .. i - 1
      <4>1. /\ NodesTo(t, j - 1) = NodesTo(s, j - 1)
            /\ \A k : Outer(t, j, k, p) = Outer(s, j, k, p)
        <5>1. j - 1 \in 0 .. i - 1
          OBVIOUS
        <5>2. QED
          BY <2>3, <5>1 DEF Outer
      <4>2. QED
        BY <1>2, <2>1, <2>3, <3>1, <4>1 DEF OutlineOK
    <3>2. CASE j = i
      <4>1. i \notin NodesTo(t, i)
        BY <2>3
      <4> SUFFICES ASSUME p[i].kind # "blank"
          PROVE  t.owner[i] = Nearest(NodesTo(t, i - 1)) /\ t.owner[i] # 0
        BY <3>2, <4>1
      <4>2. /\ s.stack \in Seq(Level(n)) /\ Len(s.stack) \in Nat /\ Len(s.stack) # 0
            /\ Top(s.stack) = s.stack[Len(s.stack)].line /\ Top(s.stack) \in 1 .. n
        <5>1. s.stack \in Seq(Level(n)) /\ s.stack # << >>
          BY <1>2, ParseTyped
        <5>2. Len(s.stack) \in Nat /\ Len(s.stack) # 0
          BY <5>1
        <5>3. QED
          BY <5>1, <5>2, TopTyped
      <4> DEFINE S == NodesTo(s, i - 1)
                 m == Nearest(S)
      <4>3. Top(s.stack) \in S
        BY <2>1, <4>2 DEF StackOK
      <4>4. m \in S /\ \A k \in S : k <= m
        <5> HIDE DEF S
        <5>1. S \subseteq 1 .. i - 1 /\ S # {}
          BY <2>3, <4>3 DEF S
        <5>2. QED
          BY <2>3, <5>1, NearestIn
      <4> HIDE DEF m
      <4>5. \A k \in S : ~(m < k)
        BY <2>3, <4>4
      <4>6. PICK k \in 1 .. Len(s.stack) : s.stack[k].line = m
        BY <2>1, <4>4, <4>5 DEF StackOK
      <4>7. k = Len(s.stack) \/ s.stack[k].line < s.stack[Len(s.stack)].line
        BY <2>1, <4>2 DEF StackOK
      <4>8. Top(s.stack) = m
        BY <4>2, <4>3, <4>5, <4>6, <4>7
      <4>9. NodesTo(t, i - 1) = S
        BY <2>3
      <4>10. QED
        BY <1>2, <4>2, <4>8, <4>9 DEF m
    <3>3. QED
      BY <3>1, <3>2
  <2>7. PathsOK(t, i)
    <3> SUFFICES ASSUME NEW j \in NodesTo(t, i) PROVE t.path[j] = PathOf(t, j)
      BY DEF PathsOK
    <3>1. j \in NodesTo(s, i - 1) /\ j \in 1 .. n /\ j \in 1 .. i
      BY <2>3
    <3>2. s.parent[j] \in Int
      BY <3>1, ParseTyped
    <3>3. Older(t, j, s.parent[j]) = Older(s, j, s.parent[j])
      BY <2>3, <3>1, <3>2
    <3>4. QED
      BY <1>2, <2>1, <3>1, <3>3 DEF PathsOK, PathOf
  <2>8. QED
    BY <2>4, <2>5, <2>6, <2>7 DEF ParseOK
<1>3. CASE ~IsNode(s, p[i]) /\ p[i].kind = "text"
  <2>1. s.stack # << >> /\ AddLine(s, i, p[i]) = u
    BY <1>3 DEF IsNode, AddLine
  <2>2. u \in ParseStates(n)
    BY <2>1, AddLineTyped
  <2>3. /\ u.stack = s.stack /\ u.parent = s.parent /\ u.path = s.path
        /\ \A j \in 1 .. i - 1 : u.owner[j] = s.owner[j]
        /\ u.owner[i] = Top(s.stack)
    <3>1. s.owner \in [1 .. n -> Int]
      BY ParseTyped
    <3>2. /\ owner[i] = Top(s.stack)
          /\ \A j \in 1 .. i - 1 : owner[j] = s.owner[j]
      BY <3>1
    <3> HIDE DEF owner
    <3>3. /\ u.stack = s.stack /\ u.parent = s.parent /\ u.path = s.path
          /\ u.owner = owner
      BY DEF ParseStates
    <3>4. QED
      BY <3>2, <3>3
  <2> HIDE DEF u
  <2>4. QED
    BY <1>2, <2>1, <2>2, <2>3
<1>4. CASE ~IsNode(s, p[i]) /\ p[i].kind # "text"
  <2>1. p[i].kind = "blank" /\ AddLine(s, i, p[i]) = s
    BY <1>4 DEF IsNode, AddLine, Lines
  <2>2. QED
    BY <1>2, <2>1
<1>5. QED
  BY <1>1, <1>3, <1>4

\* After the last line.
LEMMA Parsed ==
  ASSUME NEW p \in Seq(Lines)
  PROVE  Parse(p) \in ParseStates(Len(p)) /\ ParseOK(Parse(p), Len(p), p)
<1> DEFINE n == Len(p)
           good == {x \in Nat \X ParseStates(n) : ParseOK(x[2], x[1], p)}
<1>1. n \in Nat /\ Indented(p, n) /\ \A i \in 1 .. n : p[i] \in Lines
  <2>1. n \in Nat /\ \A i \in 1 .. n : p[i] \in Lines
    OBVIOUS
  <2>2. QED
    BY <2>1 DEF Indented, Lines
<1>2. PICK G : /\ Parse(p) = G[n] /\ G[0] = NoLines(n) /\ G[0] \in ParseStates(n)
               /\ \A i \in 1 .. n : /\ G[i - 1] \in ParseStates(n)
                                    /\ G[i] = AddLine(G[i - 1], i, p[i])
               /\ G[n] \in ParseStates(n)
  BY ParseLoop
<1>3. ParseOK(NoLines(n), 0, p)
  <2> DEFINE s == NoLines(n)
  <2>1. /\ s.stack = << >> /\ Len(s.stack) = 0
        /\ \A j \in 1 .. n : s.parent[j] = NotOne
    BY DEF NoLines
  <2> HIDE DEF s
  <2>2. NodesTo(s, 0) = {}
    BY DEF NodesTo
  <2>3. Fresh(s, 0, n) /\ StackOK(s, 0, p) /\ OutlineOK(s, 0, p) /\ PathsOK(s, 0)
    BY <1>1, <2>1, <2>2 DEF Fresh, StackOK, OutlineOK, PathsOK
  <2>4. QED
    BY <2>3 DEF ParseOK, s
<1>4. <<0, G[0]>> \in good
  BY <1>2, <1>3
<1>5. ASSUME NEW i \in 1 .. n, <<i - 1, G[i - 1]>> \in good PROVE <<i, G[i]>> \in good
  <2>1. /\ G[i - 1] \in ParseStates(n) /\ ParseOK(G[i - 1], i - 1, p) /\ p[i] \in Lines
        /\ G[i] = AddLine(G[i - 1], i, p[i])
    BY <1>1, <1>2, <1>5
  <2>2. G[i] \in ParseStates(n)
    BY <1>1, <2>1, AddLineTyped
  <2>3. ParseOK(G[i], i, p)
    BY <1>1, <2>1, LineOutlines
  <2>4. QED
    BY <2>2, <2>3
<1> HIDE DEF good
<1>6. \A i \in 0 .. n : <<i, G[i]>> \in good
  <2> HIDE DEF n
  <2> QED
    BY <1>1, <1>4, <1>5, LoopKeeps
<1>7. <<n, G[n]>> \in good
  BY <1>1, <1>6
<1>8. QED
  BY <1>2, <1>7 DEF good

\* The tree is the outline of the lines.
LEMMA OutlineOf ==
  ASSUME lines \in Seq(Lines)
  PROVE  PlanIsOutline
<1> DEFINE s == Parse(lines)
           n == Len(lines)
           nodes == NodesOf(s)
<1>1. n \in Nat /\ s \in ParseStates(n) /\ OutlineOK(s, n, lines)
  BY Parsed DEF ParseOK
<1> HIDE DEF s
<1>2. nodes = NodesTo(s, n) /\ nodes \subseteq 1 .. n
  <2>1. DOMAIN s.parent = 1 .. n
    BY <1>1, ParseTyped
  <2>2. QED
    BY <2>1 DEF NodesOf, NodesTo
<1>3. ASSUME NEW i \in 1 .. n
      PROVE  /\ i \in nodes => s.parent[i] =
                  Nearest({j \in nodes : j < i /\ lines[j].indent < lines[i].indent})
             /\ lines[i].kind # "blank" /\ i \notin nodes =>
                  s.owner[i] = Nearest({j \in nodes : j < i}) /\ s.owner[i] # 0
  <2>1. NodesTo(s, i - 1) = {j \in nodes : j < i}
    BY <1>1, <1>2 DEF NodesTo
  <2>2. Outer(s, i, lines[i].indent, lines)
          = {j \in nodes : j < i /\ lines[j].indent < lines[i].indent}
    BY <2>1 DEF Outer
  <2> HIDE DEF nodes
  <2>3. QED
    BY <1>1, <1>2, <2>1, <2>2 DEF OutlineOK
<1>4. QED
  BY <1>3 DEF PlanIsOutline, s

\* The nodes have different places, and that of a node's parent is in front of it.
LEMMA PlacesOf ==
  ASSUME NEW p \in Seq(Lines)
  PROVE  /\ \A i, j \in NodesOf(Parse(p)) : Parse(p).path[i] = Parse(p).path[j] => i = j
         /\ PathsOf(p) \subseteq Seq(Nat)
         /\ \A q \in PathsOf(p) : Len(q) > 1 => Front(q) \in PathsOf(p)
<1> DEFINE s == Parse(p)
           n == Len(p)
           nodes == NodesOf(s)
<1>1. n \in Nat /\ s \in ParseStates(n) /\ OutlineOK(s, n, p) /\ PathsOK(s, n)
  BY Parsed DEF ParseOK
<1> HIDE DEF s
<1>2. nodes = NodesTo(s, n) /\ nodes \subseteq 1 .. n
  <2>1. DOMAIN s.parent = 1 .. n
    BY <1>1, ParseTyped
  <2>2. QED
    BY <2>1 DEF NodesOf, NodesTo
<1> HIDE DEF nodes
<1>3. \A i \in nodes : s.parent[i] \in 0 .. i - 1 /\ (s.parent[i] # 0 => s.parent[i] \in nodes)
  <2> SUFFICES ASSUME NEW i \in nodes
      PROVE  s.parent[i] \in 0 .. i - 1 /\ (s.parent[i] # 0 => s.parent[i] \in nodes)
    OBVIOUS
  <2> DEFINE S == Outer(s, i, p[i].indent, p)
  <2>1. i \in 1 .. n /\ i - 1 \in Nat /\ S \subseteq 1 .. i - 1 /\ S \subseteq nodes
    BY <1>1, <1>2 DEF Outer, NodesTo
  <2>2. s.parent[i] = Nearest(S)
    BY <1>1, <1>2, <2>1 DEF OutlineOK
  <2> HIDE DEF S
  <2>3. /\ S = {} => Nearest(S) = 0
        /\ S # {} => Nearest(S) \in S
    BY <2>1, NearestIn
  <2>4. CASE S = {}
    BY <2>1, <2>2, <2>3, <2>4
  <2>5. CASE S # {}
    <3>1. Nearest(S) \in 1 .. i - 1 /\ Nearest(S) \in nodes
      BY <2>1, <2>3, <2>5
    <3>2. s.parent[i] \in 1 .. i - 1 /\ s.parent[i] \in nodes
      BY <2>2, <3>1
    <3>3. QED
      BY <2>1, <3>2
  <2>6. QED
    BY <2>4, <2>5
<1> DEFINE above(i) == IF s.parent[i] = 0 THEN << >> ELSE s.path[s.parent[i]]
           place(i) == Cardinality(Older(s, i, s.parent[i])) + 1
<1>4. ASSUME NEW i \in nodes
      PROVE  /\ s.path[i] = Append(above(i), place(i))
             /\ above(i) \in Seq(Nat) /\ place(i) \in Nat /\ s.path[i] \in Seq(Nat)
  <2>1. \A j \in nodes : s.path[j] \in Seq(Nat)
    BY <1>1, <1>2, ParseTyped
  <2>2. i \in Nat /\ place(i) \in Nat
    BY <1>2, OlderCounted
  <2>3. above(i) \in Seq(Nat)
    BY <1>3, <2>1
  <2>4. QED
    BY <1>1, <1>2, <2>1, <2>2, <2>3 DEF PathsOK, PathOf
<1> HIDE DEF above, place
<1>5. ASSUME NEW i \in nodes
      PROVE  /\ Len(s.path[i]) = Len(above(i)) + 1 /\ Len(above(i)) \in Nat
             /\ Front(s.path[i]) = above(i) /\ s.path[i][Len(s.path[i])] = place(i)
  <2> DEFINE a == above(i)
             c == place(i)
             q == s.path[i]
  <2>1. a \in Seq(Nat) /\ c \in Nat /\ q = Append(a, c)
    BY <1>4
  <2> HIDE DEF a, c, q
  <2>2. Len(q) = Len(a) + 1 /\ Len(a) \in Nat /\ q[Len(q)] = c
    BY <2>1
  <2>3. \A k \in 1 .. Len(a) : q[k] = a[k]
    BY <2>1
  <2>4. Front(q) = a
    <3>1. Front(q) = [k \in 1 .. Len(a) |-> q[k]]
      BY <2>1, <2>2 DEF Front
    <3>2. a = [k \in 1 .. Len(a) |-> a[k]]
      BY <2>1
    <3>3. QED
      BY <2>3, <3>1, <3>2
  <2>5. QED
    BY <2>2, <2>4 DEF a, c, q
<1>6. \A i, j \in nodes : s.path[i] = s.path[j] => i = j
  <2> DEFINE T == {i \in nodes : \E j \in nodes : j < i /\ s.path[i] = s.path[j]}
  <2>1. T = {}
    <3> SUFFICES ASSUME T # {} PROVE FALSE
      OBVIOUS
    <3>1. T \subseteq Nat
      BY <1>2
    <3>2. PICK i \in T : \A k \in T : i <= k
      <4> HIDE DEF T
      <4> QED
        BY <3>1, LeastNumber
    <3>3. PICK j \in nodes : j < i /\ s.path[i] = s.path[j]
      BY <3>2
    <3>4. above(i) = above(j) /\ place(i) = place(j)
      BY <1>5, <3>2, <3>3
    <3>5. i \in nodes /\ i \in Nat /\ j \in Nat
      BY <1>2, <3>2, <3>3
    <3>6. s.parent[i] = s.parent[j]
      <4>1. CASE s.parent[i] # 0 /\ s.parent[j] # 0
        <5> DEFINE a == s.parent[i]
                   b == s.parent[j]
        <5>1. a \in nodes /\ b \in nodes /\ a < i /\ b < i /\ a \in Nat /\ b \in Nat
          BY <1>3, <3>3, <3>5, <4>1
        <5>2. s.path[a] = s.path[b]
          BY <3>4, <4>1 DEF above
        <5>3. ASSUME NEW k \in nodes, NEW l \in nodes, l < k, s.path[k] = s.path[l], k < i
              PROVE  FALSE
          <6>1. k \in T
            BY <5>3
          <6>2. i <= k /\ k \in Nat
            BY <1>2, <3>2, <6>1
          <6>3. QED
            BY <3>5, <5>3, <6>2
        <5>4. ~(a < b) /\ ~(b < a)
          BY <5>1, <5>2, <5>3
        <5>5. QED
          BY <5>1, <5>4
      <4>2. ASSUME NEW k \in nodes, s.parent[k] # 0 PROVE above(k) # << >>
        <5>1. s.parent[k] \in nodes /\ above(k) = s.path[s.parent[k]]
          BY <1>3, <4>2 DEF above
        <5>2. Len(above(k)) # 0
          BY <1>5, <5>1
        <5>3. QED
          BY <5>2
      <4>3. CASE s.parent[i] = 0 /\ s.parent[j] # 0
        BY <3>4, <4>2, <4>3 DEF above
      <4>4. CASE s.parent[i] # 0 /\ s.parent[j] = 0
        BY <3>4, <3>5, <4>2, <4>4 DEF above
      <4>5. CASE s.parent[i] = 0 /\ s.parent[j] = 0
        BY <4>5
      <4>6. QED
        BY <4>1, <4>3, <4>4, <4>5
    <3>7. /\ Older(s, j, s.parent[i]) \subseteq Older(s, i, s.parent[i])
          /\ j \in Older(s, i, s.parent[i]) /\ j \notin Older(s, j, s.parent[i])
      BY <1>2, <3>3, <3>5, <3>6 DEF Older
    <3> DEFINE A == Older(s, j, s.parent[i])
               B == Older(s, i, s.parent[i])
    <3>8. IsFiniteSet(B) /\ Cardinality(A) = Cardinality(B)
          /\ Cardinality(A) \in Nat /\ Cardinality(B) \in Nat
      <4>1. /\ IsFiniteSet(B) /\ Cardinality(A) \in Nat /\ Cardinality(B) \in Nat
        BY <3>5, OlderCounted
      <4>2. Cardinality(A) + 1 = Cardinality(B) + 1
        BY <3>4, <3>6 DEF place
      <4> HIDE DEF A, B
      <4>3. QED
        BY <4>1, <4>2
    <3> HIDE DEF A, B
    <3>9. Cardinality(A) < Cardinality(B)
      BY <3>7, <3>8, FS_Subset DEF A, B
    <3>10. QED
      BY <3>8, <3>9
  <2>2. \A i, j \in nodes : i \in Nat /\ j \in Nat
    BY <1>2
  <2>3. QED
    BY <2>1, <2>2
<1>7. \A i \in nodes : Len(s.path[i]) > 1 => \E j \in nodes : Front(s.path[i]) = s.path[j]
  <2> SUFFICES ASSUME NEW i \in nodes, Len(s.path[i]) > 1
      PROVE  \E j \in nodes : Front(s.path[i]) = s.path[j]
    OBVIOUS
  <2>1. Len(above(i)) # 0 /\ Front(s.path[i]) = above(i)
    BY <1>5
  <2>2. s.parent[i] # 0
    BY <2>1 DEF above
  <2>3. QED
    BY <1>3, <2>1, <2>2 DEF above
<1>8. PathsOf(p) = {s.path[i] : i \in nodes}
  BY DEF PathsOf, s, nodes
<1>9. QED
  BY <1>4, <1>6, <1>7, <1>8 DEF s, nodes

(***************************************************************************)
(* TreeViews: what is on the screen.                                       *)
(***************************************************************************)
\* The inductive invariant.
TreeInv == TreeTypeOK /\ OnlyVisibleFlipped

\* A plan's lines are lines, and the nodes of both kinds of tree are sequences.
LEMMA TreeShape ==
  ASSUME TreeTypeOK
  PROVE  lines \in Seq(Lines) /\ tree \subseteq Seq(Nat)
<1>1. lines \in Seq(Lines)
  <2>1. CASE lines = << >>
    BY <2>1
  <2>2. CASE lines \in Plans
    BY <2>2, PlansAreLines
  <2>3. QED
    BY <2>1, <2>2 DEF TreeTypeOK
<1>2. PathsOf(lines) \subseteq Seq(Nat)
  BY <1>1, PlacesOf
<1>3. QED
  BY <1>1, <1>2, DocumentsHaveRoots DEF TreeTypeOK

\* What is above something above p is above p.
LEMMA AboveAbove ==
  ASSUME NEW o \in Seq(Nat), NEW q \in Seq(Nat), NEW p \in Seq(Nat), Above(o, q), Above(q, p)
  PROVE  Above(o, p)
<1>1. /\ Len(o) \in Nat /\ Len(q) \in Nat /\ Len(p) \in Nat
      /\ Len(o) < Len(q) /\ Len(q) < Len(p)
  BY DEF Above
<1>2. /\ \A k \in 1 .. Len(q) : q[k] = p[k]
      /\ \A k \in 1 .. Len(o) : o[k] = q[k]
  <2>1. /\ \A k \in 1 .. Len(q) : SubSeq(p, 1, Len(q))[k] = p[k]
        /\ \A k \in 1 .. Len(o) : SubSeq(q, 1, Len(o))[k] = q[k]
    BY <1>1
  <2>2. QED
    BY <2>1 DEF Above
<1>3. /\ Len(SubSeq(p, 1, Len(o))) = Len(o) /\ SubSeq(p, 1, Len(o)) \in Seq(Nat)
      /\ \A k \in 1 .. Len(o) : SubSeq(p, 1, Len(o))[k] = p[k]
  BY <1>1
<1> DEFINE r == SubSeq(p, 1, Len(o))
<1> HIDE DEF r
<1>4. \A k \in 1 .. Len(o) : o[k] = r[k]
  BY <1>1, <1>2, <1>3 DEF r
<1>5. Len(r) = Len(o) /\ r \in Seq(Nat)
  BY <1>3 DEF r
<1>6. o = r
  BY <1>4, <1>5, SeqEqual
<1>7. QED
  BY <1>1, <1>6 DEF Above, r

\* TreeInv holds at first.
LEMMA InitTree == TreeInit => TreeInv
BY DEF TreeInit, TreeInv, TreeTypeOK, OnlyVisibleFlipped

\* A click on the chevron of a node takes what is below it off the screen, and
\* with it the state of what was there.
LEMMA ToggleKeeps ==
  ASSUME TreeInv, NEW p \in tree, Toggle(p)
  PROVE  OnlyVisibleFlipped'
<1>1. /\ p \in OnScreen /\ tree' = tree /\ kind' = kind
      /\ flipped' = {q \in IF p \in flipped THEN flipped \ {p} ELSE flipped \cup {p} :
                       ~Above(p, q)}
  BY DEF Toggle
<1>2. tree \subseteq Seq(Nat) /\ flipped \subseteq OnScreen
  BY TreeShape DEF TreeInv, OnlyVisibleFlipped
<1>3. ASSUME NEW r \in flipped', NEW q \in tree, Above(q, r) PROVE Expanded(q)'
  <2>1. r \in tree /\ Expanded(q)
    BY <1>1, <1>2, <1>3 DEF OnScreen
  <2>2. ~Above(p, r) /\ q # p
    <3>1. ~Above(p, r)
      BY <1>1
    <3>2. QED
      BY <1>3, <3>1
  <2>3. ~Above(p, q)
    BY <1>2, <1>3, <2>1, <2>2, AboveAbove
  <2>4. q \in flipped' <=> q \in flipped
    BY <1>1, <2>2, <2>3
  <2>5. QED
    BY <1>1, <2>1, <2>4 DEF Expanded, ExpandedAtFirst
<1>4. flipped' \subseteq tree
  BY <1>1, <1>2 DEF OnScreen
<1>5. QED
  BY <1>1, <1>3, <1>4 DEF OnlyVisibleFlipped, OnScreen

\* TreeInv is inductive.
LEMMA NextTree == TreeInv /\ [TreeNext]_treeVars => TreeInv'
<1> SUFFICES ASSUME TreeInv, [TreeNext]_treeVars PROVE TreeInv'
  OBVIOUS
<1>1. TreeTypeOK /\ flipped \subseteq OnScreen
  BY DEF TreeInv, OnlyVisibleFlipped
<1>2. CASE \E p \in Plans : kind \in {"none", "plan"} /\ ShowPlan(p)
  <2>1. PICK p \in Plans : kind \in {"none", "plan"} /\ ShowPlan(p)
    BY <1>2
  <2>2. TreeTypeOK'
    BY <2>1 DEF ShowPlan, TreeTypeOK
  <2>3. ASSUME NEW r \in flipped' PROVE r \in OnScreen'
    <3>1. kind = "plan" /\ kind' = "plan" /\ flipped' = flipped \cap tree'
      BY <2>1, <2>3 DEF ShowPlan
    <3>2. ASSUME NEW q \in tree', Above(q, r) PROVE Expanded(q)'
      <4>1. q \in flipped => q \in tree
        BY <1>1 DEF OnScreen
      <4>2. q \in flipped => Expanded(q)
        BY <1>1, <3>1, <3>2, <4>1 DEF OnScreen
      <4>3. q \notin flipped'
        BY <3>1, <4>2 DEF Expanded, ExpandedAtFirst
      <4>4. QED
        BY <3>1, <4>3 DEF Expanded, ExpandedAtFirst
    <3>3. QED
      BY <3>1, <3>2 DEF OnScreen
  <2>4. QED
    BY <2>2, <2>3 DEF TreeInv, OnlyVisibleFlipped
<1>3. CASE \E d \in Documents : ShowJson(d)
  BY <1>3 DEF ShowJson, TreeInv, TreeTypeOK, OnlyVisibleFlipped
<1>4. CASE Leave
  BY <1>4 DEF Leave, TreeInv, TreeTypeOK, OnlyVisibleFlipped
<1>5. CASE \E p \in tree : Toggle(p)
  <2>1. PICK p \in tree : Toggle(p)
    BY <1>5
  <2>2. TreeTypeOK'
    BY <1>1, <2>1 DEF Toggle, TreeTypeOK
  <2>3. QED
    BY <2>1, <2>2, ToggleKeeps DEF TreeInv
<1>6. CASE UNCHANGED treeVars
  BY <1>6 DEF treeVars, TreeInv, TreeTypeOK, OnlyVisibleFlipped, OnScreen, Expanded,
              ExpandedAtFirst
<1>7. QED
  BY <1>2, <1>3, <1>4, <1>5, <1>6 DEF TreeNext

\* The inductive invariant of TreeViews.
THEOREM TreeInvariance == TreeSpec => []TreeInv
BY InitTree, NextTree, PTL DEF TreeSpec

\* A plan of any number of lines, with any indents, is shown as its outline: every
\* node below the nearest line above it with less indent (ExplainPlan.tsx:11-45).
THEOREM PlanOutlined == TreeSpec => []PlanIsOutline
<1>1. TreeInv => PlanIsOutline
  BY TreeShape, OutlineOf DEF TreeInv
<1>2. QED
  BY <1>1, TreeInvariance, PTL

\* No two nodes of a plan have one place, and a node's parent is rendered in front
\* of it (ExplainPlan.tsx:97-100, 144).
THEOREM PlacesDistinct == TreeSpec => []PlacesAreDistinct
<1>1. TreeInv => PlacesAreDistinct
  <2> SUFFICES ASSUME TreeInv, kind = "plan"
      PROVE  /\ LET parsed == Parse(lines)
                IN \A i, j \in NodesOf(parsed) : parsed.path[i] = parsed.path[j] => i = j
             /\ \A p \in tree : Len(p) > 1 => Front(p) \in tree
    BY DEF PlacesAreDistinct
  <2>1. lines \in Seq(Lines) /\ tree = PathsOf(lines)
    BY TreeShape DEF TreeInv, TreeTypeOK
  <2>2. QED
    BY <2>1, PlacesOf
<1>2. QED
  BY <1>1, TreeInvariance, PTL

\* Expanding a node shows what is below it as it was at first: what differs from
\* the first rendering is on the screen (ExplainPlan.tsx:48, JsonbViewer.tsx:27).
THEOREM VisibleFlipped == TreeSpec => []OnlyVisibleFlipped
<1>1. TreeInv => OnlyVisibleFlipped
  BY DEF TreeInv
<1>2. QED
  BY <1>1, TreeInvariance, PTL

(***************************************************************************)
(* The parts together, as panel_calls runs them.                           *)
(***************************************************************************)
\* A behaviour of all is one of each part.
LEMMA PanelParts == PanelSpec => Spec /\ EditorSpec /\ AiSpec /\ TableSpec /\ TreeSpec
<1>1. PanelInit => Init /\ EditorInit /\ AiInit /\ TableInit /\ TreeInit
  BY DEF PanelInit
<1>2. [PanelNext]_<<part, vars, editorVars, aiVars, tableVars, treeVars>>
        => /\ [Next]_vars /\ [EditorNext]_editorVars /\ [AiNext]_aiVars
           /\ [TableNext]_tableVars /\ [TreeNext]_treeVars
  BY DEF PanelNext
<1>3. QED
  BY <1>1, <1>2, PTL DEF PanelSpec, Spec, EditorSpec, AiSpec, TableSpec, TreeSpec

\* What the parts of the panel keep beside the properties named above.
THEOREM PanelKept == PanelSpec => []PanelInv
<1>1. IndInv /\ EditorInv /\ AiInv /\ TableInv /\ TreeInv
        /\ GridFits /\ PlacesAreDistinct => PanelInv
  BY DEF EditorInv, AiInv, TableInv, TreeInv, PanelInv
<1>2. QED
  BY <1>1, PanelParts, Invariance, EditorInvariance, AiInvariance, TableInvariance,
     TreeInvariance, PageFits, PlacesDistinct, PTL
=============================================================================
