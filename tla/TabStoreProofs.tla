--------------------------- MODULE TabStoreProofs ---------------------------
(***************************************************************************)
(* Safety of TabStore for any number of tabs, tables and functions, and    *)
(* any bound on the counters and turns.                                    *)
(***************************************************************************)
EXTENDS TabStore, FilterTheorems

(***************************************************************************)
(* The invariant, tab by tab and pair by pair.                             *)
(***************************************************************************)
\* What holds of one tab.
TabGood(t) ==
  /\ t \in Tab
  /\ t.type = "table" => t.title = t.tableName
  /\ t.type = "function" =>
       /\ t.functionName # None
       /\ t.title = IF t.tableName = None THEN t.functionName ELSE t.tableName
  /\ t.preview => t.type \in {"table", "function"}
  /\ t.aiTurns > 0 => t.aiCurrentTurnIndex < t.aiTurns

\* The counters are ahead of a tab's generated title.
Counted(t, query, ai) ==
  t.numbered /\ t.title \in Nat =>
    (t.type = "query" => t.title < query) /\ (t.type = "ai" => t.title < ai)

SameObject(t, u) ==
  \/ t.type = "table" /\ u.type = "table" /\ t.tableName = u.tableName
  \/ t.type = "function" /\ u.type = "function" /\ t.functionName = u.functionName

\* What holds of two tabs.
PairGood(t, u) == t.id # u.id /\ ~(t.preview /\ u.preview) /\ ~SameObject(t, u)

Opens(ts, id) == \E i \in DOMAIN ts : ts[i].id = id

\* What holds of a bar of tabs, its active tab and the two counters.
BarGood(ts, active, query, ai) ==
  /\ ts \in Seq(Tab)
  /\ \A i \in DOMAIN ts : TabGood(ts[i]) /\ Counted(ts[i], query, ai)
  /\ \A i, j \in DOMAIN ts : i # j => PairGood(ts[i], ts[j])
  /\ Opens(ts, active)
  /\ query \in 1 .. MaxCounter + 2 /\ ai \in 1 .. MaxCounter + 2

\* The inductive invariant, in the words of TabStore and tab by tab.
IndInv == TabsInv /\ ObjectOpenOnce /\ TitleNamesObject
Bar == BarGood(tabs, activeTabId, queryCounter, aiCounter)

\* The two say the same.
LEMMA ByTab == IndInv <=> Bar
<1> USE DEF OpenTabs, ToSet
<1>1. ASSUME IndInv PROVE Bar
  <2>1. tabs \in Seq(Tab) /\ \A i \in DOMAIN tabs : tabs[i] \in Tab
    BY <1>1 DEF IndInv, TabsInv, TypeOK
  <2>2. ASSUME NEW i \in DOMAIN tabs
        PROVE  TabGood(tabs[i]) /\ Counted(tabs[i], queryCounter, aiCounter)
    <3>1. tabs[i] \in OpenTabs /\ tabs[i] \in Tab
      BY <2>1
    <3>2. TabGood(tabs[i])
      BY <1>1, <3>1 DEF IndInv, TabsInv, TitleNamesObject, OnePreview, AiTurnExists, TabGood
    <3>3. Counted(tabs[i], queryCounter, aiCounter)
      BY <1>1, <3>1 DEF IndInv, TabsInv, CountersAhead, Counted
    <3>4. QED
      BY <3>2, <3>3
  <2>3. \A i, j \in DOMAIN tabs : i # j => PairGood(tabs[i], tabs[j])
    BY <1>1 DEF IndInv, TabsInv, TypeOK, OnePreview, ObjectOpenOnce, PairGood, SameObject
  <2>4. Opens(tabs, activeTabId)
    BY <1>1 DEF IndInv, TabsInv, ActiveTabOpen, OpenIds, Opens
  <2>5. QED
    BY <1>1, <2>1, <2>2, <2>3, <2>4 DEF IndInv, TabsInv, TypeOK, Bar, BarGood
<1>2. ASSUME Bar PROVE IndInv
  <2>1. tabs \in Seq(Tab) /\ Opens(tabs, activeTabId)
    BY <1>2 DEF Bar, BarGood
  <2>2. TypeOK
    <3>1. tabs # << >> /\ activeTabId \in TabIds
      <4>1. PICK i \in DOMAIN tabs : tabs[i].id = activeTabId
        BY <2>1 DEF Opens
      <4>2. tabs[i] \in Tab /\ tabs # << >>
        BY <2>1, <4>1
      <4>3. QED
        BY <4>1, <4>2 DEF Tab
    <3>2. QED
      BY <1>2, <2>1, <3>1 DEF Bar, BarGood, PairGood, TypeOK
  <2>3. ActiveTabOpen
    BY <2>1 DEF ActiveTabOpen, OpenIds, Opens
  <2>4. OnePreview /\ ObjectOpenOnce
    BY <1>2 DEF Bar, BarGood, PairGood, TabGood, SameObject, OnePreview, ObjectOpenOnce
  <2>5. CountersAhead
    BY <1>2 DEF Bar, BarGood, Counted, CountersAhead
  <2>6. AiTurnExists /\ TitleNamesObject
    BY <1>2 DEF Bar, BarGood, TabGood, AiTurnExists, TitleNamesObject
  <2>7. QED
    BY <2>2, <2>3, <2>4, <2>5, <2>6 DEF IndInv, TabsInv
<1>3. QED
  BY <1>1, <1>2

(***************************************************************************)
(* What the operations do to the bar.                                      *)
(***************************************************************************)
\* A function on 1 .. n is a sequence.
LEMMA FunctionIsSeq ==
  ASSUME NEW T, NEW n \in Nat, NEW f, f \in [1 .. n -> T]
  PROVE  f \in Seq(T) /\ Len(f) = n
OBVIOUS

\* A tab opens at the right end.
LEMMA AppendGood ==
  ASSUME NEW ts, NEW active, NEW query, NEW ai, BarGood(ts, active, query, ai),
         NEW query2 \in 1 .. MaxCounter + 2, query <= query2,
         NEW ai2 \in 1 .. MaxCounter + 2, ai <= ai2,
         NEW t, TabGood(t), Counted(t, query2, ai2),
         \A i \in DOMAIN ts : PairGood(t, ts[i]) /\ PairGood(ts[i], t)
  PROVE  BarGood(Append(ts, t), t.id, query2, ai2)
<1> DEFINE ts2 == Append(ts, t)
<1>1. ts \in Seq(Tab) /\ t \in Tab /\ DOMAIN ts = 1 .. Len(ts) /\ Len(ts) \in Nat
  BY DEF BarGood, TabGood
<1>2. /\ ts2 \in Seq(Tab) /\ DOMAIN ts2 = 1 .. Len(ts) + 1
      /\ ts2[Len(ts) + 1] = t /\ \A i \in DOMAIN ts : ts2[i] = ts[i]
  BY <1>1
<1>3. \A i \in DOMAIN ts2 : i = Len(ts) + 1 \/ i \in DOMAIN ts
  BY <1>1, <1>2
<1> HIDE DEF ts2
<1>4. ASSUME NEW i \in DOMAIN ts PROVE Counted(ts[i], query2, ai2)
  <2>1. query \in Int /\ ai \in Int /\ query2 \in Int /\ ai2 \in Int
    BY DEF BarGood
  <2>2. Counted(ts[i], query, ai)
    BY DEF BarGood
  <2>3. QED
    BY <2>1, <2>2 DEF Counted
<1>5. \A i \in DOMAIN ts2 : TabGood(ts2[i]) /\ Counted(ts2[i], query2, ai2)
  BY <1>2, <1>3, <1>4 DEF BarGood
<1>6. \A i, j \in DOMAIN ts2 : i # j => PairGood(ts2[i], ts2[j])
  BY <1>2, <1>3 DEF BarGood
<1>7. Opens(ts2, t.id)
  BY <1>1, <1>2 DEF Opens
<1>8. QED
  BY <1>2, <1>5, <1>6, <1>7 DEF BarGood, ts2

\* One tab is replaced, in its place and under its id.
Replaced(ts2, ts, k, t) ==
  /\ ts2 = [i \in DOMAIN ts |-> ts2[i]]
  /\ ts2[k] = t
  /\ \A i \in DOMAIN ts : ts[i].id # ts[k].id => ts2[i] = ts[i]

\* One tab is replaced by another with its id.
LEMMA ReplaceGood ==
  ASSUME NEW ts, NEW active, NEW query, NEW ai, BarGood(ts, active, query, ai),
         NEW k \in DOMAIN ts, NEW t, TabGood(t), Counted(t, query, ai), t.id = ts[k].id,
         \A i \in DOMAIN ts \ {k} : PairGood(t, ts[i]) /\ PairGood(ts[i], t),
         NEW active2, Opens(ts, active2),
         NEW ts2, Replaced(ts2, ts, k, t)
  PROVE  /\ BarGood(ts2, active2, query, ai)
         /\ DOMAIN ts2 = DOMAIN ts /\ \A i \in DOMAIN ts \ {k} : ts2[i] = ts[i]
<1>1. ts \in Seq(Tab) /\ t \in Tab
  BY DEF BarGood, TabGood
<1>2. DOMAIN ts2 = DOMAIN ts /\ ts2[k] = t /\ \A i \in DOMAIN ts \ {k} : ts2[i] = ts[i]
  BY DEF Replaced, BarGood, PairGood
<1>3. ts2 \in Seq(Tab)
  <2>1. DOMAIN ts = 1 .. Len(ts) /\ Len(ts) \in Nat
    BY <1>1
  <2>2. \A i \in DOMAIN ts : ts2[i] \in Tab
    BY <1>1, <1>2
  <2>3. ts2 \in [1 .. Len(ts) -> Tab]
    BY <2>1, <2>2 DEF Replaced
  <2>4. QED
    BY <2>1, <2>3, FunctionIsSeq
<1>4. \A i \in DOMAIN ts2 : TabGood(ts2[i]) /\ Counted(ts2[i], query, ai)
  BY <1>2 DEF BarGood
<1>5. \A i, j \in DOMAIN ts2 : i # j => PairGood(ts2[i], ts2[j])
  BY <1>2 DEF BarGood
<1>6. Opens(ts2, active2)
  BY <1>2 DEF Opens
<1>7. QED
  BY <1>2, <1>3, <1>4, <1>5, <1>6 DEF BarGood

\* t shows what u does, and is a preview only if u is.
Alike(t, u) ==
  /\ t.id = u.id /\ t.type = u.type
  /\ t.tableName = u.tableName /\ t.functionName = u.functionName
  /\ t.preview => u.preview

\* One tab is changed, in nothing that another tab is compared with.
LEMMA TouchGood ==
  ASSUME NEW ts, NEW active, NEW query, NEW ai, BarGood(ts, active, query, ai),
         NEW k \in DOMAIN ts, NEW t, TabGood(t), Counted(t, query, ai), Alike(t, ts[k]),
         NEW active2, Opens(ts, active2),
         NEW ts2, Replaced(ts2, ts, k, t)
  PROVE  /\ BarGood(ts2, active2, query, ai)
         /\ DOMAIN ts2 = DOMAIN ts /\ \A i \in DOMAIN ts \ {k} : ts2[i] = ts[i]
<1>1. \A i \in DOMAIN ts \ {k} : PairGood(t, ts[i]) /\ PairGood(ts[i], t)
  BY DEF BarGood, PairGood, SameObject, Alike
<1>2. t.id = ts[k].id
  BY DEF Alike
<1>3. QED
  BY <1>1, <1>2, ReplaceGood

\* The tabs of a bar are drawn from another, each once.
Drawn(ts2, ts, f) ==
  /\ f \in [DOMAIN ts2 -> DOMAIN ts]
  /\ \A i \in DOMAIN ts2 : ts2[i] = ts[f[i]]
  /\ \A i, j \in DOMAIN ts2 : f[i] = f[j] => i = j

\* The tabs are drawn from those that there were: some close, or they are reordered.
LEMMA DrawnGood ==
  ASSUME NEW ts, NEW active, NEW query, NEW ai, BarGood(ts, active, query, ai),
         NEW ts2 \in Seq(Tab), NEW f, Drawn(ts2, ts, f),
         NEW active2, Opens(ts2, active2),
         NEW query2 \in 1 .. MaxCounter + 2, NEW ai2 \in 1 .. MaxCounter + 2,
         \A i \in DOMAIN ts2 : Counted(ts2[i], query2, ai2)
  PROVE  BarGood(ts2, active2, query2, ai2)
BY DEF BarGood, Drawn

\* A filter draws tabs.
LEMMA KeptDrawn ==
  ASSUME NEW ts \in Seq(Tab), NEW S
  PROVE  /\ Kept(ts, S) \in Seq(Tab) /\ \E f : Drawn(Kept(ts, S), ts, f)
         /\ \A i \in DOMAIN Kept(ts, S) : Kept(ts, S)[i] \in S
         /\ \A i \in DOMAIN ts : ts[i] \in S => \E j \in DOMAIN Kept(ts, S) : Kept(ts, S)[j] = ts[i]
<1> DEFINE k == Kept(ts, S)
<1>1. PICK f : k \in Seq(Tab) /\ PlacesIn(k, f, Len(ts), ts, S)
  BY KeptPlaces
<1> HIDE DEF k
<1>2. DOMAIN k = 1 .. Len(k) /\ DOMAIN ts = 1 .. Len(ts) /\ Len(k) \in Nat
  BY <1>1
<1>3. \A i, j \in DOMAIN k : f[i] = f[j] => i = j
  <2> SUFFICES ASSUME NEW i \in DOMAIN k, NEW j \in DOMAIN k, f[i] = f[j], i # j PROVE FALSE
    OBVIOUS
  <2>1. f[i] \in Int /\ f[j] \in Int
    BY <1>1, <1>2 DEF PlacesIn
  <2>2. i < j \/ j < i
    BY <1>2
  <2>3. QED
    BY <1>1, <1>2, <2>1, <2>2 DEF PlacesIn
<1>4. Drawn(k, ts, f)
  BY <1>1, <1>2, <1>3 DEF Drawn, PlacesIn
<1>5. \A i \in DOMAIN k : k[i] \in S
  BY <1>1, <1>2 DEF PlacesIn
<1>6. ASSUME NEW i \in DOMAIN ts, ts[i] \in S PROVE \E j \in DOMAIN k : k[j] = ts[i]
  <2>1. PICK j \in DOMAIN k : f[j] = i
    BY <1>1, <1>2, <1>6 DEF PlacesIn
  <2>2. QED
    BY <1>1, <1>2, <2>1 DEF PlacesIn
<1>7. QED
  BY <1>1, <1>4, <1>5, <1>6 DEF k

\* Dragging a tab draws all of them.
LEMMA MovedDrawn ==
  ASSUME NEW ts \in Seq(Tab), NEW from \in DOMAIN ts, NEW to \in DOMAIN ts,
         NEW ts2, ts2 = InsertAt(RemoveAt(ts, from), to, ts[from])
  PROVE  /\ ts2 \in Seq(Tab) /\ \E f : Drawn(ts2, ts, f)
         /\ \A i \in DOMAIN ts : \E j \in DOMAIN ts2 : ts2[j] = ts[i]
<1> DEFINE n == Len(ts)
           left == SubSeq(ts, 1, from - 1)
           right == SubSeq(ts, from + 1, n)
           rest == left \o right
<1>1. /\ n \in Nat /\ DOMAIN ts = 1 .. n /\ from \in 1 .. n /\ to \in 1 .. n
      /\ \A i \in 1 .. n : ts[i] \in Tab
  OBVIOUS
<1>2. /\ left \in Seq(Tab) /\ Len(left) = from - 1
      /\ \A i \in 1 .. from - 1 : left[i] = ts[i]
  BY <1>1
<1>3. /\ right \in Seq(Tab) /\ Len(right) = n - from
      /\ \A i \in 1 .. n - from : right[i] = ts[from + i]
  BY <1>1
<1> HIDE DEF n, left, right
<1>4. /\ rest \in Seq(Tab) /\ Len(rest) = n - 1
      /\ \A i \in 1 .. n - 1 : rest[i] = IF i < from THEN ts[i] ELSE ts[i + 1]
  <2>1. rest \in Seq(Tab) /\ Len(rest) = n - 1
    <3>1. rest \in Seq(Tab) /\ Len(rest) = Len(left) + Len(right)
      BY <1>2, <1>3, ConcatProperties
    <3>2. QED
      BY <1>1, <1>2, <1>3, <3>1
  <2>2. ASSUME NEW i \in 1 .. n - 1, i < from PROVE rest[i] = ts[i]
    BY <1>1, <1>2, <1>3, <2>2
  <2>3. ASSUME NEW i \in 1 .. n - 1, ~(i < from) PROVE rest[i] = ts[i + 1]
    <3>1. i - (from - 1) \in 1 .. n - from /\ from + (i - (from - 1)) = i + 1
      BY <1>1, <2>3
    <3>2. rest[i] = right[i - (from - 1)]
      BY <1>1, <1>2, <1>3, <2>3
    <3>3. QED
      BY <1>3, <3>1, <3>2
  <2>4. QED
    BY <2>1, <2>2, <2>3
<1>5. ts2 = SubSeq(rest, 1, to - 1) \o <<ts[from]>> \o SubSeq(rest, to, Len(rest))
  BY DEF InsertAt, RemoveAt, n, left, right
<1> HIDE DEF rest
<1> DEFINE before == SubSeq(rest, 1, to - 1)
           after == SubSeq(rest, to, Len(rest))
<1>6. /\ before \in Seq(Tab) /\ Len(before) = to - 1
      /\ \A i \in 1 .. to - 1 : before[i] = rest[i]
  BY <1>1, <1>4
<1>7. /\ after \in Seq(Tab) /\ Len(after) = n - to
      /\ \A i \in 1 .. n - to : after[i] = rest[to + i - 1]
  BY <1>1, <1>4
<1>8. ts2 = before \o <<ts[from]>> \o after
  BY <1>5
<1> HIDE DEF before, after
<1>9. /\ ts2 \in Seq(Tab) /\ Len(ts2) = n /\ ts2[to] = ts[from]
      /\ \A i \in 1 .. to - 1 : ts2[i] = rest[i]
      /\ \A i \in to + 1 .. n : ts2[i] = rest[i - 1]
  <2> DEFINE mid == before \o <<ts[from]>>
  <2>1. /\ mid \in Seq(Tab) /\ Len(mid) = to /\ mid[to] = ts[from]
        /\ \A i \in 1 .. to - 1 : mid[i] = rest[i]
    BY <1>1, <1>6
  <2>2. ts2 = mid \o after
    BY <1>8
  <2> HIDE DEF mid
  <2>3. ts2 \in Seq(Tab) /\ Len(ts2) = n /\ \A i \in 1 .. to : ts2[i] = mid[i]
    <3>1. /\ ts2 \in Seq(Tab) /\ Len(ts2) = Len(mid) + Len(after)
          /\ \A i \in 1 .. Len(mid) + Len(after) :
               ts2[i] = IF i <= Len(mid) THEN mid[i] ELSE after[i - Len(mid)]
      <4>1. /\ mid \o after \in Seq(Tab) /\ Len(mid \o after) = Len(mid) + Len(after)
            /\ \A i \in 1 .. Len(mid) + Len(after) :
                 (mid \o after)[i] = IF i <= Len(mid) THEN mid[i] ELSE after[i - Len(mid)]
        BY <1>7, <2>1, ConcatProperties
      <4>2. QED
        BY <2>2, <4>1
    <3>2. Len(ts2) = n /\ 1 .. to \subseteq 1 .. Len(mid) + Len(after)
      BY <1>1, <1>7, <2>1, <3>1
    <3>3. ASSUME NEW i \in 1 .. to PROVE ts2[i] = mid[i]
      BY <1>1, <2>1, <3>1, <3>2
    <3>4. QED
      BY <3>1, <3>2, <3>3
  <2>4. ASSUME NEW i \in to + 1 .. n PROVE ts2[i] = rest[i - 1]
    <3>1. i - to \in 1 .. n - to /\ to + (i - to) - 1 = i - 1
      BY <1>1
    <3>2. ts2[i] = after[i - to]
      BY <1>1, <1>7, <2>1, <2>2
    <3>3. QED
      BY <1>7, <3>1, <3>2
  <2>5. QED
    BY <1>1, <2>1, <2>3, <2>4
<1> DEFINE Skip(q) == IF q < from THEN q ELSE q + 1
           f == [p \in 1 .. n |-> IF p = to THEN from ELSE Skip(IF p < to THEN p ELSE p - 1)]
<1>10. DOMAIN ts2 = 1 .. n
  BY <1>9
<1>11. f \in [1 .. n -> 1 .. n]
  BY <1>1
<1>12. ASSUME NEW p \in 1 .. n PROVE ts2[p] = ts[f[p]]
  <2>1. CASE p = to
    BY <1>9, <2>1
  <2>2. CASE p < to
    <3>1. p \in 1 .. to - 1 /\ p \in 1 .. n - 1
      BY <1>1, <2>2
    <3>2. f[p] = Skip(p)
      BY <1>1, <2>2
    <3>3. QED
      BY <1>4, <1>9, <3>1, <3>2
  <2>3. CASE p > to
    <3>1. p \in to + 1 .. n /\ p - 1 \in 1 .. n - 1
      BY <1>1, <2>3
    <3>2. f[p] = Skip(p - 1)
      BY <1>1, <2>3
    <3>3. QED
      BY <1>4, <1>9, <3>1, <3>2
  <2>4. QED
    BY <1>1, <2>1, <2>2, <2>3
<1>13. \A p, q \in 1 .. n : f[p] = f[q] => p = q
  BY <1>1
<1>14. ASSUME NEW i \in 1 .. n PROVE \E p \in 1 .. n : f[p] = i
  <2> DEFINE q == IF i < from THEN i ELSE i - 1
             p == IF i = from THEN to ELSE IF q < to THEN q ELSE q + 1
  <2>1. p \in 1 .. n
    BY <1>1
  <2>2. f[p] = i
    BY <1>1
  <2>3. QED
    BY <2>1, <2>2
<1> HIDE DEF f
<1>15. Drawn(ts2, ts, f)
  BY <1>1, <1>10, <1>11, <1>12, <1>13 DEF Drawn
<1>16. ASSUME NEW i \in DOMAIN ts PROVE \E j \in DOMAIN ts2 : ts2[j] = ts[i]
  <2>1. PICK p \in 1 .. n : f[p] = i
    BY <1>1, <1>14
  <2>2. QED
    BY <1>10, <1>12, <2>1
<1>17. QED
  BY <1>9, <1>15, <1>16

(***************************************************************************)
(* The actions.                                                            *)
(***************************************************************************)
\* The tab t is still there, and what was typed into it.
Survives(t, ts) ==
  \E j \in DOMAIN ts : /\ ts[j].id = t.id
                       /\ t.type = "query" /\ t.sql = "typed" => ts[j].sql = "typed"

PermanentSurvive == \A i \in DOMAIN tabs : ~tabs[i].preview => Survives(tabs[i], tabs')

\* A step that opens a tab which is nowhere open yet.
LEMMA OpenedStep ==
  ASSUME Bar, NEW t, TabGood(t), t.id \in FreshIds, Append1(t),
         \A i \in DOMAIN tabs : ~(t.preview /\ tabs[i].preview) /\ ~SameObject(t, tabs[i]),
         Counted(t, queryCounter', aiCounter'),
         queryCounter' \in 1 .. MaxCounter + 2, queryCounter <= queryCounter',
         aiCounter' \in 1 .. MaxCounter + 2, aiCounter <= aiCounter'
  PROVE  Bar' /\ PermanentSurvive
<1>1. \A i \in DOMAIN tabs : PairGood(t, tabs[i]) /\ PairGood(tabs[i], t)
  BY DEF FreshIds, OpenIds, PairGood, SameObject
<1>2. tabs' = Append(tabs, t) /\ activeTabId' = t.id
  BY DEF Append1
<1>3. BarGood(Append(tabs, t), t.id, queryCounter', aiCounter')
  BY <1>1, AppendGood DEF Bar
<1>4. Bar'
  BY <1>2, <1>3 DEF Bar
<1>5. tabs \in Seq(Tab)
  BY DEF Bar, BarGood
<1>6. PermanentSurvive
  <2>1. DOMAIN tabs \subseteq DOMAIN tabs' /\ \A i \in DOMAIN tabs : tabs'[i] = tabs[i]
    BY <1>2, <1>5 DEF TabGood
  <2>2. QED
    BY <2>1 DEF PermanentSurvive, Survives
<1>7. QED
  BY <1>4, <1>6

\* A step that replaces a tab.
LEMMA ReplacedStep ==
  ASSUME Bar, NEW k \in DOMAIN tabs, NEW t, TabGood(t), t.id = tabs[k].id,
         Counted(t, queryCounter, aiCounter),
         \A i \in DOMAIN tabs \ {k} : PairGood(t, tabs[i]) /\ PairGood(tabs[i], t),
         Replaced(tabs', tabs, k, t), Opens(tabs, activeTabId'), UNCHANGED Counters
  PROVE  /\ Bar'
         /\ \A i \in DOMAIN tabs : /\ Opens(tabs', tabs[i].id)
                                   /\ i # k => Survives(tabs[i], tabs')
         /\ (tabs[k].preview \/ tabs[k].type # "query" \/ tabs[k].sql # "typed" \/ t.sql = "typed")
              => PermanentSurvive
<1>1. /\ BarGood(tabs', activeTabId', queryCounter, aiCounter)
      /\ DOMAIN tabs' = DOMAIN tabs /\ \A i \in DOMAIN tabs \ {k} : tabs'[i] = tabs[i]
  BY ReplaceGood DEF Bar
<1>2. Bar'
  BY <1>1 DEF Bar, Counters
<1>3. tabs'[k] = t
  BY DEF Replaced
<1>4. \A i \in DOMAIN tabs : Opens(tabs', tabs[i].id)
  BY <1>1, <1>3 DEF Opens
<1>5. \A i \in DOMAIN tabs : i # k => Survives(tabs[i], tabs')
  BY <1>1 DEF Survives
<1>6. (tabs[k].preview \/ tabs[k].type # "query" \/ tabs[k].sql # "typed" \/ t.sql = "typed")
        => PermanentSurvive
  BY <1>1, <1>3, <1>5 DEF PermanentSurvive, Survives
<1>7. QED
  BY <1>2, <1>4, <1>5, <1>6

\* A step that changes a tab, but not what it is compared by.
LEMMA TouchedStep ==
  ASSUME Bar, NEW k \in DOMAIN tabs, NEW t, TabGood(t), Alike(t, tabs[k]),
         Counted(t, queryCounter, aiCounter),
         Replaced(tabs', tabs, k, t), Opens(tabs, activeTabId'), UNCHANGED Counters
  PROVE  /\ Bar'
         /\ \A i \in DOMAIN tabs : /\ Opens(tabs', tabs[i].id)
                                   /\ i # k => Survives(tabs[i], tabs')
         /\ (tabs[k].preview \/ tabs[k].type # "query" \/ tabs[k].sql # "typed" \/ t.sql = "typed")
              => PermanentSurvive
<1>1. \A i \in DOMAIN tabs \ {k} : PairGood(t, tabs[i]) /\ PairGood(tabs[i], t)
  BY DEF Bar, BarGood, PairGood, SameObject, Alike
<1>2. t.id = tabs[k].id
  BY DEF Alike
<1>3. QED
  BY <1>1, <1>2, ReplacedStep

\* A step that closes or reorders tabs.
LEMMA DrawnStep ==
  ASSUME Bar, tabs' \in Seq(Tab), NEW f, Drawn(tabs', tabs, f), Opens(tabs', activeTabId'),
         UNCHANGED Counters
  PROVE  Bar'
<1>1. \A i \in DOMAIN tabs' : Counted(tabs'[i], queryCounter, aiCounter)
  BY DEF Bar, BarGood, Drawn
<1>2. queryCounter \in 1 .. MaxCounter + 2 /\ aiCounter \in 1 .. MaxCounter + 2
  BY DEF Bar, BarGood
<1>3. BarGood(tabs', activeTabId', queryCounter, aiCounter)
  BY <1>1, <1>2, DrawnGood DEF Bar
<1>4. QED
  BY <1>3 DEF Bar, Counters

\* An id of an open tab, and the tab that it finds.
LEMMA TabOfId ==
  ASSUME Bar, NEW id, Opens(tabs, id)
  PROVE  \E k \in DOMAIN tabs : /\ tabs[k].id = id /\ TabOf(id) = tabs[k]
                                /\ \A i \in DOMAIN tabs : tabs[i].id = id => i = k
                                /\ TabGood(tabs[k]) /\ tabs[k] \in Tab
                                /\ Counted(tabs[k], queryCounter, aiCounter)
<1>1. PICK k \in DOMAIN tabs : tabs[k].id = id
  BY DEF Opens
<1>2. \A i \in DOMAIN tabs : tabs[i].id = id => i = k
  BY <1>1 DEF Bar, BarGood, PairGood
<1>3. \A t \in OpenTabs : t.id = id <=> t = tabs[k]
  BY <1>1, <1>2 DEF OpenTabs, ToSet
<1>4. tabs[k] \in OpenTabs
  BY DEF OpenTabs, ToSet
<1>5. TabOf(id) = tabs[k]
  BY <1>3, <1>4 DEF TabOf
<1>6. TabGood(tabs[k]) /\ Counted(tabs[k], queryCounter, aiCounter)
  BY DEF Bar, BarGood
<1>7. QED
  BY <1>1, <1>2, <1>5, <1>6 DEF TabGood

\* A preview becomes permanent (tabs.ts, pinTab).
LEMMA PinStep ==
  ASSUME Bar, NEW id, Opens(tabs, id), PinTab(id)
  PROVE  Bar' /\ PermanentSurvive
<1>1. PICK k \in DOMAIN tabs : /\ tabs[k].id = id /\ TabGood(tabs[k]) /\ tabs[k] \in Tab
                               /\ \A i \in DOMAIN tabs : tabs[i].id = id => i = k
                               /\ Counted(tabs[k], queryCounter, aiCounter)
  BY TabOfId
<1> DEFINE t == [tabs[k] EXCEPT !.preview = FALSE]
<1>2. TabGood(t) /\ Alike(t, tabs[k]) /\ Counted(t, queryCounter, aiCounter) /\ t.sql = tabs[k].sql
  BY <1>1 DEF TabGood, Alike, Counted, Tab
<1>3. tabs' = [i \in DOMAIN tabs |-> IF tabs[i].id = id THEN [tabs[i] EXCEPT !.preview = FALSE]
                                     ELSE tabs[i]]
  BY DEF PinTab, Updated
<1>4. Replaced(tabs', tabs, k, t)
  BY <1>1, <1>3 DEF Replaced
<1>5. Opens(tabs, activeTabId') /\ UNCHANGED Counters
  BY DEF PinTab, Bar, BarGood
<1> HIDE DEF t
<1>6. QED
  BY <1>2, <1>4, <1>5, TouchedStep

\* The new tabs are tabs.
LEMMA NewTabIn ==
  ASSUME NEW id \in TabIds, NEW type \in {"query", "table", "function", "ai"},
         NEW title \in Titles
  PROVE  NewTab(id, type, title) \in Tab
<1>1. 0 \in 0 .. MaxTurns
  BY BoundsPositive
<1>2. QED
  BY <1>1 DEF NewTab, Tab

\* The first tab that a filter keeps, if it keeps any.
LEMMA KeptFirst ==
  ASSUME NEW ts \in Seq(Tab), NEW S
  PROVE  /\ Kept(ts, S) # << >> => \E k \in DOMAIN ts : ts[k] \in S /\ Kept(ts, S)[1] = ts[k]
         /\ Kept(ts, S) = << >> => \A i \in DOMAIN ts : ts[i] \notin S
<1> DEFINE kept == Kept(ts, S)
<1>1. PICK f : /\ kept \in Seq(Tab) /\ Drawn(kept, ts, f)
               /\ \A i \in DOMAIN kept : kept[i] \in S
               /\ \A i \in DOMAIN ts : ts[i] \in S => \E j \in DOMAIN kept : kept[j] = ts[i]
  BY KeptDrawn
<1> HIDE DEF kept
<1>2. kept # << >> => 1 \in DOMAIN kept
  BY <1>1
<1>3. kept = << >> => DOMAIN kept = {}
  OBVIOUS
<1>4. kept # << >> => \E k \in DOMAIN ts : ts[k] \in S /\ kept[1] = ts[k]
  BY <1>1, <1>2 DEF Drawn
<1>5. QED
  BY <1>1, <1>3, <1>4 DEF kept

\* The object is open already: its tab comes to the front, and may become permanent.
LEMMA ActivateStep ==
  ASSUME Bar, NEW k \in DOMAIN tabs, NEW preview \in BOOLEAN,
         activeTabId' = tabs[k].id, UNCHANGED Counters,
         tabs' = [i \in DOMAIN tabs |-> IF tabs[i].id = tabs[k].id
                                        THEN [tabs[i] EXCEPT !.preview = @ /\ preview]
                                        ELSE tabs[i]]
  PROVE  Bar' /\ PermanentSurvive
<1>1. /\ TabGood(tabs[k]) /\ Counted(tabs[k], queryCounter, aiCounter) /\ tabs[k] \in Tab
      /\ \A i \in DOMAIN tabs : tabs[i].id = tabs[k].id => i = k
  BY DEF Bar, BarGood, PairGood, TabGood
<1> DEFINE t == [tabs[k] EXCEPT !.preview = @ /\ preview]
<1>2. TabGood(t) /\ Alike(t, tabs[k]) /\ Counted(t, queryCounter, aiCounter) /\ t.sql = tabs[k].sql
  BY <1>1 DEF TabGood, Alike, Counted, Tab
<1>3. Replaced(tabs', tabs, k, t)
  BY <1>1 DEF Replaced
<1>4. Opens(tabs, activeTabId')
  BY DEF Opens
<1> HIDE DEF t
<1>5. QED
  BY <1>2, <1>3, <1>4, TouchedStep

\* A preview shows another object, which no tab of its kind shows.
LEMMA PreviewStep ==
  ASSUME Bar, NEW k \in DOMAIN tabs, tabs[k].preview, NEW t, TabGood(t), t.id = tabs[k].id,
         t.type \in {"table", "function"},
         \A i \in DOMAIN tabs \ {k} : ~SameObject(t, tabs[i]),
         Replaced(tabs', tabs, k, t), activeTabId' = tabs[k].id, UNCHANGED Counters
  PROVE  Bar' /\ PermanentSurvive
<1>1. Counted(t, queryCounter, aiCounter) /\ Opens(tabs, activeTabId')
  BY DEF Counted, Opens
<1>2. \A i \in DOMAIN tabs \ {k} : PairGood(t, tabs[i]) /\ PairGood(tabs[i], t)
  BY DEF Bar, BarGood, PairGood, SameObject
<1>3. QED
  BY <1>1, <1>2, ReplacedStep

\* The preview tab, if there is one.
LEMMA PreviewIs ==
  ASSUME Bar
  PROVE  /\ PreviewTabs # << >> => \E k \in DOMAIN tabs : /\ tabs[k].preview /\ PreviewTabs[1] = tabs[k]
                                                          /\ TabGood(tabs[k]) /\ tabs[k] \in Tab
                                                          /\ \A i \in DOMAIN tabs :
                                                               tabs[i].id = tabs[k].id => i = k
         /\ PreviewTabs = << >> => \A i \in DOMAIN tabs : ~tabs[i].preview
<1>1. tabs \in Seq(Tab) /\ \A i \in DOMAIN tabs : tabs[i] \in OpenTabs
  BY DEF Bar, BarGood, OpenTabs, ToSet
<1> DEFINE S == {t \in OpenTabs : t.preview}
<1>2. PreviewTabs = Kept(tabs, S)
  BY DEF PreviewTabs
<1>3. \A i \in DOMAIN tabs : tabs[i] \in S <=> tabs[i].preview
  BY <1>1
<1> HIDE DEF S
<1>4. PreviewTabs # << >> => \E k \in DOMAIN tabs : tabs[k].preview /\ PreviewTabs[1] = tabs[k]
  BY <1>1, <1>2, <1>3, KeptFirst
<1>5. PreviewTabs = << >> => \A i \in DOMAIN tabs : ~tabs[i].preview
  BY <1>1, <1>2, <1>3, KeptFirst
<1>6. QED
  BY <1>4, <1>5 DEF Bar, BarGood, PairGood, TabGood

\* A tab that shows the object is found, and becomes the active one.
LEMMA FoundStep ==
  ASSUME Bar, NEW S, S \subseteq OpenTabs, S # {}, NEW preview \in BOOLEAN,
         UNCHANGED Counters, activeTabId' = Kept(tabs, S)[1].id,
         tabs' = [i \in DOMAIN tabs |-> IF tabs[i].id = Kept(tabs, S)[1].id
                                        THEN [tabs[i] EXCEPT !.preview = @ /\ preview]
                                        ELSE tabs[i]]
  PROVE  Bar' /\ PermanentSurvive
<1>1. tabs \in Seq(Tab)
  BY DEF Bar, BarGood
<1>2. \E i \in DOMAIN tabs : tabs[i] \in S
  BY DEF OpenTabs, ToSet
<1>3. PICK k \in DOMAIN tabs : Kept(tabs, S)[1] = tabs[k]
  BY <1>1, <1>2, KeptFirst
<1>4. QED
  BY <1>3, ActivateStep

\* A new tab for an object that none shows.
LEMMA NewObjectStep ==
  ASSUME Bar, NEW t, TabGood(t), t.id \in FreshIds, t.type \in {"table", "function"},
         t.preview => PreviewTabs = << >>, \A i \in DOMAIN tabs : ~SameObject(t, tabs[i]),
         Append1(t), UNCHANGED Counters
  PROVE  Bar' /\ PermanentSurvive
<1>1. \A i \in DOMAIN tabs : ~(t.preview /\ tabs[i].preview)
  BY PreviewIs
<1>2. /\ Counted(t, queryCounter', aiCounter')
      /\ queryCounter' = queryCounter /\ aiCounter' = aiCounter
      /\ queryCounter \in 1 .. MaxCounter + 2 /\ aiCounter \in 1 .. MaxCounter + 2
  BY DEF Counted, Counters, Bar, BarGood
<1>3. queryCounter <= queryCounter' /\ aiCounter <= aiCounter'
  BY <1>2
<1>4. QED
  BY <1>1, <1>2, <1>3, OpenedStep

\* A table is opened, for good or as a preview.
LEMMA TableStep ==
  ASSUME Bar, NEW name \in Tables, NEW preview \in BOOLEAN, AddTableTab(name, preview)
  PROVE  Bar' /\ PermanentSurvive
<1> DEFINE S == {t \in OpenTabs : TableTab(t, name)}
<1>1. UNCHANGED Counters /\ \A i \in DOMAIN tabs : tabs[i] \in OpenTabs
  BY DEF AddTableTab, OpenTabs, ToSet
<1>2. CASE S # {}
  <2>1. /\ activeTabId' = Kept(tabs, S)[1].id
        /\ tabs' = [i \in DOMAIN tabs |-> IF tabs[i].id = Kept(tabs, S)[1].id
                                          THEN [tabs[i] EXCEPT !.preview = @ /\ preview]
                                          ELSE tabs[i]]
    BY <1>2 DEF AddTableTab, ActivateExisting, Updated
  <2>2. S \subseteq OpenTabs
    OBVIOUS
  <2> HIDE DEF S
  <2>3. QED
    BY <1>1, <1>2, <2>1, <2>2, FoundStep
<1>3. CASE S = {} /\ preview /\ PreviewTabs # << >>
  <2>1. PICK k \in DOMAIN tabs : /\ tabs[k].preview /\ PreviewTabs[1] = tabs[k]
                                 /\ TabGood(tabs[k]) /\ tabs[k] \in Tab
                                 /\ \A i \in DOMAIN tabs : tabs[i].id = tabs[k].id => i = k
    BY <1>3, PreviewIs
  <2> DEFINE t == [tabs[k] EXCEPT !.title = name, !.tableName = name]
  <2>2. /\ activeTabId' = tabs[k].id
        /\ tabs' = [i \in DOMAIN tabs |-> IF tabs[i].id = tabs[k].id
                                          THEN [tabs[i] EXCEPT !.title = name, !.tableName = name]
                                          ELSE tabs[i]]
    BY <1>3, <2>1 DEF AddTableTab, Updated
  <2>3. /\ t.id = tabs[k].id /\ t.type = tabs[k].type /\ t.title = name /\ t.tableName = name
        /\ t.functionName = tabs[k].functionName /\ t.preview = tabs[k].preview
        /\ t.aiTurns = tabs[k].aiTurns /\ t.aiCurrentTurnIndex = tabs[k].aiCurrentTurnIndex
    BY <2>1 DEF Tab
  <2>4. t \in Tab
    BY <2>1 DEF Tab, Titles
  <2>5. Replaced(tabs', tabs, k, t)
    BY <2>1, <2>2 DEF Replaced
  <2> HIDE DEF t
  <2>6. TabGood(t) /\ t.type \in {"table", "function"}
    BY <2>1, <2>3, <2>4, NamesDistinct DEF TabGood
  <2>7. \A i \in DOMAIN tabs \ {k} : ~SameObject(t, tabs[i])
    <3>1. \A i \in DOMAIN tabs : ~TableTab(tabs[i], name)
      BY <1>1, <1>3
    <3>2. \A i \in DOMAIN tabs \ {k} : ~SameObject(tabs[k], tabs[i])
      BY DEF Bar, BarGood, PairGood
    <3>3. QED
      BY <2>3, <3>1, <3>2 DEF SameObject, TableTab
  <2>8. QED
    BY <1>1, <2>1, <2>2, <2>3, <2>5, <2>6, <2>7, PreviewStep
<1>4. CASE S = {} /\ ~(preview /\ PreviewTabs # << >>)
  <2>1. PICK id \in FreshIds :
          Append1([NewTab(id, "table", name) EXCEPT !.tableName = name,
                                                          !.preview = preview])
    BY <1>4 DEF AddTableTab
  <2> DEFINE t == [NewTab(id, "table", name) EXCEPT !.tableName = name, !.preview = preview]
  <2>2. /\ t.id = id /\ t.type = "table" /\ t.title = name /\ t.tableName = name
        /\ t.functionName = None /\ t.preview = preview /\ t.aiTurns = 0
    BY DEF NewTab
  <2>3. t \in Tab
    <3>1. NewTab(id, "table", name) \in Tab
      BY NewTabIn DEF Titles, FreshIds
    <3>2. QED
      BY <3>1 DEF Tab
  <2>4. Append1(t) /\ t.id \in FreshIds
    BY <2>1, <2>2
  <2> HIDE DEF t
  <2>5. TabGood(t)
    BY <2>2, <2>3, NamesDistinct DEF TabGood
  <2>6. \A i \in DOMAIN tabs : ~SameObject(t, tabs[i])
    <3>1. \A i \in DOMAIN tabs : ~TableTab(tabs[i], name)
      BY <1>1, <1>4
    <3>2. QED
      BY <2>2, <3>1 DEF SameObject, TableTab
  <2>7. QED
    BY <1>1, <1>4, <2>2, <2>4, <2>5, <2>6, NewObjectStep
<1>5. QED
  BY <1>2, <1>3, <1>4

\* A function is.
LEMMA FunctionStep ==
  ASSUME Bar, NEW name \in Functions, NEW preview \in BOOLEAN, AddFunctionTab(name, preview)
  PROVE  Bar' /\ PermanentSurvive
<1> DEFINE S == {t \in OpenTabs : FunctionTab(t, name)}
<1>1. UNCHANGED Counters /\ \A i \in DOMAIN tabs : tabs[i] \in OpenTabs
  BY DEF AddFunctionTab, OpenTabs, ToSet
<1>2. CASE S # {}
  <2>1. /\ activeTabId' = Kept(tabs, S)[1].id
        /\ tabs' = [i \in DOMAIN tabs |-> IF tabs[i].id = Kept(tabs, S)[1].id
                                          THEN [tabs[i] EXCEPT !.preview = @ /\ preview]
                                          ELSE tabs[i]]
    BY <1>2 DEF AddFunctionTab, ActivateExisting, Updated
  <2>2. S \subseteq OpenTabs
    OBVIOUS
  <2> HIDE DEF S
  <2>3. QED
    BY <1>1, <1>2, <2>1, <2>2, FoundStep
<1>3. CASE S = {} /\ preview /\ PreviewTabs # << >>
  <2>1. PICK k \in DOMAIN tabs : /\ tabs[k].preview /\ PreviewTabs[1] = tabs[k]
                                 /\ TabGood(tabs[k]) /\ tabs[k] \in Tab
                                 /\ \A i \in DOMAIN tabs : tabs[i].id = tabs[k].id => i = k
    BY <1>3, PreviewIs
  <2> DEFINE t == FunctionFields(tabs[k], name)
  <2>2. /\ activeTabId' = tabs[k].id
        /\ tabs' = [i \in DOMAIN tabs |-> IF tabs[i].id = tabs[k].id
                                          THEN FunctionFields(tabs[i], name)
                                          ELSE tabs[i]]
    BY <1>3, <2>1 DEF AddFunctionTab, Updated
  <2>3. /\ t.id = tabs[k].id /\ t.type = "function" /\ t.title = name /\ t.tableName = None
        /\ t.functionName = name /\ t.preview = tabs[k].preview
        /\ t.aiTurns = tabs[k].aiTurns /\ t.aiCurrentTurnIndex = tabs[k].aiCurrentTurnIndex
    BY <2>1 DEF Tab, FunctionFields
  <2>4. t \in Tab
    BY <2>1 DEF Tab, Titles, FunctionFields
  <2>5. Replaced(tabs', tabs, k, t)
    BY <2>1, <2>2 DEF Replaced
  <2> HIDE DEF t
  <2>6. TabGood(t) /\ t.type \in {"table", "function"}
    BY <2>1, <2>3, <2>4, NamesDistinct DEF TabGood
  <2>7. \A i \in DOMAIN tabs \ {k} : ~SameObject(t, tabs[i])
    <3>1. \A i \in DOMAIN tabs : ~FunctionTab(tabs[i], name)
      BY <1>1, <1>3
    <3>2. QED
      BY <2>3, <3>1 DEF SameObject, FunctionTab
  <2>8. QED
    BY <1>1, <2>1, <2>2, <2>3, <2>5, <2>6, <2>7, PreviewStep
<1>4. CASE S = {} /\ ~(preview /\ PreviewTabs # << >>)
  <2>1. PICK id \in FreshIds :
          Append1([NewTab(id, "function", name) EXCEPT !.functionName = name,
                                                             !.preview = preview])
    BY <1>4 DEF AddFunctionTab
  <2> DEFINE t == [NewTab(id, "function", name) EXCEPT !.functionName = name, !.preview = preview]
  <2>2. /\ t.id = id /\ t.type = "function" /\ t.title = name /\ t.functionName = name
        /\ t.tableName = None /\ t.preview = preview /\ t.aiTurns = 0
    BY DEF NewTab
  <2>3. t \in Tab
    <3>1. NewTab(id, "function", name) \in Tab
      BY NewTabIn DEF Titles, FreshIds
    <3>2. QED
      BY <3>1 DEF Tab
  <2>4. Append1(t) /\ t.id \in FreshIds
    BY <2>1, <2>2
  <2> HIDE DEF t
  <2>5. TabGood(t)
    BY <2>2, <2>3, NamesDistinct DEF TabGood
  <2>6. \A i \in DOMAIN tabs : ~SameObject(t, tabs[i])
    <3>1. \A i \in DOMAIN tabs : ~FunctionTab(tabs[i], name)
      BY <1>1, <1>4
    <3>2. QED
      BY <2>2, <3>1 DEF SameObject, FunctionTab
  <2>7. QED
    BY <1>1, <1>4, <2>2, <2>4, <2>5, <2>6, NewObjectStep
<1>5. QED
  BY <1>2, <1>3, <1>4

\* A query tab or an AI tab shows no object, and comes with a number of its own.
LEMMA NumberedStep ==
  ASSUME Bar, NEW t, t \in Tab, t.id \in FreshIds, t.type \in {"query", "ai"},
         ~t.preview, t.aiTurns = 0, Append1(t),
         Counted(t, queryCounter', aiCounter'),
         queryCounter' \in 1 .. MaxCounter + 2, queryCounter <= queryCounter',
         aiCounter' \in 1 .. MaxCounter + 2, aiCounter <= aiCounter'
  PROVE  Bar' /\ PermanentSurvive
<1>1. TabGood(t) /\ \A i \in DOMAIN tabs : ~(t.preview /\ tabs[i].preview) /\ ~SameObject(t, tabs[i])
  BY DEF TabGood, SameObject
<1>2. QED
  BY <1>1, OpenedStep

\* The next number for a query tab.
LEMMA NextQuery ==
  ASSUME Bar, queryCounter <= MaxCounter, queryCounter' = queryCounter + 1, UNCHANGED aiCounter
  PROVE  /\ queryCounter \in Titles /\ queryCounter < queryCounter'
         /\ queryCounter' \in 1 .. MaxCounter + 2 /\ queryCounter <= queryCounter'
         /\ aiCounter' \in 1 .. MaxCounter + 2 /\ aiCounter <= aiCounter'
BY BoundsPositive DEF Bar, BarGood, Titles

\* A new query tab takes the next number.
LEMMA QueryStep ==
  ASSUME Bar, AddQueryTab
  PROVE  Bar' /\ PermanentSurvive
<1>1. PICK id \in FreshIds : Append1(NewTab(id, "query", queryCounter))
  BY DEF AddQueryTab
<1>2. queryCounter <= MaxCounter /\ queryCounter' = queryCounter + 1 /\ UNCHANGED aiCounter
  BY DEF AddQueryTab
<1> DEFINE t == NewTab(id, "query", queryCounter)
<1>3. t \in Tab
  BY <1>2, NextQuery, NewTabIn DEF FreshIds
<1>4. /\ t.id = id /\ t.type = "query" /\ ~t.preview /\ t.aiTurns = 0
      /\ t.title = queryCounter
  BY DEF NewTab
<1> HIDE DEF t
<1>5. Counted(t, queryCounter', aiCounter')
  BY <1>2, <1>4, NextQuery DEF Counted
<1>6. Append1(t)
  BY <1>1 DEF t
<1>7. QED
  BY <1>2, <1>3, <1>4, <1>5, <1>6, NextQuery, NumberedStep

\* A new AI tab takes the next number of its own.
LEMMA AiStep ==
  ASSUME Bar, AddAiTab
  PROVE  Bar' /\ PermanentSurvive
<1>1. PICK id \in FreshIds : Append1(NewTab(id, "ai", aiCounter))
  BY DEF AddAiTab
<1>2. /\ aiCounter \in Titles /\ aiCounter < aiCounter' /\ aiCounter <= aiCounter'
      /\ aiCounter' \in 1 .. MaxCounter + 2
      /\ queryCounter' \in 1 .. MaxCounter + 2 /\ queryCounter <= queryCounter'
  BY BoundsPositive DEF AddAiTab, Bar, BarGood, Titles
<1> DEFINE t == NewTab(id, "ai", aiCounter)
<1>3. t \in Tab
  BY <1>2, NewTabIn DEF FreshIds
<1>4. t.id = id /\ t.type = "ai" /\ ~t.preview /\ t.aiTurns = 0 /\ t.title = aiCounter
  BY DEF NewTab
<1> HIDE DEF t
<1>5. Counted(t, queryCounter', aiCounter')
  BY <1>2, <1>4 DEF Counted
<1>6. Append1(t)
  BY <1>1 DEF t
<1>7. QED
  BY <1>2, <1>3, <1>4, <1>5, <1>6, NumberedStep

\* A query of the history, or a saved one, lands in a blank tab or in a new one.
LEMMA OpenQueryStep ==
  ASSUME Bar, NEW title \in Texts \cup {None}, OpenQuery(title)
  PROVE  Bar' /\ PermanentSurvive
<1> DEFINE Filled(t) == IF title = None THEN [t EXCEPT !.sql = "opened"]
                        ELSE [t EXCEPT !.sql = "opened", !.title = title, !.numbered = FALSE]
<1>0. title # None => title \in Titles
  BY BoundsPositive DEF Texts, Titles
<1>1. CASE ActiveIsBlank
  <2>1. Opens(tabs, activeTabId)
    BY DEF Bar, BarGood
  <2>2. PICK k \in DOMAIN tabs : /\ tabs[k].id = activeTabId /\ TabOf(activeTabId) = tabs[k]
                                 /\ \A i \in DOMAIN tabs : tabs[i].id = activeTabId => i = k
                                 /\ TabGood(tabs[k]) /\ tabs[k] \in Tab
                                 /\ Counted(tabs[k], queryCounter, aiCounter)
    BY <2>1, TabOfId
  <2>3. tabs[k].type = "query" /\ tabs[k].sql = "blank"
    BY <1>1, <2>2 DEF ActiveIsBlank
  <2> DEFINE t == Filled(tabs[k])
  <2>4. /\ activeTabId' = activeTabId /\ UNCHANGED Counters
        /\ tabs' = [i \in DOMAIN tabs |-> IF tabs[i].id = activeTabId THEN Filled(tabs[i])
                                          ELSE tabs[i]]
    BY <1>1 DEF OpenQuery, Updated
  <2>5. Replaced(tabs', tabs, k, t)
    BY <2>2, <2>4 DEF Replaced
  <2>6. t \in Tab
    BY <1>0, <2>2 DEF Tab
  <2>7. /\ Alike(t, tabs[k]) /\ t.aiTurns = tabs[k].aiTurns
        /\ t.aiCurrentTurnIndex = tabs[k].aiCurrentTurnIndex
        /\ t.type = "query" /\ t.preview = tabs[k].preview
        /\ t.numbered => tabs[k].numbered /\ t.title = tabs[k].title
    BY <2>2, <2>3 DEF Alike, Tab
  <2> HIDE DEF t
  <2>8. TabGood(t) /\ Counted(t, queryCounter, aiCounter)
    BY <2>2, <2>3, <2>6, <2>7 DEF TabGood, Counted
  <2>9. QED
    BY <2>1, <2>3, <2>4, <2>5, <2>7, <2>8, TouchedStep
<1>2. CASE ~ActiveIsBlank
  <2>1. /\ \E id \in FreshIds : Append1(Filled(NewTab(id, "query", queryCounter)))
        /\ queryCounter <= MaxCounter /\ queryCounter' = queryCounter + 1 /\ UNCHANGED aiCounter
    BY <1>2 DEF OpenQuery
  <2>2. PICK id \in FreshIds : Append1(Filled(NewTab(id, "query", queryCounter)))
    BY <2>1
  <2> DEFINE t == Filled(NewTab(id, "query", queryCounter))
  <2>3. t \in Tab
    <3>1. NewTab(id, "query", queryCounter) \in Tab
      BY <2>1, NextQuery, NewTabIn DEF FreshIds
    <3>2. QED
      BY <1>0, <3>1 DEF Tab
  <2>4. /\ t.id = id /\ t.type = "query" /\ ~t.preview /\ t.aiTurns = 0
        /\ t.numbered => t.title = queryCounter
    BY DEF NewTab
  <2> HIDE DEF t
  <2>5. Counted(t, queryCounter', aiCounter')
    BY <2>1, <2>4, NextQuery DEF Counted
  <2>6. Append1(t)
    BY <2>2 DEF t
  <2>7. QED
    BY <2>1, <2>3, <2>4, <2>5, <2>6, NextQuery, NumberedStep
<1>3. QED
  BY <1>1, <1>2

\* Renaming, typing, an answer of the model, and its arrows, each about one tab
\* that is no preview's.
LEMMA RenameStep ==
  ASSUME Bar, NEW id, Opens(tabs, id), NEW title \in Texts,
         RenameTab(id, title)
  PROVE  Bar' /\ PermanentSurvive
<1>1. PICK k \in DOMAIN tabs : /\ tabs[k].id = id /\ TabOf(id) = tabs[k]
                               /\ \A i \in DOMAIN tabs : tabs[i].id = id => i = k
                               /\ TabGood(tabs[k]) /\ tabs[k] \in Tab
  BY TabOfId
<1> DEFINE t == [tabs[k] EXCEPT !.title = title, !.numbered = FALSE]
<1>2. tabs[k].type \in {"query", "ai"} /\ Opens(tabs, activeTabId') /\ UNCHANGED Counters
  BY <1>1 DEF RenameTab, Bar, BarGood
<1>3. Replaced(tabs', tabs, k, t)
  BY <1>1 DEF RenameTab, Updated, Replaced
<1>4. t \in Tab
  <2>1. title \in Titles
    BY BoundsPositive DEF Titles, Texts
  <2>2. QED
    BY <1>1, <2>1 DEF Tab
<1>5. /\ Alike(t, tabs[k]) /\ t.aiTurns = tabs[k].aiTurns /\ t.sql = tabs[k].sql
      /\ t.aiCurrentTurnIndex = tabs[k].aiCurrentTurnIndex /\ ~t.numbered
      /\ t.preview = tabs[k].preview
  BY <1>1 DEF Alike, Tab
<1> HIDE DEF t
<1>6. TabGood(t) /\ Counted(t, queryCounter, aiCounter)
  BY <1>1, <1>2, <1>4, <1>5 DEF TabGood, Counted, Alike
<1>7. QED
  BY <1>2, <1>3, <1>5, <1>6, TouchedStep

\* Typing SQL.
LEMMA EditStep ==
  ASSUME Bar, NEW id, Opens(tabs, id), EditSql(id)
  PROVE  /\ Bar'
         /\ \A i \in DOMAIN tabs : /\ Opens(tabs', tabs[i].id)
                                   /\ tabs[i].id # id => Survives(tabs[i], tabs')
<1>1. PICK k \in DOMAIN tabs : /\ tabs[k].id = id
                               /\ \A i \in DOMAIN tabs : tabs[i].id = id => i = k
                               /\ TabGood(tabs[k]) /\ tabs[k] \in Tab
                               /\ Counted(tabs[k], queryCounter, aiCounter)
  BY TabOfId
<1>2. PICK sql \in {"blank", "typed"} :
        tabs' = [i \in DOMAIN tabs |-> IF tabs[i].id = id THEN [tabs[i] EXCEPT !.sql = sql]
                                       ELSE tabs[i]]
  BY DEF EditSql, Updated
<1> DEFINE t == [tabs[k] EXCEPT !.sql = sql]
<1>3. Opens(tabs, activeTabId') /\ UNCHANGED Counters
  BY DEF EditSql, Bar, BarGood
<1>4. Replaced(tabs', tabs, k, t)
  BY <1>1, <1>2 DEF Replaced
<1>5. TabGood(t) /\ Alike(t, tabs[k]) /\ Counted(t, queryCounter, aiCounter)
  BY <1>1 DEF TabGood, Alike, Counted, Tab
<1> HIDE DEF t
<1>6. /\ Bar'
      /\ \A i \in DOMAIN tabs : Opens(tabs', tabs[i].id) /\ (i # k => Survives(tabs[i], tabs'))
  BY <1>3, <1>4, <1>5, TouchedStep
<1>7. QED
  BY <1>1, <1>6

\* The model has answered: a turn is added to the tab.
LEMMA TurnStep ==
  ASSUME Bar, NEW id, Opens(tabs, id), AppendAiTurn(id)
  PROVE  Bar' /\ PermanentSurvive
<1>1. PICK k \in DOMAIN tabs : /\ tabs[k].id = id /\ TabOf(id) = tabs[k]
                               /\ \A i \in DOMAIN tabs : tabs[i].id = id => i = k
                               /\ TabGood(tabs[k]) /\ tabs[k] \in Tab
                               /\ Counted(tabs[k], queryCounter, aiCounter)
  BY TabOfId
<1> DEFINE t == [tabs[k] EXCEPT !.aiTurns = @ + 1, !.aiCurrentTurnIndex = tabs[k].aiTurns,
                                !.sql = "opened"]
<1>2. /\ tabs[k].type = "ai" /\ tabs[k].aiTurns < MaxTurns
      /\ Opens(tabs, activeTabId') /\ UNCHANGED Counters
  BY <1>1 DEF AppendAiTurn, Bar, BarGood
<1>3. Replaced(tabs', tabs, k, t)
  BY <1>1 DEF AppendAiTurn, Updated, Replaced
<1>4. tabs[k].aiTurns \in 0 .. MaxTurns /\ tabs[k].aiTurns + 1 \in 0 .. MaxTurns
  BY <1>1, <1>2, BoundsPositive DEF Tab
<1>5. t \in Tab
  BY <1>1, <1>4 DEF Tab
<1>6. /\ Alike(t, tabs[k]) /\ t.aiTurns = tabs[k].aiTurns + 1
      /\ t.aiCurrentTurnIndex = tabs[k].aiTurns /\ t.type = "ai" /\ t.preview = tabs[k].preview
      /\ t.title = tabs[k].title /\ t.numbered = tabs[k].numbered
  BY <1>1, <1>2 DEF Alike, Tab
<1> HIDE DEF t
<1>7. t.aiCurrentTurnIndex < t.aiTurns
  BY <1>4, <1>6
<1>8. TabGood(t) /\ Counted(t, queryCounter, aiCounter)
  BY <1>1, <1>2, <1>5, <1>6, <1>7 DEF TabGood, Counted
<1>9. QED
  BY <1>2, <1>3, <1>6, <1>8, TouchedStep

\* Walking through the turns.
LEMMA ArrowStep ==
  ASSUME Bar, NEW id, Opens(tabs, id), NEW step \in {-1, 1},
         SetAiTurnIndex(id, TabOf(id).aiCurrentTurnIndex + step)
  PROVE  Bar' /\ PermanentSurvive
<1>1. PICK k \in DOMAIN tabs : /\ tabs[k].id = id /\ TabOf(id) = tabs[k]
                               /\ \A i \in DOMAIN tabs : tabs[i].id = id => i = k
                               /\ TabGood(tabs[k]) /\ tabs[k] \in Tab
                               /\ Counted(tabs[k], queryCounter, aiCounter)
  BY TabOfId
<1> DEFINE turns == tabs[k].aiTurns
           shown == Clamp(tabs[k].aiCurrentTurnIndex + step, turns)
           t == [tabs[k] EXCEPT !.aiCurrentTurnIndex = shown,
                                !.sql = IF turns = 0 THEN "blank" ELSE "opened"]
<1>2. turns \in 0 .. MaxTurns /\ tabs[k].aiCurrentTurnIndex \in 0 .. MaxTurns
  BY <1>1 DEF Tab
<1>3. shown \in 0 .. MaxTurns /\ (turns > 0 => shown < turns)
  BY <1>2, BoundsPositive DEF Clamp
<1>4. tabs[k].type = "ai" /\ Opens(tabs, activeTabId') /\ UNCHANGED Counters
  BY <1>1 DEF SetAiTurnIndex, Bar, BarGood
<1>5. Replaced(tabs', tabs, k, t)
  <2>1. tabs' = [i \in DOMAIN tabs |->
                  IF tabs[i].id = id
                  THEN [tabs[i] EXCEPT !.aiCurrentTurnIndex = shown,
                                       !.sql = IF tabs[i].aiTurns = 0 THEN "blank" ELSE "opened"]
                  ELSE tabs[i]]
    BY <1>1 DEF SetAiTurnIndex, Updated
  <2> HIDE DEF shown
  <2>2. QED
    BY <1>1, <2>1 DEF Replaced
<1> HIDE DEF shown
<1>6. t \in Tab
  BY <1>1, <1>3 DEF Tab
<1>7. /\ Alike(t, tabs[k]) /\ t.aiTurns = turns /\ t.aiCurrentTurnIndex = shown
      /\ t.type = "ai" /\ t.preview = tabs[k].preview
      /\ t.title = tabs[k].title /\ t.numbered = tabs[k].numbered
  BY <1>1, <1>4 DEF Alike, Tab
<1> HIDE DEF t
<1>8. TabGood(t) /\ Counted(t, queryCounter, aiCounter)
  BY <1>1, <1>3, <1>4, <1>6, <1>7 DEF TabGood, Counted
<1>9. QED
  BY <1>4, <1>5, <1>7, <1>8, TouchedStep

\* A bar with one new query tab.
LEMMA SingleGood ==
  ASSUME NEW id \in TabIds, NEW title \in 1 .. MaxCounter + 1,
         NEW query \in 1 .. MaxCounter + 2, title < query, NEW ai \in 1 .. MaxCounter + 2
  PROVE  BarGood(<<NewTab(id, "query", title)>>, id, query, ai)
<1> DEFINE t == NewTab(id, "query", title)
           ts == <<t>>
<1>1. t \in Tab
  BY NewTabIn DEF Titles
<1>2. /\ t.id = id /\ t.type = "query" /\ t.title = title /\ ~t.preview /\ t.aiTurns = 0
  BY DEF NewTab
<1> HIDE DEF t
<1>3. TabGood(t) /\ Counted(t, query, ai)
  BY <1>1, <1>2 DEF TabGood, Counted
<1>4. ts \in Seq(Tab) /\ DOMAIN ts = {1} /\ ts[1] = t
  BY <1>1
<1> HIDE DEF ts
<1>5. BarGood(ts, id, query, ai)
  BY <1>2, <1>3, <1>4 DEF BarGood, Opens
<1>6. QED
  BY <1>5 DEF ts, t

\* A tab closes; if it was the last, a new query tab is opened.
LEMMA CloseStep ==
  ASSUME Bar, NEW id, Opens(tabs, id), CloseTab(id)
  PROVE  /\ Bar'
         /\ \A i \in DOMAIN tabs : tabs[i].id # id => Survives(tabs[i], tabs')
<1> DEFINE S == {t \in OpenTabs : t.id # id}
           rest == Kept(tabs, S)
<1>1. tabs \in Seq(Tab) /\ \A i \in DOMAIN tabs : tabs[i] \in S <=> tabs[i].id # id
  BY DEF Bar, BarGood, OpenTabs, ToSet
<1> HIDE DEF S
<1>2. PICK f : /\ rest \in Seq(Tab) /\ Drawn(rest, tabs, f)
               /\ \A i \in DOMAIN rest : rest[i] \in S
               /\ \A i \in DOMAIN tabs : tabs[i] \in S => \E j \in DOMAIN rest : rest[j] = tabs[i]
  BY <1>1, KeptDrawn
<1>3. \/ /\ rest # << >> /\ tabs' = rest /\ UNCHANGED Counters
         /\ activeTabId' = IF activeTabId = id THEN rest[1].id ELSE activeTabId
      \/ /\ rest = << >> /\ queryCounter <= MaxCounter
         /\ \E new \in FreshIds : /\ tabs' = <<NewTab(new, "query", queryCounter)>>
                                  /\ activeTabId' = new
         /\ queryCounter' = queryCounter + 1 /\ UNCHANGED aiCounter
  BY DEF CloseTab, S
<1> HIDE DEF rest
<1>4. CASE rest # << >>
  <2>1. Opens(rest, activeTabId')
    <3>1. CASE activeTabId = id
      <4>1. 1 \in DOMAIN rest
        BY <1>2, <1>4
      <4>2. QED
        BY <1>3, <1>4, <3>1, <4>1 DEF Opens
    <3>2. CASE activeTabId # id
      <4>1. PICK i \in DOMAIN tabs : tabs[i].id = activeTabId
        BY DEF Bar, BarGood, Opens
      <4>2. QED
        BY <1>1, <1>2, <1>3, <1>4, <3>2, <4>1 DEF Opens
    <3>3. QED
      BY <3>1, <3>2
  <2>2. Bar'
    BY <1>2, <1>3, <1>4, <2>1, DrawnStep
  <2>3. \A i \in DOMAIN tabs : tabs[i].id # id => Survives(tabs[i], tabs')
    BY <1>1, <1>2, <1>3, <1>4 DEF Survives
  <2>4. QED
    BY <2>2, <2>3
<1>5. CASE rest = << >>
  <2>1. PICK new \in FreshIds : /\ tabs' = <<NewTab(new, "query", queryCounter)>>
                                /\ activeTabId' = new
    BY <1>3, <1>5
  <2>2. queryCounter <= MaxCounter /\ queryCounter' = queryCounter + 1 /\ UNCHANGED aiCounter
    BY <1>3, <1>5
  <2>3. queryCounter \in 1 .. MaxCounter + 1
    BY <2>2, BoundsPositive DEF Bar, BarGood
  <2>4. BarGood(tabs', activeTabId', queryCounter', aiCounter')
    BY <2>1, <2>2, <2>3, NextQuery, SingleGood DEF FreshIds
  <2>5. Bar'
    BY <2>4 DEF Bar
  <2>6. \A i \in DOMAIN tabs : tabs[i].id = id
    <3>1. DOMAIN rest = {}
      BY <1>5
    <3>2. QED
      BY <1>1, <1>2, <3>1
  <2>7. QED
    BY <2>5, <2>6
<1>6. QED
  BY <1>4, <1>5

\* A click on a tab drops only previews.
LEMMA SwitchStep ==
  ASSUME Bar, NEW id, Opens(tabs, id), SetActiveTab(id)
  PROVE  Bar' /\ PermanentSurvive
<1> DEFINE S == {t \in OpenTabs : ~(t.preview /\ t.id # id)}
<1>1. tabs \in Seq(Tab) /\ \A i \in DOMAIN tabs : tabs[i] \in S <=> ~(tabs[i].preview /\ tabs[i].id # id)
  BY DEF Bar, BarGood, OpenTabs, ToSet
<1>2. tabs' = Kept(tabs, S) /\ activeTabId' = id /\ UNCHANGED Counters
  BY DEF SetActiveTab
<1> HIDE DEF S
<1>3. PICK f : /\ tabs' \in Seq(Tab) /\ Drawn(tabs', tabs, f)
               /\ \A i \in DOMAIN tabs : tabs[i] \in S => \E j \in DOMAIN tabs' : tabs'[j] = tabs[i]
  BY <1>1, <1>2, KeptDrawn
<1>4. Opens(tabs', activeTabId')
  BY <1>1, <1>2, <1>3 DEF Opens
<1>5. Bar'
  BY <1>2, <1>3, <1>4, DrawnStep
<1>6. PermanentSurvive
  BY <1>1, <1>3 DEF PermanentSurvive, Survives
<1>7. QED
  BY <1>5, <1>6

\* A tab is dragged to another place.
LEMMA ReorderStep ==
  ASSUME Bar, NEW from \in DOMAIN tabs, NEW to \in DOMAIN tabs, ReorderTabs(from, to)
  PROVE  Bar' /\ PermanentSurvive
<1>1. /\ tabs' = InsertAt(RemoveAt(tabs, from), to, tabs[from])
      /\ activeTabId' = activeTabId /\ UNCHANGED Counters /\ tabs \in Seq(Tab)
  BY DEF ReorderTabs, Bar, BarGood
<1>2. PICK f : /\ tabs' \in Seq(Tab) /\ Drawn(tabs', tabs, f)
               /\ \A i \in DOMAIN tabs : \E j \in DOMAIN tabs' : tabs'[j] = tabs[i]
  BY <1>1, MovedDrawn
<1>3. Opens(tabs', activeTabId')
  BY <1>1, <1>2 DEF Opens, Bar, BarGood
<1>4. Bar'
  BY <1>1, <1>2, <1>3, DrawnStep
<1>5. PermanentSurvive
  BY <1>2 DEF PermanentSurvive, Survives
<1>6. QED
  BY <1>4, <1>5

\* After a load the counters are ahead of every number that was restored.
LEMMA NextNumberIs ==
  ASSUME NEW ts \in Seq(Tab), NEW type, NEW counter \in 1 .. MaxCounter + 2
  PROVE  /\ NextNumber(ts, type, counter) \in 1 .. MaxCounter + 2
         /\ NextNumber(ts, type, counter) >= counter
         /\ \A i \in DOMAIN ts : ts[i].type = type /\ ts[i].title \in Nat
                                   => ts[i].title < NextNumber(ts, type, counter)
<1> DEFINE used == {t.title : t \in {u \in ToSet(ts) : u.type = type}} \cap (1 .. MaxCounter + 1)
           Fits(n) == /\ n >= counter /\ \A u \in used : u < n
                      /\ n = counter \/ n - 1 \in used
<1>1. used \subseteq 1 .. MaxCounter + 1 /\ MaxCounter \in Nat
  BY BoundsPositive
<1>2. \A i \in DOMAIN ts : ts[i].type = type /\ ts[i].title \in Nat => ts[i].title \in used
  <2> SUFFICES ASSUME NEW i \in DOMAIN ts, ts[i].type = type, ts[i].title \in Nat
               PROVE  ts[i].title \in used
    OBVIOUS
  <2>1. ts[i] \in Tab
    OBVIOUS
  <2>2. ts[i].title \in 1 .. MaxCounter + 1
    BY <2>1, NamesDistinct DEF Tab, Titles
  <2>3. QED
    BY <2>2 DEF ToSet
<1> HIDE DEF used
<1>3. \E n \in 1 .. MaxCounter + 2 : Fits(n)
  <2>1. CASE \A u \in used : u < counter
    BY <2>1
  <2>2. CASE ~ \A u \in used : u < counter
    <3>1. PICK x \in used : \A y \in used : y <= x
      <4>1. MaxCounter + 1 \in Nat
        BY <1>1
      <4>2. QED
        BY <1>1, <2>2, <4>1, GreatestNumber
    <3>2. x \in Nat /\ x + 1 \in 1 .. MaxCounter + 2 /\ x + 1 >= counter
      <4>1. PICK u \in used : ~(u < counter)
        BY <2>2
      <4>2. u <= x /\ x \in 1 .. MaxCounter + 1 /\ u \in 1 .. MaxCounter + 1
        BY <1>1, <3>1, <4>1
      <4>3. QED
        BY <1>1, <4>1, <4>2
    <3>3. (\A u \in used : u < x + 1) /\ (x + 1) - 1 \in used
      BY <1>1, <3>1
    <3>4. QED
      BY <3>2, <3>3
  <2>3. QED
    BY <2>1, <2>2
<1>4. NextNumber(ts, type, counter) = CHOOSE n \in 1 .. MaxCounter + 2 : Fits(n)
  BY DEF NextNumber, used
<1> DEFINE next == NextNumber(ts, type, counter)
<1>5. next \in 1 .. MaxCounter + 2 /\ Fits(next)
  <2> HIDE DEF Fits
  <2> QED
    BY <1>3, <1>4
<1>6. QED
  BY <1>2, <1>5

\* A document is loaded, into a page whose counters stand anywhere.
LEMMA RestoreStep ==
  ASSUME Bar, NEW query \in 1 .. MaxCounter + 2, NEW ai \in 1 .. MaxCounter + 2,
         Restore(SerializeForSave, query, ai)
  PROVE  Bar'
<1> DEFINE S == {t \in OpenTabs : ~t.preview}
           saved == Kept(tabs, S)
<1>1. tabs \in Seq(Tab)
  BY DEF Bar, BarGood
<1>2. SerializeForSave.tabs = saved /\ SerializeForSave.activeTabId = activeTabId
  BY DEF SerializeForSave
<1>3. /\ saved # << >> /\ tabs' = saved
      /\ activeTabId' = IF \E t \in ToSet(saved) : t.id = activeTabId
                        THEN activeTabId ELSE saved[1].id
      /\ queryCounter' = NextNumber(saved, "query", query) /\ aiCounter' = NextNumber(saved, "ai", ai)
  BY <1>2 DEF Restore
<1> HIDE DEF S
<1>4. PICK f : saved \in Seq(Tab) /\ Drawn(saved, tabs, f)
  BY <1>1, KeptDrawn
<1> HIDE DEF saved
<1>5. queryCounter' \in 1 .. MaxCounter + 2 /\ aiCounter' \in 1 .. MaxCounter + 2
  BY <1>3, <1>4, NextNumberIs
<1>6. Opens(tabs', activeTabId')
  <2>1. 1 \in DOMAIN saved
    BY <1>3, <1>4
  <2>2. QED
    BY <1>3, <2>1 DEF Opens, ToSet
<1>7. \A i \in DOMAIN saved : Counted(saved[i], queryCounter', aiCounter')
  BY <1>3, <1>4, NextNumberIs DEF Counted
<1>8. BarGood(tabs', activeTabId', queryCounter', aiCounter')
  BY <1>3, <1>4, <1>5, <1>6, <1>7, DrawnGood DEF Bar
<1>9. QED
  BY <1>8 DEF Bar

\* The page is loaded anew, or its tabs are replaced after a connect.
LEMMA LoadStep ==
  ASSUME Bar, LoadsTabs
  PROVE  Bar'
<1>1. /\ 1 \in 1 .. MaxCounter + 2 /\ 2 \in 1 .. MaxCounter + 2 /\ 1 \in 1 .. MaxCounter + 1
      /\ queryCounter \in 1 .. MaxCounter + 2 /\ aiCounter \in 1 .. MaxCounter + 2
  BY BoundsPositive DEF Bar, BarGood
<1>2. CASE Restore(SerializeForSave, 2, 1) \/ InitFromServer
  BY <1>1, <1>2, RestoreStep DEF InitFromServer
<1>3. CASE /\ \E id \in TabIds : tabs' = <<NewTab(id, "query", 1)>> /\ activeTabId' = id
           /\ queryCounter' = 2 /\ aiCounter' = 1
  <2>1. BarGood(tabs', activeTabId', queryCounter', aiCounter')
    BY <1>1, <1>3, SingleGood
  <2>2. QED
    BY <2>1 DEF Bar
<1>4. QED
  BY <1>2, <1>3 DEF LoadsTabs, Reload

(***************************************************************************)
(* The theorems.                                                           *)
(***************************************************************************)
LEMMA InitBar == Init => Bar
<1> SUFFICES ASSUME Init PROVE Bar
  OBVIOUS
<1>1. PICK id \in TabIds : tabs = <<NewTab(id, "query", 1)>> /\ activeTabId = id
  BY DEF Init
<1>2. /\ 1 \in 1 .. MaxCounter + 1 /\ queryCounter \in 1 .. MaxCounter + 2 /\ 1 < queryCounter
      /\ aiCounter \in 1 .. MaxCounter + 2
  BY BoundsPositive DEF Init
<1>3. QED
  BY <1>1, <1>2, SingleGood DEF Bar

\* Every step keeps the bar; and, unless it loads a document, every tab that is no
\* preview, but for the one that is closed, and its SQL, but for the one that is
\* typed into.
LEMMA NextBar ==
  ASSUME Bar, [Next]_vars
  PROVE  /\ Bar'
         /\ \/ PermanentSurvive \/ LoadsTabs
            \/ \E id \in OpenIds :
                 /\ CloseTab(id)
                 /\ \A i \in DOMAIN tabs : tabs[i].id # id => Survives(tabs[i], tabs')
            \/ \E id \in OpenIds :
                 /\ EditSql(id)
                 /\ \A i \in DOMAIN tabs : /\ Opens(tabs', tabs[i].id)
                                           /\ tabs[i].id # id => Survives(tabs[i], tabs')
<1>1. \A id \in OpenIds : Opens(tabs, id)
  BY DEF OpenIds, Opens
<1>2. ASSUME NEW id \in OpenIds, UserStep(id), ~CloseTab(id), ~EditSql(id)
      PROVE  Bar' /\ PermanentSurvive
  BY <1>1, <1>2, PinStep, SwitchStep, RenameStep, TurnStep, ArrowStep DEF UserStep
<1>3. CASE UNCHANGED vars
  <2>1. Bar'
    BY <1>3 DEF vars, Bar, BarGood, TabGood, Counted, PairGood, SameObject, Opens, Tab, Titles
  <2>2. QED
    BY <1>3, <2>1 DEF vars, PermanentSurvive, Survives
<1>4. CASE Next
  BY <1>1, <1>2, <1>4, QueryStep, AiStep, OpenQueryStep, TableStep, FunctionStep, ReorderStep,
     LoadStep, CloseStep, EditStep
  DEF Next, LoadsTabs
<1>5. QED
  BY <1>3, <1>4

\* What is proved once for all about the bar of tabs.
THEOREM TabInvariance == Spec => []IndInv
<1>1. IndInv /\ [Next]_vars => IndInv'
  <2>1. IndInv' <=> Bar'
    BY ByTab, PTL
  <2>2. QED
    BY <2>1, ByTab, NextBar
<1>2. Init => IndInv
  BY InitBar, ByTab
<1>3. QED
  BY <1>1, <1>2, PTL DEF Spec

\* What the bar of tabs takes for granted: an active tab that is open, one preview,
\* counters ahead of the titles, AI tabs that point at a turn.
THEOREM TabsSafe == Spec => []TabsInv
<1>1. IndInv => TabsInv
  BY DEF IndInv
<1>2. QED
  BY TabInvariance, <1>1, PTL

\* No object of the database is open twice.
THEOREM OpenOnce == Spec => []ObjectOpenOnce
<1>1. IndInv => ObjectOpenOnce
  BY DEF IndInv
<1>2. QED
  BY TabInvariance, <1>1, PTL

\* A tab of the sidebar bears the name of what it shows, but for a table previewed
\* over a function (tabs.ts:155), whose tab keeps showing the function under the
\* name of the table.
THEOREM NamesObject == Spec => []TitleNamesObject
<1>1. IndInv => TitleNamesObject
  BY DEF IndInv
<1>2. QED
  BY TabInvariance, <1>1, PTL

\* A tab that is not a preview disappears only when the user closes it, or when a
\* document is loaded, with the page or after a connect.
THEOREM PermanentStay == Spec => PermanentTabsStay
<1> DEFINE Stay == \A i \in DOMAIN tabs :
                     ~tabs[i].preview /\ tabs[i].id \notin OpenIds' =>
                       CloseTab(tabs[i].id) \/ LoadsTabs
<1>1. ASSUME Bar, [Next]_vars PROVE Stay
  <2> SUFFICES ASSUME NEW i \in DOMAIN tabs, ~tabs[i].preview, ~Opens(tabs', tabs[i].id),
                      ~LoadsTabs
               PROVE  CloseTab(tabs[i].id)
    BY DEF OpenIds, Opens
  <2>1. ~Survives(tabs[i], tabs')
    BY DEF Survives, Opens
  <2>2. PICK id \in OpenIds : /\ CloseTab(id)
                              /\ \A j \in DOMAIN tabs : tabs[j].id # id => Survives(tabs[j], tabs')
    BY <1>1, <2>1, NextBar DEF PermanentSurvive
  <2>3. tabs[i].id = id
    BY <2>1, <2>2
  <2>4. QED
    BY <2>2, <2>3
<1>2. IndInv /\ [Next]_vars => [Stay]_vars
  <2> HIDE DEF Stay
  <2> QED
    BY <1>1, ByTab
<1>3. QED
  BY TabInvariance, <1>2, PTL DEF Spec, PermanentTabsStay

\* What the user typed into a query tab is changed by his typing only, until a
\* document is loaded.
THEOREM TypedStays == Spec => TypedSqlStays
<1> DEFINE Kept1(i) == \/ \E j \in DOMAIN tabs' : tabs'[j].id = tabs[i].id /\ tabs'[j].sql = "typed"
                       \/ EditSql(tabs[i].id) \/ CloseTab(tabs[i].id) \/ LoadsTabs
           Stay == \A i \in DOMAIN tabs : tabs[i].type = "query" /\ tabs[i].sql = "typed" => Kept1(i)
<1>1. ASSUME Bar, [Next]_vars PROVE Stay
  <2> SUFFICES ASSUME NEW i \in DOMAIN tabs, tabs[i].type = "query", tabs[i].sql = "typed"
               PROVE  Kept1(i)
    OBVIOUS
  <2>1. ~tabs[i].preview
    BY <1>1 DEF Bar, BarGood, TabGood
  <2>2. Survives(tabs[i], tabs') \/ LoadsTabs => Kept1(i)
    BY DEF Survives
  <2>3. ASSUME NEW id \in OpenIds, CloseTab(id) \/ EditSql(id), tabs[i].id = id PROVE Kept1(i)
    BY <2>3
  <2> HIDE DEF Kept1
  <2>4. QED
    BY <1>1, <2>1, <2>2, <2>3, NextBar DEF PermanentSurvive
<1>2. IndInv /\ [Next]_vars => [Stay]_vars
  <2> HIDE DEF Stay
  <2> QED
    BY <1>1, ByTab
<1>3. QED
  BY TabInvariance, <1>2, PTL DEF Spec, TypedSqlStays
=============================================================================
