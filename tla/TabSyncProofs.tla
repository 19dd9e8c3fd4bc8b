--------------------------- MODULE TabSyncProofs ----------------------------
(***************************************************************************)
(* Safety of TabSync for every set of edits and any number of page loads   *)
(* and saves.                                                              *)
(***************************************************************************)
EXTENDS TabSync, TLAPS

USE NothingDistinct, NoTimerDistinct

\* The initial states satisfy the invariant.
LEMMA InitIndInv == Init => IndInv
<1> SUFFICES ASSUME Init PROVE IndInv
  OBVIOUS
<1> USE DEF Init
<1>1. TypeOK
  BY DEF TypeOK, Doc
<1>2. NoSaveBeforeAnswer /\ NewestSaveIsCurrent
  BY DEF NoSaveBeforeAnswer, NewestSaveIsCurrent
<1>3. QED
  BY <1>1, <1>2 DEF IndInv

\* A save request is numbered above all others and carries the current tabs
\* (tabs.ts:321-324).
LEMMA TimerFiresInv ==
  ASSUME IndInv, TimerFires
  PROVE  IndInv'
<1> USE DEF IndInv, TypeOK
<1>1. CASE ~timer.initialized
  BY <1>1 DEF TimerFires, NoSaveBeforeAnswer, NewestSaveIsCurrent
<1>2. CASE timer.initialized
  <2> DEFINE new == [n |-> sent + 1, page |-> page, doc |-> timer.doc]
  <2>1. /\ sent' = sent + 1 /\ timer' = NoTimer
        /\ saves' = saves \cup {new}
        /\ UNCHANGED <<page, ui, doc, initialized, load, reply, server, applied>>
    BY <1>2 DEF TimerFires
  <2>2. /\ new \in Save /\ new.n = sent + 1 /\ new.page = page /\ new.doc = doc
        /\ initialized
    <3>1. timer # NoTimer /\ timer.doc = doc /\ initialized
      BY <1>2 DEF TimerFires
    <3>2. sent + 1 \in Nat /\ page \in Nat /\ timer.doc \in Doc
      BY <3>1
    <3>3. new \in Save
      BY <3>2 DEF Save
    <3>4. QED
      BY <3>1, <3>3
  <2> HIDE DEF new
  <2>3. TypeOK'
    <3>1. saves' \subseteq Save
      BY <2>1, <2>2
    <3>2. QED
      BY <2>1, <2>2, <3>1
  <2>4. /\ \A s \in saves' : s.n <= sent' /\ s.page <= page'
        /\ applied' < sent'
    BY <2>1, <2>2 DEF Save
  <2>5. NoSaveBeforeAnswer'
    BY <2>1, <2>2 DEF NoSaveBeforeAnswer
  <2>6. NewestSaveIsCurrent'
    BY <2>1, <2>2, <2>4 DEF NewestSaveIsCurrent, Save
  <2>7. QED
    BY <2>1, <2>3, <2>4, <2>5, <2>6
<1>3. QED
  BY <1>1, <1>2

\* A page load starts from scratch; the saves of earlier pages are not its own.
LEMMA NewPageInv ==
  ASSUME IndInv, NewPage
  PROVE  IndInv'
<1>1. /\ page' = page + 1 /\ ui' = "hidden" /\ doc' = {} /\ initialized' = FALSE
      /\ load' = "none" /\ reply' = {} /\ timer' = NoTimer
      /\ UNCHANGED <<sent, saves, server, applied>>
  BY DEF NewPage
<1>2. /\ page \in Nat /\ sent \in Nat /\ applied \in Nat /\ saves \subseteq Save
      /\ server \in {Nothing} \cup Doc /\ applied <= sent
  BY DEF IndInv, TypeOK
<1>3. \A s \in saves : s.page \in Nat /\ s.page <= page /\ s.n <= sent
  BY <1>2 DEF IndInv, Save
<1>4. \A s \in saves : s.page # page + 1 /\ s.page <= page + 1
  BY <1>2, <1>3
<1>5. TypeOK'
  <2>1. doc' \in Doc /\ reply' \in Doc /\ timer' \in {NoTimer} \cup Snap
    BY <1>1 DEF Doc
  <2>2. page' \in Nat
    BY <1>1, <1>2
  <2>3. initialized' \in BOOLEAN
    BY <1>1
  <2>4. initialized' => ui' = "shown" /\ load' \in {"loaded", "empty", "failed"}
    BY <1>1
  <2>5. saves' \subseteq Save
    BY <1>1, <1>2
  <2>6. QED
    BY <1>1, <1>2, <2>1, <2>2, <2>3, <2>4, <2>5 DEF TypeOK
<1>6. NoSaveBeforeAnswer' /\ NewestSaveIsCurrent'
  BY <1>1, <1>4 DEF NoSaveBeforeAnswer, NewestSaveIsCurrent
<1>7. QED
  BY <1>1, <1>2, <1>3, <1>4, <1>5, <1>6 DEF IndInv

\* The invariant is inductive.
LEMMA NextIndInv == IndInv /\ [Next]_vars => IndInv'
<1> SUFFICES ASSUME IndInv, [Next]_vars PROVE IndInv'
  OBVIOUS
<1> USE DEF IndInv, TypeOK, NoSaveBeforeAnswer, NewestSaveIsCurrent
<1>1. CASE StartConnected
  BY <1>1 DEF StartConnected
<1>2. CASE StartByDialog
  BY <1>2 DEF StartByDialog
<1>3. CASE LoadFound
  BY <1>3 DEF LoadFound, Touch, Doc, Snap
<1>4. CASE LoadNothing
  BY <1>4 DEF LoadNothing, Touch, Doc, Snap
<1>5. ASSUME NEW e \in Edits, Edit(e) PROVE IndInv'
  BY <1>5 DEF Edit, Touch, Doc, Snap
<1>6. CASE TimerFires
  BY <1>6, TimerFiresInv
<1>7. CASE NewPage
  BY <1>7, NewPageInv
<1>8. CASE ServerReads
  BY <1>8 DEF ServerReads
<1>9. CASE LoadFails
  BY <1>9 DEF LoadFails
<1>10. ASSUME NEW s \in saves, SaveArrives(s) PROVE IndInv'
  BY <1>10 DEF SaveArrives, pageVars, Save
<1>11. ASSUME NEW s \in saves, SaveFails(s) PROVE IndInv'
  BY <1>11 DEF SaveFails, pageVars
<1>12. CASE UNCHANGED vars
  BY <1>12 DEF vars
<1>13. QED
  BY <1>1, <1>2, <1>3, <1>4, <1>5, <1>6, <1>7, <1>8, <1>9, <1>10, <1>11, <1>12
  DEF Next

\* What is proved once for all.
THEOREM Invariance == Spec => []IndInv
BY InitIndInv, NextIndInv, PTL DEF Spec

\* A page that has not heard of the stored tabs sends no save.
THEOREM NoBlindSave == Spec => []NoSaveBeforeAnswer
<1>1. IndInv => NoSaveBeforeAnswer
  BY DEF IndInv
<1>2. QED
  BY Invariance, <1>1, PTL

\* Whatever is lost or overtaken, the newest save carries what is on the screen,
\* and if it arrived last the server has it.
THEOREM NewestSave == Spec => []NewestSaveIsCurrent
<1>1. IndInv => NewestSaveIsCurrent
  BY DEF IndInv
<1>2. QED
  BY Invariance, <1>1, PTL
=============================================================================
