------------------------- MODULE BrowserPageProofs -------------------------
(***************************************************************************)
(* Proofs about BrowserPage, for any files, buttons and users.             *)
(*                                                                         *)
(* Levels are counted up and down by different handlers and are shared by  *)
(* items, so that the level counts the open items needs Base: who listens  *)
(* to a div was made for its level, and a div is on screen exactly as long *)
(* as someone listens to it.  What a careful user sees needs two more      *)
(* invariants: the divs are a stack of one item each (StackOK), and what a *)
(* name stands for is open while a command of it is under way (OwnOK) or a *)
(* result for it is still to be processed (BatchOK).                       *)
(***************************************************************************)
EXTENDS BrowserPage, FiniteSetTheorems, SequenceTheorems, TLAPS

\* A div's listeners are items made for its level.
ListenOK ==
    \A l \in Levels : \A i \in listeners[l] : i \in 1 .. made /\ item[i].level = l

\* A div is on screen as long as an item listens to it, so it can be closed.
DivOK == \A l \in Levels : Exists(l) <=> listeners[l] # {}

\* Items that are made have an ID and a level; an ID names one of these.
ItemOK ==
    /\ \A i \in ItemNumber :
          IF i <= made THEN item[i].id \in IDs /\ item[i].level \in Levels
                       ELSE answer[i] = "none"
    /\ \A id \in IDs : Items[id] \in 0 .. made

\* The request of a notifying button has an item, and so has its ID.
PendOK ==
    \A r \in pending : Notify[r.button] # NoID =>
        r.item \in 1 .. made /\ Items[Notify[r.button]] \in 1 .. made

Base == TypeOK /\ StartsComplete /\ ListenOK /\ DivOK /\ ItemOK /\ PendOK
        /\ LevelCountsOpen

\* With a careful user the divs are a stack without gaps, of one item each.
StackOK ==
    careful => \A l \in Levels :
        /\ listeners[l] # {} <=> l < zIndex
        /\ \A i, j \in listeners[l] : i = j

\* With a careful user a command under way is the only one of its ID, its item
\* is open and is the one that the ID names.
OwnOK ==
    careful => \A r \in pending : Notify[r.button] # NoID =>
        /\ Items[Notify[r.button]] = r.item
        /\ r.item \in Open
        /\ item[r.item].id = Notify[r.button]
        /\ \A s \in pending : Notify[s.button] = Notify[r.button] => s = r

\* With a careful message server a result still in the batch is for an open item.
BatchOK ==
    careful => \A k \in 1 .. Len(batch) : MaySend(batch[k])

-----------------------------------------------------------------------------
(* Operators. *)

LEMMA OpenFinite ==
    ASSUME TypeOK
    PROVE  /\ IsFiniteSet(Open) /\ Cardinality(Open) \in Nat
           /\ Cardinality(Open) <= made
  <1>1. made \in Nat /\ Open \in SUBSET (1 .. made)
    BY PageAssumption DEF TypeOK, Open
  <1>2. IsFiniteSet(1 .. made) /\ Cardinality(1 .. made) = made
    BY <1>1, FS_Interval
  <1>3. IsFiniteSet(Open) /\ Cardinality(Open) <= made
    BY <1>1, <1>2, FS_Subset
  <1> QED
    BY <1>3, FS_CardinalityType

LEMMA TextKinds ==
    ASSUME NEW kind \in {"ok", "error", "message"}, NEW id \in IDs
    PROVE  /\ Result(kind, id) \in Texts /\ Result(kind, id) # NoDiv
           /\ Waiting \in Texts /\ Waiting # NoDiv
  BY DEF Result, Texts, Waiting, NoDiv

LEMMA NextPolls ==
    ASSUME NEW rest, NEW error
    PROVE  NextPoll(rest, error) \in {"off", "sent", "busy", "ended"}
  BY DEF NextPoll

-----------------------------------------------------------------------------
(* A new item. *)

LEMMA Added ==
    ASSUME Base, NEW id \in IDs, AddMsgItem(id), UNCHANGED answer,
           shows' \in [Levels -> Texts], shows'[zIndex] # NoDiv,
           \A l \in Levels : l # zIndex => shows'[l] = shows[l]
    PROVE  /\ made' \in 0 .. MaxItems /\ zIndex' \in Levels
           /\ item' \in [ItemNumber -> [id : IDs \cup {NoID}, level : Levels \cup {0}]]
           /\ Items' \in [IDs -> 0 .. MaxItems]
           /\ listeners' \in [Levels -> SUBSET ItemNumber]
           /\ ListenOK' /\ DivOK' /\ ItemOK' /\ LevelCountsOpen'
           /\ Open' = Open \cup {made + 1}
           /\ \A n \in IDs : Items[n] \in 1 .. made => Items'[n] \in 1 .. made'
           /\ Items'[id] = made + 1 /\ made' = made + 1
  <1> DEFINE new == made + 1
  <1>1. /\ made < MaxItems /\ made \in Nat /\ MaxItems \in Nat
        /\ made' = new /\ new \in ItemNumber
    BY PageAssumption DEF Base, TypeOK, AddMsgItem, ItemNumber
  <1>2. zIndex \in Levels /\ zIndex' = zIndex + 1 /\ zIndex' \in Levels
    BY <1>1, OpenFinite DEF Base, TypeOK, LevelCountsOpen, Levels, BaseLevel,
       AddMsgItem, NextLevel
  <1>3. /\ item' \in [ItemNumber -> [id : IDs \cup {NoID}, level : Levels \cup {0}]]
        /\ item'[new].id = id /\ item'[new].level = zIndex
        /\ \A i \in ItemNumber : i # new => item'[i] = item[i]
    BY <1>1, <1>2 DEF AddMsgItem, Base, TypeOK
  <1>4. /\ listeners' \in [Levels -> SUBSET ItemNumber]
        /\ listeners'[zIndex] = listeners[zIndex] \cup {new}
        /\ \A l \in Levels : l # zIndex => listeners'[l] = listeners[l]
    BY <1>1, <1>2 DEF AddMsgItem, Base, TypeOK
  <1>5. /\ Items' \in [IDs -> 0 .. MaxItems]
        /\ Items'[id] = new
        /\ \A n \in IDs : n # id => Items'[n] = Items[n]
    BY <1>1 DEF AddMsgItem, NamedLast, Base, TypeOK
  <1> HIDE DEF new
  <1>6. \A l \in Levels : new \notin listeners[l]
    BY <1>1 DEF Base, ListenOK, new
  <1>7. ListenOK'
    <2> SUFFICES ASSUME NEW l \in Levels, NEW i \in listeners'[l]
                 PROVE  i \in 1 .. made' /\ item'[i].level = l
      BY DEF ListenOK
    <2>1. CASE i = new
      BY <2>1, <1>1, <1>3, <1>4, <1>6 DEF ItemNumber
    <2>2. CASE i # new
      <3>1. i \in listeners[l]
        BY <2>2, <1>4
      <3>2. i \in 1 .. made /\ item[i].level = l
        BY <3>1 DEF Base, ListenOK
      <3> QED BY <2>2, <3>2, <1>1, <1>3 DEF new, ItemNumber
    <2> QED BY <2>1, <2>2
  <1>8. DivOK'
    <2> SUFFICES ASSUME NEW l \in Levels
                 PROVE  shows'[l] # NoDiv <=> listeners'[l] # {}
      BY DEF DivOK, Exists
    <2>1. CASE l = zIndex
      BY <2>1, <1>4
    <2>2. CASE l # zIndex
      BY <2>2, <1>4 DEF Base, DivOK, Exists
    <2> QED BY <2>1, <2>2
  <1>9. ItemOK'
    <2>0. \A n \in IDs : Items'[n] \in 0 .. made'
      BY <1>1, <1>5 DEF Base, ItemOK, new
    <2> SUFFICES ASSUME NEW i \in ItemNumber
                 PROVE  IF i <= made'
                        THEN item'[i].id \in IDs /\ item'[i].level \in Levels
                        ELSE answer'[i] = "none"
      BY <2>0 DEF ItemOK
    <2>1. CASE i = new
      BY <2>1, <1>1, <1>2, <1>3 DEF ItemNumber
    <2>2. CASE i # new
      <3>1. IF i <= made THEN item[i].id \in IDs /\ item[i].level \in Levels
                         ELSE answer[i] = "none"
        BY DEF Base, ItemOK
      <3>2. i \in Nat /\ (i <= made' <=> i <= made)
        BY <2>2, <1>1 DEF new, ItemNumber
      <3> QED BY <2>2, <1>3, <3>1, <3>2
    <2> QED BY <2>1, <2>2
  <1>10. Open' = Open \cup {new} /\ new \notin Open
    <2>1. \A i \in 1 .. made : i # new /\ i \in ItemNumber /\ item[i].level \in Levels
      BY <1>1 DEF new, ItemNumber, Base, ItemOK
    <2>2. \A i \in 1 .. made : i \in listeners'[item'[i].level]
                                <=> i \in listeners[item[i].level]
      BY <2>1, <1>3, <1>4
    <2>3. new \in listeners'[item'[new].level]
      BY <1>3, <1>4
    <2>4. 1 .. made' = (1 .. made) \cup {new}
      BY <1>1 DEF new
    <2>5. Open' = {i \in 1 .. made' : i \in listeners'[item'[i].level]}
      BY DEF Open
    <2>6. Open = {i \in 1 .. made : i \in listeners[item[i].level]}
      BY DEF Open
    <2> QED BY <2>1, <2>2, <2>3, <2>4, <2>5, <2>6
  <1>11. LevelCountsOpen'
    <2>1. Cardinality(Open') = Cardinality(Open) + 1
      BY <1>10, OpenFinite, FS_AddElement DEF Base
    <2> QED BY <2>1, <1>2, OpenFinite DEF Base, LevelCountsOpen, BaseLevel
  <1>12. \A n \in IDs : Items[n] \in 1 .. made => Items'[n] \in 1 .. made'
    BY <1>1, <1>5 DEF new, ItemNumber
  <1> QED
    BY <1>1, <1>2, <1>3, <1>4, <1>5, <1>7, <1>8, <1>9, <1>10, <1>11, <1>12 DEF new

-----------------------------------------------------------------------------
(* Closed items. *)

LEMMA Closed ==
    ASSUME Base, NEW l \in Levels, Close(l)
    PROVE  /\ zIndex' \in Levels /\ shows' \in [Levels -> Texts]
           /\ listeners' \in [Levels -> SUBSET ItemNumber]
           /\ ListenOK' /\ DivOK' /\ LevelCountsOpen'
           /\ Open' = Open \ listeners[l]
  <1>1. /\ shows' = [shows EXCEPT ![l] = NoDiv]
        /\ listeners' = [listeners EXCEPT ![l] = {}]
        /\ zIndex' = zIndex - Cardinality(listeners[l])
        /\ UNCHANGED <<made, item>>
    BY DEF Close, DownAll
  <1>2. shows' \in [Levels -> Texts] /\ listeners' \in [Levels -> SUBSET ItemNumber]
    BY <1>1 DEF Base, TypeOK, Texts
  <1>3. ListenOK'
    BY <1>1 DEF Base, TypeOK, ListenOK
  <1>4. DivOK'
    BY <1>1 DEF Base, TypeOK, DivOK, Exists
  <1>5. listeners[l] \subseteq Open
    BY DEF Base, ListenOK, Open
  <1>6. Open' = Open \ listeners[l]
    <2>1. \A i \in 1 .. made : i \in ItemNumber /\ item[i].level \in Levels
      BY PageAssumption DEF Base, TypeOK, ItemOK, ItemNumber
    <2>2. \A i \in 1 .. made : i \in listeners'[item[i].level]
              <=> i \in listeners[item[i].level] /\ i \notin listeners[l]
      BY <2>1, <1>1 DEF Base, TypeOK, ListenOK
    <2>3. Open' = {i \in 1 .. made : i \in listeners'[item[i].level]}
      BY <1>1 DEF Open
    <2>4. Open = {i \in 1 .. made : i \in listeners[item[i].level]}
      BY DEF Open
    <2> QED BY <2>2, <2>3, <2>4
  <1>7. /\ Cardinality(Open') = Cardinality(Open) - Cardinality(listeners[l])
        /\ Cardinality(listeners[l]) \in Nat
        /\ Cardinality(listeners[l]) <= Cardinality(Open)
    <2>1. Open \cap listeners[l] = listeners[l]
      BY <1>5
    <2>2. IsFiniteSet(Open)
      BY OpenFinite DEF Base
    <2>3. IsFiniteSet(listeners[l]) /\ Cardinality(listeners[l]) <= Cardinality(Open)
      BY <1>5, <2>2, FS_Subset
    <2>4. Cardinality(Open \ listeners[l])
              = Cardinality(Open) - Cardinality(Open \cap listeners[l])
      BY <2>2, FS_Difference
    <2> QED BY <1>6, <2>1, <2>3, <2>4, FS_CardinalityType
  <1>8. LevelCountsOpen' /\ zIndex' \in Levels
    <2>1. zIndex = BaseLevel + Cardinality(Open) /\ zIndex \in Levels
      BY DEF Base, TypeOK, LevelCountsOpen
    <2>2. Cardinality(Open) \in Nat
      BY OpenFinite DEF Base
    <2>3. zIndex' = BaseLevel + Cardinality(Open')
      BY <1>1, <1>7, <2>1, <2>2 DEF BaseLevel
    <2>4. zIndex' <= zIndex /\ zIndex' >= BaseLevel /\ zIndex' \in Nat
      BY <1>1, <1>7, <2>1, <2>2 DEF BaseLevel
    <2> QED BY <2>1, <2>3, <2>4, PageAssumption DEF LevelCountsOpen, Levels, BaseLevel
  <1> QED BY <1>2, <1>3, <1>4, <1>6, <1>8

-----------------------------------------------------------------------------
(* Base is inductive. *)

LEMMA BaseInit == Init => Base
  <1> SUFFICES ASSUME Init PROVE Base
    OBVIOUS
  <1> USE DEF Init
  <1>1. BaseLevel \in Levels
    BY PageAssumption DEF Levels, BaseLevel
  <1>2. TypeOK
    BY <1>1, PageAssumption, EmptySeq DEF TypeOK, Players, Texts
  <1>3. StartsComplete
    BY DEF StartsComplete
  <1>4. ListenOK /\ DivOK
    BY DEF ListenOK, DivOK, Exists
  <1>5. ItemOK /\ PendOK
    BY DEF ItemOK, PendOK, ItemNumber
  <1>6. Open = {}
    BY DEF Open
  <1>7. LevelCountsOpen
    BY <1>6, FS_EmptySet DEF LevelCountsOpen, BaseLevel
  <1> QED
    BY <1>2, <1>3, <1>4, <1>5, <1>7 DEF Base

\* What the page's own handlers leave alone.
LEMMA SameNotes ==
    ASSUME Base, UNCHANGED <<note, answer, careful>>,
           shows' \in [Levels -> Texts],
           \A l \in Levels : shows'[l] # NoDiv <=> shows[l] # NoDiv
    PROVE  ListenOK' /\ DivOK' /\ ItemOK' /\ LevelCountsOpen' /\ Open' = Open
  BY DEF Base, note, ListenOK, DivOK, ItemOK, LevelCountsOpen, Open, Exists

LEMMA ShowInKeeps ==
    ASSUME Base, NEW i \in 1 .. made, NEW kind \in {"ok", "error"}, ShowIn(i, kind)
    PROVE  /\ shows' \in [Levels -> Texts]
           /\ \A l \in Levels : shows'[l] # NoDiv <=> shows[l] # NoDiv
           /\ Exists(item[i].level) =>
                shows' = [shows EXCEPT ![item[i].level] = Result(kind, item[i].id)]
  <1>1. item[i].level \in Levels /\ item[i].id \in IDs
    BY PageAssumption DEF Base, TypeOK, ItemOK, ItemNumber
  <1>2. Result(kind, item[i].id) \in Texts /\ Result(kind, item[i].id) # NoDiv
    BY <1>1, TextKinds
  <1> QED BY <1>1, <1>2 DEF ShowIn, Base, TypeOK, Exists

LEMMA BaseNext == Base /\ [Next]_vars => Base'
  <1> SUFFICES ASSUME Base, [Next]_vars PROVE Base'
    OBVIOUS
  <1>1. CASE UNCHANGED vars
    BY <1>1 DEF vars, boot, note, Base, TypeOK, StartsComplete, ListenOK, DivOK, ItemOK,
       PendOK, LevelCountsOpen, Open, Exists, Ready
  <1>2. ASSUME NEW f \in Files, FileArrives(f) PROVE Base'
    <2> USE <1>2 DEF FileArrives
    <2>1. UNCHANGED <<note, answer, careful, shows, pending>>
      OBVIOUS
    <2>2. ListenOK' /\ DivOK' /\ ItemOK' /\ LevelCountsOpen'
      BY <2>1, SameNotes DEF Base, TypeOK
    <2>3. started = 0
      BY DEF Base, TypeOK, StartsComplete, Ready
    <2>4. StartsComplete' /\ started' \in 0 .. 1
      BY <2>3 DEF StartsComplete, AllReady, Ready
    <2>5. TypeOK'
      BY <2>1, <2>4 DEF Base, TypeOK, note
    <2>6. PendOK'
      BY <2>1 DEF Base, PendOK, note
    <2> QED BY <2>2, <2>4, <2>5, <2>6 DEF Base
  <1>3. ASSUME NEW f \in Files, FileFails(f) PROVE Base'
    <2> USE <1>3 DEF FileFails
    <2>1. UNCHANGED <<note, answer, careful, shows, pending>>
      OBVIOUS
    <2>2. ListenOK' /\ DivOK' /\ ItemOK' /\ LevelCountsOpen'
      BY <2>1, SameNotes DEF Base, TypeOK
    <2>3. StartsComplete'
      BY DEF Base, TypeOK, StartsComplete, Ready
    <2>4. TypeOK' /\ PendOK'
      BY <2>1 DEF Base, TypeOK, PendOK, note
    <2> QED BY <2>2, <2>3, <2>4 DEF Base
  <1>4. ASSUME NEW l \in Levels, Close(l) PROVE Base'
    <2>1. UNCHANGED <<boot, SelectedPlayer, sent, pending, made, item, Items, polling,
                      batch, careful, answer>>
      BY <1>4 DEF Close
    <2>2. TypeOK'
      BY <1>4, <2>1, Closed DEF Base, TypeOK, boot
    <2>3. StartsComplete' /\ ItemOK' /\ PendOK'
      BY <2>1 DEF Base, StartsComplete, Ready, ItemOK, PendOK, boot
    <2> QED BY <1>4, <2>2, <2>3, Closed DEF Base
  <1>5. ASSUME NEW b \in Buttons, Click(b) PROVE Base'
    <2>1. /\ UNCHANGED <<boot, polling, batch, careful, answer>>
          /\ SelectedPlayer' \in Players
          /\ sent' = sent + 1 /\ sent' \in 0 .. MaxRequests /\ sent + 1 \in 1 .. MaxRequests
          /\ Payload(b) \in Players \cup {"none"}
      BY <1>5, PageAssumption DEF Click, Base, TypeOK, PlayerAfter, Players, Payload
    <2>2. CASE Notify[b] = NoID
      <3> DEFINE r == [n |-> sent + 1, button |-> b, player |-> Payload(b), item |-> 0]
      <3>1. pending' = pending \cup {r} /\ UNCHANGED <<note, shows>>
        BY <1>5, <2>2 DEF Click
      <3>2. r \in Request /\ r.button = b
        BY <2>1, PageAssumption DEF Request
      <3> HIDE DEF r
      <3>3. TypeOK'
        BY <2>1, <3>1, <3>2 DEF Base, TypeOK, note, boot
      <3>4. ListenOK' /\ DivOK' /\ ItemOK' /\ LevelCountsOpen'
        BY <2>1, <3>1, SameNotes DEF Base, TypeOK
      <3>5. PendOK'
        BY <2>2, <3>1, <3>2 DEF Base, PendOK, note
      <3>6. StartsComplete'
        BY <2>1 DEF Base, StartsComplete, Ready, boot
      <3> QED BY <3>3, <3>4, <3>5, <3>6 DEF Base
    <2>3. CASE Notify[b] # NoID
      <3> DEFINE r == [n |-> sent + 1, button |-> b, player |-> Payload(b),
                       item |-> made + 1]
      <3>1. /\ Notify[b] \in IDs
            /\ AddMsgItem(Notify[b])
            /\ shows' = [shows EXCEPT ![zIndex] = Rendered]
            /\ pending' = pending \cup {r}
        BY <1>5, <2>3, PageAssumption DEF Click, IDs
      <3>2. Rendered \in Texts /\ Rendered # NoDiv
        BY TextKinds DEF Rendered, Exists, Base, TypeOK, Waiting, NoDiv, Texts
      <3>3. /\ shows' \in [Levels -> Texts] /\ shows'[zIndex] # NoDiv
            /\ \A l \in Levels : l # zIndex => shows'[l] = shows[l]
        BY <3>1, <3>2 DEF Base, TypeOK
      <3>4. made + 1 \in 1 .. MaxItems /\ made + 1 \in 0 .. MaxItems
        BY <3>1, PageAssumption DEF AddMsgItem, Base, TypeOK
      <3>5. r \in Request /\ r.button = b /\ r.item = made + 1
        BY <2>1, <3>4 DEF Request
      <3> HIDE DEF r
      <3>6. /\ made' \in 0 .. MaxItems /\ zIndex' \in Levels
            /\ item' \in [ItemNumber -> [id : IDs \cup {NoID}, level : Levels \cup {0}]]
            /\ Items' \in [IDs -> 0 .. MaxItems]
            /\ listeners' \in [Levels -> SUBSET ItemNumber]
            /\ ListenOK' /\ DivOK' /\ ItemOK' /\ LevelCountsOpen'
            /\ \A n \in IDs : Items[n] \in 1 .. made => Items'[n] \in 1 .. made'
            /\ Items'[Notify[b]] = made + 1 /\ made' = made + 1
        BY <2>1, <3>1, <3>3, Added
      <3>7. TypeOK'
        BY <2>1, <3>1, <3>3, <3>5, <3>6 DEF Base, TypeOK, boot
      <3>8. PendOK'
        <4> SUFFICES ASSUME NEW q \in pending', Notify[q.button] # NoID
                     PROVE  q.item \in 1 .. made' /\ Items'[Notify[q.button]] \in 1 .. made'
          BY DEF PendOK
        <4>1. made \in Nat
          BY PageAssumption DEF Base, TypeOK
        <4>2. CASE q = r
          BY <4>1, <4>2, <3>5, <3>6
        <4>3. CASE q \in pending
          <5>1. q.item \in 1 .. made /\ Items[Notify[q.button]] \in 1 .. made
            BY <4>3 DEF Base, PendOK
          <5>2. Notify[q.button] \in IDs
            BY <4>3, PageAssumption DEF Base, TypeOK, Request, IDs
          <5> QED BY <4>1, <5>1, <5>2, <3>6
        <4> QED BY <4>2, <4>3, <3>1
      <3>9. StartsComplete'
        BY <2>1 DEF Base, StartsComplete, Ready, boot
      <3> QED BY <3>6, <3>7, <3>8, <3>9 DEF Base
    <2> QED BY <2>2, <2>3
  <1>6. ASSUME NEW r \in pending, NEW kind \in {"ok", "error"}, Answer(r, kind)
        PROVE  Base'
    <2>1. /\ UNCHANGED <<boot, SelectedPlayer, sent, note, polling, batch, careful>>
          /\ pending' = pending \ {r}
      BY <1>6 DEF Answer
    <2>2. PendOK'
      BY <2>1 DEF Base, PendOK, note
    <2>3. StartsComplete'
      BY <2>1 DEF Base, StartsComplete, Ready, boot
    <2>4. CASE Notify[r.button] = NoID
      <3>1. UNCHANGED <<shows, answer>>
        BY <1>6, <2>4 DEF Answer
      <3>2. TypeOK'
        BY <2>1, <3>1 DEF Base, TypeOK, note, boot
      <3>3. ListenOK' /\ DivOK' /\ ItemOK' /\ LevelCountsOpen'
        BY <2>1, <3>1, SameNotes DEF Base, TypeOK
      <3> QED BY <2>2, <2>3, <3>2, <3>3 DEF Base
    <2>5. CASE Notify[r.button] # NoID
      <3> DEFINE i == Items[Notify[r.button]]
      <3>1. i \in 1 .. made /\ r.item \in 1 .. made
        BY <2>5 DEF Base, PendOK
      <3>2. ShowIn(i, kind) /\ answer' = [answer EXCEPT ![r.item] = kind]
        BY <1>6, <2>5 DEF Answer
      <3> HIDE DEF i
      <3>3. /\ shows' \in [Levels -> Texts]
            /\ \A l \in Levels : shows'[l] # NoDiv <=> shows[l] # NoDiv
        BY <3>1, <3>2, ShowInKeeps
      <3>4. TypeOK'
        BY <2>1, <3>2, <3>3 DEF Base, TypeOK, note, boot
      <3>5. ListenOK' /\ DivOK' /\ LevelCountsOpen'
        BY <2>1, <3>3 DEF Base, ListenOK, DivOK, Exists, LevelCountsOpen, Open, note
      <3>6. ItemOK'
        BY <2>1, <3>1, <3>2, PageAssumption DEF Base, TypeOK, ItemOK, ItemNumber, note
      <3> QED BY <2>2, <2>3, <3>4, <3>5, <3>6 DEF Base
    <2> QED BY <2>4, <2>5
  <1>7. ASSUME NEW r \in pending, Lost(r) PROVE Base'
    <2>1. /\ UNCHANGED <<boot, SelectedPlayer, sent, note, shows, polling, batch, careful,
                         answer>>
          /\ pending' = pending \ {r}
      BY <1>7 DEF Lost
    <2>2. TypeOK' /\ PendOK' /\ StartsComplete'
      BY <2>1 DEF Base, TypeOK, PendOK, StartsComplete, Ready, note, boot
    <2> QED BY <2>1, <2>2, SameNotes DEF Base, TypeOK
  <1>8. ASSUME NEW ms \in Batches, PollAnswered(ms) PROVE Base'
    <2>1. /\ UNCHANGED <<boot, SelectedPlayer, sent, pending, note, shows, careful, answer>>
          /\ polling' = "busy" /\ batch' = ms
      BY <1>8 DEF PollAnswered
    <2>2. ms \in Seq(Messages) /\ Len(ms) <= MaxBatch
      BY PageAssumption DEF Batches
    <2>3. TypeOK' /\ PendOK' /\ StartsComplete'
      BY <2>1, <2>2 DEF Base, TypeOK, PendOK, StartsComplete, Ready, note, boot
    <2> QED BY <2>1, <2>3, SameNotes DEF Base, TypeOK
  <1>9. CASE PollFails
    <2>1. /\ UNCHANGED <<boot, SelectedPlayer, sent, pending, note, shows, batch, careful,
                         answer>>
          /\ polling' = "ended"
      BY <1>9 DEF PollFails
    <2>2. TypeOK' /\ PendOK' /\ StartsComplete'
      BY <2>1 DEF Base, TypeOK, PendOK, StartsComplete, Ready, note, boot
    <2> QED BY <2>1, <2>2, SameNotes DEF Base, TypeOK
  <1>10. CASE MsgError
    <2>1. /\ UNCHANGED <<boot, SelectedPlayer, sent, pending, note, shows, careful, answer>>
          /\ polling' = NextPoll(batch', TRUE) /\ batch' = <<>>
      BY <1>10 DEF MsgError
    <2>2. polling' \in {"off", "sent", "busy", "ended"}
      BY <2>1, NextPolls
    <2>3. batch' \in Seq(Messages) /\ Len(batch') <= MaxBatch
      BY <2>1, EmptySeq, PageAssumption
    <2>4. TypeOK'
      BY <2>1, <2>2, <2>3 DEF Base, TypeOK, note, boot
    <2>5. PendOK' /\ StartsComplete'
      BY <2>1 DEF Base, PendOK, StartsComplete, Ready, note, boot
    <2> QED BY <2>1, <2>4, <2>5, SameNotes DEF Base, TypeOK
  <1>11. CASE ProcessMsg
    <2>1. /\ UNCHANGED <<boot, SelectedPlayer, sent, pending, careful, answer>>
          /\ AddMsgItem(MessageID) /\ MessageID \in IDs
          /\ batch' = Tail(batch) /\ batch # <<>>
          /\ polling' = NextPoll(batch', FALSE)
      BY <1>11 DEF ProcessMsg, IDs
    <2> DEFINE text == IF Head(batch).type = "method" THEN Rendered
                                                      ELSE Result("message", MessageID)
    <2>2. shows' = [shows EXCEPT ![zIndex] = text]
      BY <1>11 DEF ProcessMsg
    <2>3. text \in Texts /\ text # NoDiv
      <3>1. Rendered \in Texts /\ Rendered # NoDiv
        BY TextKinds DEF Rendered, Exists, Base, TypeOK, Waiting, NoDiv, Texts
      <3> QED BY <3>1, <2>1, TextKinds
    <2> HIDE DEF text
    <2>4. /\ shows' \in [Levels -> Texts] /\ shows'[zIndex] # NoDiv
          /\ \A l \in Levels : l # zIndex => shows'[l] = shows[l]
      BY <2>2, <2>3 DEF Base, TypeOK
    <2>5. /\ made' \in 0 .. MaxItems /\ zIndex' \in Levels
          /\ item' \in [ItemNumber -> [id : IDs \cup {NoID}, level : Levels \cup {0}]]
          /\ Items' \in [IDs -> 0 .. MaxItems]
          /\ listeners' \in [Levels -> SUBSET ItemNumber]
          /\ ListenOK' /\ DivOK' /\ ItemOK' /\ LevelCountsOpen'
          /\ \A n \in IDs : Items[n] \in 1 .. made => Items'[n] \in 1 .. made'
          /\ made' = made + 1
      BY <2>1, <2>4, Added
    <2>6. batch' \in Seq(Messages) /\ Len(batch') <= MaxBatch
      <3>1. batch \in Seq(Messages) /\ Len(batch) <= MaxBatch
        BY DEF Base, TypeOK
      <3> QED BY <2>1, <3>1, PageAssumption
    <2>7. TypeOK'
      BY <2>1, <2>4, <2>5, <2>6, NextPolls DEF Base, TypeOK, boot
    <2>8. PendOK'
      <3> SUFFICES ASSUME NEW q \in pending, Notify[q.button] # NoID
                   PROVE  q.item \in 1 .. made' /\ Items'[Notify[q.button]] \in 1 .. made'
        BY <2>1 DEF PendOK
      <3>1. q.item \in 1 .. made /\ Items[Notify[q.button]] \in 1 .. made
        BY DEF Base, PendOK
      <3>2. Notify[q.button] \in IDs
        BY PageAssumption DEF Base, TypeOK, Request, IDs
      <3>3. made \in Nat
        BY PageAssumption DEF Base, TypeOK
      <3> QED BY <2>5, <3>1, <3>2, <3>3
    <2>9. StartsComplete'
      BY <2>1 DEF Base, StartsComplete, Ready, boot
    <2> QED BY <2>5, <2>7, <2>8, <2>9 DEF Base
  <1>12. CASE IndicatorMsg
    <2>1. /\ UNCHANGED <<boot, SelectedPlayer, sent, pending, note, careful>>
          /\ batch' = Tail(batch) /\ batch # <<>>
          /\ polling' = NextPoll(batch', FALSE)
      BY <1>12 DEF IndicatorMsg
    <2>2. PendOK' /\ StartsComplete'
      BY <2>1 DEF Base, PendOK, StartsComplete, Ready, note, boot
    <2>3. batch' \in Seq(Messages) /\ Len(batch') <= MaxBatch
      <3>1. batch \in Seq(Messages) /\ Len(batch) <= MaxBatch
        BY DEF Base, TypeOK
      <3> QED BY <2>1, <3>1, PageAssumption
    <2>4. polling' \in {"off", "sent", "busy", "ended"}
      BY <2>1, NextPolls
    <2>5. CASE UNCHANGED <<shows, answer>>
      <3>1. TypeOK'
        BY <2>1, <2>3, <2>4, <2>5 DEF Base, TypeOK, note, boot
      <3> QED BY <2>1, <2>2, <2>5, <3>1, SameNotes DEF Base, TypeOK
    <2>6. CASE ~UNCHANGED <<shows, answer>>
      <3> DEFINE kind == Head(batch).type
                 i == Items[Head(batch).id]
      <3>1. i # 0 /\ ShowIn(i, kind) /\ answer' = [answer EXCEPT ![i] = kind]
        BY <1>12, <2>6 DEF IndicatorMsg
      <3>2. kind \in {"ok", "error"} /\ i \in 1 .. made
        <4>1. Head(batch) \in Messages /\ kind \in {"ok", "error"}
          BY <1>12, <2>1 DEF Base, TypeOK, IndicatorMsg, ResultTypes
        <4>2. Head(batch).id \in IDs
          BY <4>1 DEF Messages, IDs
        <4>3. made \in Nat
          BY PageAssumption DEF Base, TypeOK
        <4> QED BY <3>1, <4>1, <4>2, <4>3 DEF Base, ItemOK
      <3> HIDE DEF i, kind
      <3>3. /\ shows' \in [Levels -> Texts]
            /\ \A l \in Levels : shows'[l] # NoDiv <=> shows[l] # NoDiv
        BY <3>1, <3>2, ShowInKeeps
      <3>4. answer' \in [ItemNumber -> {"none", "ok", "error"}]
        BY <3>1, <3>2 DEF Base, TypeOK
      <3>5. TypeOK'
        BY <2>1, <2>3, <2>4, <3>3, <3>4 DEF Base, TypeOK, note, boot
      <3>6. ListenOK' /\ DivOK' /\ LevelCountsOpen'
        BY <2>1, <3>3 DEF Base, ListenOK, DivOK, Exists, LevelCountsOpen, Open, note
      <3>7. ItemOK'
        BY <2>1, <3>1, <3>2, PageAssumption DEF Base, TypeOK, ItemOK, ItemNumber, note
      <3> QED BY <2>2, <3>5, <3>6, <3>7 DEF Base
    <2> QED BY <2>5, <2>6
  <1> QED
    BY <1>1, <1>2, <1>3, <1>4, <1>5, <1>6, <1>7, <1>8, <1>9, <1>10, <1>11, <1>12
       DEF Next, Loading, Handling

-----------------------------------------------------------------------------
(* What a careful user sees. *)

Seen == Base /\ StackOK /\ OwnOK /\ BatchOK /\ ShowsOwnAnswer

\* The top of the stack is free, and an open item has the div of its level.
LEMMA OneEach ==
    ASSUME Base, StackOK, careful
    PROVE  /\ zIndex \in Levels /\ listeners[zIndex] = {} /\ ~Exists(zIndex)
           /\ \A i \in Open :
                /\ i \in 1 .. made /\ i \in ItemNumber
                /\ item[i].level \in Levels /\ item[i].level # zIndex
                /\ listeners[item[i].level] = {i} /\ Exists(item[i].level)
  <1>1. zIndex \in Levels /\ zIndex \in Nat
    BY DEF Base, TypeOK, Levels, BaseLevel
  <1>2. listeners[zIndex] = {} /\ ~Exists(zIndex)
    BY <1>1 DEF StackOK, Base, DivOK
  <1>3. ASSUME NEW i \in Open
        PROVE  /\ i \in 1 .. made /\ i \in ItemNumber
               /\ item[i].level \in Levels /\ item[i].level # zIndex
               /\ listeners[item[i].level] = {i} /\ Exists(item[i].level)
    <2>1. i \in 1 .. made /\ i \in listeners[item[i].level]
      BY <1>3 DEF Open
    <2>2. i \in ItemNumber /\ item[i].level \in Levels
      BY <2>1, PageAssumption DEF Base, TypeOK, ItemOK, ItemNumber
    <2>3. listeners[item[i].level] = {i}
      BY <2>1, <2>2 DEF StackOK
    <2> QED BY <1>2, <2>1, <2>2, <2>3 DEF Base, DivOK
  <1> QED BY <1>1, <1>2, <1>3

\* What a handler that adds no item and closes none leaves alone.
LEMMA SeenFrame ==
    ASSUME Seen, UNCHANGED <<note, shows, answer, careful>>,
           \A r \in pending' : r \in pending \/ Notify[r.button] = NoID
    PROVE  StackOK' /\ OwnOK' /\ ShowsOwnAnswer'
  <1>1. Open' = Open
    BY DEF note, Open
  <1>2. StackOK'
    BY DEF Seen, StackOK, note
  <1>3. ShowsOwnAnswer'
    BY <1>1 DEF Seen, ShowsOwnAnswer, Awaited, note
  <1>4. OwnOK'
    BY <1>1 DEF Seen, OwnOK, note
  <1> QED BY <1>2, <1>3, <1>4

\* What a result shows: the item the ID names is open and has its own div.
LEMMA SeenShown ==
    ASSUME Seen, careful, NEW i \in Open, NEW kind \in {"ok", "error"},
           ShowIn(i, kind), answer' = [answer EXCEPT ![i] = kind],
           UNCHANGED <<note, careful>>
    PROVE  ShowsOwnAnswer'
  <1>1. /\ item[i].level \in Levels /\ Exists(item[i].level)
        /\ i \in 1 .. made /\ i \in ItemNumber
    BY OneEach DEF Seen
  <1>2. shows' = [shows EXCEPT ![item[i].level] = Result(kind, item[i].id)]
    BY <1>1 DEF ShowIn
  <1>3. Open' = Open
    BY DEF note, Open
  <1> SUFFICES ASSUME NEW j \in Open
               PROVE  /\ listeners[item[j].level] = {j}
                      /\ item[j].id # MessageID =>
                           shows'[item[j].level] =
                             IF answer'[j] = "none" THEN Waiting
                             ELSE Result(answer'[j], item[j].id)
    BY <1>3 DEF ShowsOwnAnswer, Awaited, note
  <1>4. /\ j \in ItemNumber /\ item[j].level \in Levels
        /\ listeners[item[j].level] = {j} /\ listeners[item[i].level] = {i}
    BY OneEach DEF Seen
  <1>5. CASE j = i
    <2>1. /\ shows'[item[j].level] = Result(kind, item[j].id)
          /\ answer'[j] = kind /\ kind # "none"
      BY <1>1, <1>2, <1>5 DEF Seen, Base, TypeOK
    <2> QED BY <1>4, <2>1
  <1>6. CASE j # i
    <2>1. item[j].level # item[i].level
      BY <1>4, <1>6
    <2>2. shows'[item[j].level] = shows[item[j].level] /\ answer'[j] = answer[j]
      BY <1>1, <1>2, <1>4, <1>6, <2>1 DEF Seen, Base, TypeOK
    <2> QED BY <1>4, <2>2 DEF Seen, ShowsOwnAnswer, Awaited
  <1> QED BY <1>5, <1>6

\* A batch shrinks from its front, and its results stay addressed to open items.
LEMMA BatchRest ==
    ASSUME Seen, careful, batch # <<>>, batch' = Tail(batch), UNCHANGED careful,
           \A id \in IDs : \/ Items'[id] = Items[id] /\ (Items[id] \in Open => Items[id] \in Open')
                           \/ Items'[id] \in Open'
    PROVE  BatchOK'
  <1>1. batch \in Seq(Messages)
    BY DEF Seen, Base, TypeOK
  <1>2. \A k \in 1 .. Len(batch') : k + 1 \in 1 .. Len(batch) /\ batch'[k] = batch[k + 1]
    BY <1>1
  <1> SUFFICES ASSUME NEW k \in 1 .. Len(batch'), batch'[k].type \in ResultTypes
               PROVE  Items'[batch'[k].id] = 0 \/ Items'[batch'[k].id] \in Open'
    BY DEF BatchOK, MaySend
  <1>3. batch'[k] \in Messages
    BY <1>1, <1>2
  <1>4. batch'[k].id \in IDs
    BY <1>3 DEF Messages, IDs
  <1>5. Items[batch'[k].id] = 0 \/ Items[batch'[k].id] \in Open
    BY <1>2 DEF Seen, BatchOK, MaySend
  <1> QED BY <1>4, <1>5

LEMMA SeenAdded ==
    ASSUME Seen, careful, NEW id \in IDs, AddMsgItem(id), UNCHANGED <<answer, careful>>,
           shows' \in [Levels -> Texts], shows'[zIndex] # NoDiv,
           \A l \in Levels : l # zIndex => shows'[l] = shows[l],
           id # MessageID => shows'[zIndex] = Waiting
    PROVE  /\ StackOK' /\ ShowsOwnAnswer'
           /\ made + 1 \in Open' /\ Open \subseteq Open'
           /\ item'[made + 1].id = id /\ Items'[id] = made + 1
           /\ \A i \in Open : item'[i] = item[i]
           /\ \A n \in IDs : n # id => Items'[n] = Items[n]
  <1> DEFINE new == made + 1
  <1>1. /\ made \in Nat /\ new \in ItemNumber /\ new \notin 1 .. made
        /\ answer[new] = "none"
    BY PageAssumption DEF Seen, Base, TypeOK, AddMsgItem, ItemNumber, ItemOK
  <1>2. Open' = Open \cup {new} /\ made' = new
    BY Added DEF Seen
  <1>3. /\ zIndex \in Levels /\ zIndex \in Nat /\ zIndex' = zIndex + 1
        /\ listeners[zIndex] = {}
    BY OneEach DEF Seen, AddMsgItem, NextLevel, Levels, BaseLevel
  <1>4. /\ item'[new].id = id /\ item'[new].level = zIndex
        /\ \A i \in ItemNumber : i # new => item'[i] = item[i]
    BY <1>1, <1>3 DEF AddMsgItem, Seen, Base, TypeOK
  <1>5. /\ listeners'[zIndex] = {new}
        /\ \A l \in Levels : l # zIndex => listeners'[l] = listeners[l]
    BY <1>1, <1>3 DEF AddMsgItem, Seen, Base, TypeOK
  <1>6. /\ Items'[id] = new
        /\ \A n \in IDs : n # id => Items'[n] = Items[n]
    BY <1>1 DEF AddMsgItem, NamedLast, Seen, Base, TypeOK
  <1> HIDE DEF new
  <1>7. \A i \in Open : i # new /\ item'[i] = item[i]
    BY <1>1, <1>4, OneEach DEF Seen
  <1>8. StackOK'
    <2> SUFFICES ASSUME NEW l \in Levels
                 PROVE  /\ listeners'[l] # {} <=> l < zIndex'
                        /\ \A i, j \in listeners'[l] : i = j
      BY DEF StackOK
    <2>1. l \in Nat
      BY DEF Levels, BaseLevel
    <2>2. CASE l = zIndex
      BY <1>3, <1>5, <2>2
    <2>3. CASE l # zIndex
      <3>1. l < zIndex' <=> l < zIndex
        BY <1>3, <2>1, <2>3
      <3> QED BY <1>5, <2>3, <3>1 DEF Seen, StackOK
    <2> QED BY <2>2, <2>3
  <1>9. ShowsOwnAnswer'
    <2> SUFFICES ASSUME NEW i \in Open'
                 PROVE  /\ listeners'[item'[i].level] = {i}
                        /\ item'[i].id # MessageID =>
                             shows'[item'[i].level] =
                               IF answer'[i] = "none" THEN Waiting
                               ELSE Result(answer'[i], item'[i].id)
      BY DEF ShowsOwnAnswer, Awaited
    <2>1. CASE i = new
      BY <1>1, <1>4, <1>5, <2>1
    <2>2. CASE i \in Open
      <3>1. item'[i] = item[i] /\ item[i].level \in Levels /\ item[i].level # zIndex
        BY <1>7, <2>2, OneEach DEF Seen
      <3>2. /\ listeners'[item[i].level] = listeners[item[i].level]
            /\ shows'[item[i].level] = shows[item[i].level]
        BY <1>5, <3>1
      <3> QED BY <2>2, <3>1, <3>2 DEF Seen, ShowsOwnAnswer, Awaited
    <2> QED BY <1>2, <2>1, <2>2
  <1> QED BY <1>1, <1>2, <1>4, <1>6, <1>7, <1>8, <1>9 DEF new

\* Nothing closes an item while a batch is processed.
LEMMA BatchNext ==
    ASSUME Seen, [Next]_vars
    PROVE  BatchOK'
  <1>1. UNCHANGED careful
    BY DEF Next, Loading, Handling, FileArrives, FileFails, Close, Click, Lost, Answer,
       PollAnswered, PollFails, ProcessMsg, IndicatorMsg, MsgError, vars
  <1>2. CASE ~careful
    BY <1>1, <1>2 DEF BatchOK
  <1>3. CASE careful /\ batch' = <<>>
    BY <1>3 DEF BatchOK
  <1>4. CASE UNCHANGED <<note, batch, careful>>
    <2>1. Open' = Open
      BY <1>4 DEF note, Open
    <2> QED BY <1>4, <2>1 DEF Seen, BatchOK, MaySend, note
  <1>5. CASE careful /\ ProcessMsg
    <2>1. /\ batch # <<>> /\ batch' = Tail(batch) /\ UNCHANGED <<answer, careful>>
          /\ AddMsgItem(MessageID) /\ MessageID \in IDs
      BY <1>5 DEF ProcessMsg, IDs
    <2>2. Open \subseteq Open' /\ made + 1 \in Open'
      <3>1. /\ \A i \in 1 .. made : i \in ItemNumber /\ i # made + 1 /\ item[i].level \in Levels
            /\ made + 1 \in ItemNumber /\ zIndex \in Levels
            /\ made' = made + 1 /\ \A i \in 1 .. made : i \in 1 .. made'
            /\ made + 1 \in 1 .. made'
        BY <2>1, PageAssumption DEF AddMsgItem, Seen, Base, TypeOK, ItemOK, ItemNumber
      <3>2. /\ \A i \in 1 .. made : item'[i] = item[i]
            /\ item'[made + 1].level = zIndex
            /\ \A l \in Levels : listeners[l] \subseteq listeners'[l]
            /\ made + 1 \in listeners'[zIndex]
        BY <2>1, <3>1 DEF AddMsgItem, Seen, Base, TypeOK
      <3> QED BY <3>1, <3>2 DEF Open
    <2>3. /\ \A n \in IDs : n # MessageID => Items'[n] = Items[n]
          /\ Items'[MessageID] = made + 1
      BY <2>1 DEF AddMsgItem, NamedLast, Seen, Base, TypeOK
    <2> QED BY <1>5, <2>1, <2>2, <2>3, BatchRest
  <1>6. CASE careful /\ IndicatorMsg
    <2>1. /\ batch # <<>> /\ batch' = Tail(batch) /\ UNCHANGED <<note, careful>>
      BY <1>6 DEF IndicatorMsg
    <2>2. Open' = Open
      BY <2>1 DEF note, Open
    <2> QED BY <1>6, <2>1, <2>2, BatchRest DEF note
  <1>7. ASSUME NEW ms \in Batches, PollAnswered(ms) PROVE BatchOK'
    <2>1. /\ batch' = ms /\ UNCHANGED <<note, careful>>
          /\ \A k \in 1 .. Len(ms) : MaySend(ms[k])
      BY <1>7 DEF PollAnswered
    <2>2. Open' = Open
      BY <2>1 DEF note, Open
    <2> QED BY <2>1, <2>2 DEF BatchOK, MaySend, note
  <1>8. ASSUME (\E l \in Levels : Close(l)) \/ (\E b \in Buttons : Click(b))
        PROVE  batch' = <<>>
    BY <1>8 DEF Close, Click, Idle
  <1>9. ASSUME \/ UNCHANGED vars \/ Loading \/ PollFails
               \/ \E r \in pending : Lost(r) \/ \E kind \in {"ok", "error"} : Answer(r, kind)
        PROVE  UNCHANGED <<note, batch, careful>>
    BY <1>9 DEF vars, Loading, FileArrives, FileFails, PollFails, Lost, Answer
  <1>10. ASSUME MsgError PROVE batch' = <<>>
    BY <1>10 DEF MsgError
  <1> QED BY <1>2, <1>3, <1>4, <1>5, <1>6, <1>7, <1>8, <1>9, <1>10 DEF Next, Handling

LEMMA SeenNext == Seen /\ [Next]_vars => Seen'
  <1> SUFFICES ASSUME Seen, [Next]_vars PROVE Seen'
    OBVIOUS
  <1>0. Base /\ Base'
    BY BaseNext DEF Seen
  <1> SUFFICES StackOK' /\ OwnOK' /\ ShowsOwnAnswer'
    BY <1>0, BatchNext DEF Seen
  <1>1. CASE UNCHANGED vars
    BY <1>1, SeenFrame DEF vars
  <1>2. ASSUME NEW f \in Files, FileArrives(f) \/ FileFails(f)
        PROVE  StackOK' /\ OwnOK' /\ ShowsOwnAnswer'
    BY <1>2, SeenFrame DEF FileArrives, FileFails
  <1>3. CASE PollFails \/ MsgError
    BY <1>3, SeenFrame DEF PollFails, MsgError
  <1>4. ASSUME NEW ms \in Batches, PollAnswered(ms)
        PROVE  StackOK' /\ OwnOK' /\ ShowsOwnAnswer'
    BY <1>4, SeenFrame DEF PollAnswered
  <1>5. ASSUME NEW r \in pending, Lost(r)
        PROVE  StackOK' /\ OwnOK' /\ ShowsOwnAnswer'
    BY <1>5, SeenFrame DEF Lost
  <1>6. careful' = careful
    BY DEF Next, Loading, Handling, FileArrives, FileFails, Close, Click, Lost, Answer,
       PollAnswered, PollFails, ProcessMsg, IndicatorMsg, MsgError, vars
  <1>7. CASE ~careful
    BY <1>6, <1>7 DEF StackOK, OwnOK, ShowsOwnAnswer
  <1>8. ASSUME careful, NEW l \in Levels, Close(l)
        PROVE  StackOK' /\ OwnOK' /\ ShowsOwnAnswer'
    <2>1. /\ UNCHANGED <<pending, made, item, Items, answer, careful>>
          /\ Exists(l) /\ l = zIndex - 1
          /\ \A r \in pending : r.item \notin listeners[l]
          /\ zIndex' = zIndex - Cardinality(listeners[l])
      BY <1>8 DEF Close, MayClose, DownAll
    <2>2. /\ \A k \in Levels : k # l => /\ shows'[k] = shows[k]
                                       /\ listeners'[k] = listeners[k]
          /\ listeners'[l] = {}
      BY <1>8 DEF Close, Seen, Base, TypeOK
    <2>3. Open' = Open \ listeners[l]
      BY <1>0, <1>8, Closed
    <2>4. PICK i \in listeners[l] : listeners[l] = {i}
      BY <1>8, <2>1 DEF Seen, Base, DivOK, StackOK
    <2>5. zIndex' = zIndex - 1 /\ zIndex \in Nat
      <3>1. Cardinality(listeners[l]) = 1
        BY <2>4, FS_Singleton
      <3>2. zIndex \in Nat
        BY DEF Seen, Base, TypeOK, Levels, BaseLevel
      <3> QED BY <2>1, <3>1, <3>2
    <2>6. StackOK'
      <3> SUFFICES ASSUME NEW k \in Levels
                   PROVE  /\ listeners'[k] # {} <=> k < zIndex'
                          /\ \A m, n \in listeners'[k] : m = n
        BY DEF StackOK
      <3>1. k \in Nat /\ l \in Nat
        BY DEF Levels, BaseLevel
      <3>2. CASE k = l
        BY <2>1, <2>2, <2>5, <3>1, <3>2
      <3>3. CASE k # l
        <4>1. k < zIndex' <=> k < zIndex
          BY <2>1, <2>5, <3>1, <3>3
        <4> QED BY <1>8, <2>2, <3>3, <4>1 DEF Seen, StackOK
      <3> QED BY <3>2, <3>3
    <2>7. \A j \in Open' : j \in Open /\ item[j].level \in Levels /\ item[j].level # l
      BY <1>8, <2>3, OneEach DEF Seen
    <2>8. ShowsOwnAnswer'
      BY <1>8, <2>1, <2>2, <2>7 DEF Seen, ShowsOwnAnswer, Awaited
    <2>9. OwnOK'
      BY <1>8, <2>1, <2>3 DEF Seen, OwnOK
    <2> QED BY <2>6, <2>8, <2>9
  <1>9. ASSUME careful, NEW b \in Buttons, Click(b)
        PROVE  StackOK' /\ OwnOK' /\ ShowsOwnAnswer'
    <2>1. CASE Notify[b] = NoID
      <3>1. UNCHANGED <<note, shows, answer, careful>>
        BY <1>9, <2>1 DEF Click
      <3>2. \A r \in pending' : r \in pending \/ Notify[r.button] = NoID
        BY <1>9, <2>1 DEF Click
      <3> QED BY <3>1, <3>2, SeenFrame
    <2>2. CASE Notify[b] # NoID
      <3> DEFINE id == Notify[b]
                 c == [n |-> sent + 1, button |-> b, player |-> Payload(b),
                       item |-> made + 1]
      <3>1. /\ id \in IDs /\ AddMsgItem(id) /\ UNCHANGED <<answer, careful>>
            /\ shows' = [shows EXCEPT ![zIndex] = Rendered]
            /\ pending' = pending \cup {c}
            /\ \A r \in pending : Notify[r.button] # id
        BY <1>9, <2>2, PageAssumption DEF Click, MayClick, IDs
      <3>2. Rendered = Waiting /\ zIndex \in Levels
        BY <1>9, OneEach DEF Seen, Rendered
      <3>3. Waiting \in Texts /\ Waiting # NoDiv
        BY DEF Texts, Waiting, NoDiv
      <3>4. /\ shows' \in [Levels -> Texts] /\ shows'[zIndex] = Waiting
            /\ \A l \in Levels : l # zIndex => shows'[l] = shows[l]
        BY <3>1, <3>2, <3>3 DEF Seen, Base, TypeOK
      <3>5. c.button = b /\ c.item = made + 1
        OBVIOUS
      <3>6. Notify[c.button] = id
        BY <3>5
      <3> HIDE DEF id, c
      <3>7. /\ StackOK' /\ ShowsOwnAnswer'
            /\ made + 1 \in Open' /\ Open \subseteq Open'
            /\ item'[made + 1].id = id /\ Items'[id] = made + 1
            /\ \A i \in Open : item'[i] = item[i]
            /\ \A n \in IDs : n # id => Items'[n] = Items[n]
        BY <1>9, <3>1, <3>3, <3>4, SeenAdded
      <3>8. OwnOK'
        <4> SUFFICES ASSUME NEW r \in pending', Notify[r.button] # NoID
                     PROVE  /\ Items'[Notify[r.button]] = r.item
                            /\ r.item \in Open'
                            /\ item'[r.item].id = Notify[r.button]
                            /\ \A s \in pending' :
                                 Notify[s.button] = Notify[r.button] => s = r
          BY DEF OwnOK
        <4>1. CASE r = c
          <5>1. \A s \in pending' : Notify[s.button] = id => s = c
            BY <3>1
          <5> QED BY <3>1, <3>5, <3>6, <3>7, <4>1, <5>1
        <4>2. CASE r \in pending
          <5>1. Notify[r.button] \in IDs /\ Notify[r.button] # id
            BY <3>1, <4>2, PageAssumption DEF Seen, Base, TypeOK, Request, IDs
          <5>2. /\ Items[Notify[r.button]] = r.item /\ r.item \in Open
                /\ item[r.item].id = Notify[r.button]
                /\ \A s \in pending : Notify[s.button] = Notify[r.button] => s = r
            BY <1>9, <4>2 DEF Seen, OwnOK
          <5>3. \A s \in pending' : Notify[s.button] = Notify[r.button] => s = r
            BY <3>1, <3>6, <5>1, <5>2
          <5> QED BY <3>1, <3>7, <5>1, <5>2, <5>3
        <4> QED BY <3>1, <4>1, <4>2
      <3> QED BY <3>7, <3>8
    <2> QED BY <2>1, <2>2
  <1>10. ASSUME careful, NEW r \in pending, NEW kind \in {"ok", "error"}, Answer(r, kind)
         PROVE  StackOK' /\ OwnOK' /\ ShowsOwnAnswer'
    <2>1. UNCHANGED <<note, careful>> /\ pending' = pending \ {r}
      BY <1>10 DEF Answer
    <2>2. CASE Notify[r.button] = NoID
      BY <1>10, <2>1, <2>2, SeenFrame DEF Answer
    <2>3. CASE Notify[r.button] # NoID
      <3> DEFINE i == r.item
      <3>1. Items[Notify[r.button]] = i /\ i \in Open
        BY <1>10, <2>3 DEF Seen, OwnOK
      <3>2. ShowIn(i, kind) /\ answer' = [answer EXCEPT ![i] = kind]
        BY <1>10, <2>3, <3>1 DEF Answer
      <3> HIDE DEF i
      <3>3. ShowsOwnAnswer'
        BY <1>10, <2>1, <3>1, <3>2, SeenShown
      <3>4. Open' = Open
        BY <2>1 DEF note, Open
      <3>5. StackOK' /\ OwnOK'
        BY <2>1, <3>4 DEF Seen, StackOK, OwnOK, note
      <3> QED BY <3>3, <3>5
    <2> QED BY <2>2, <2>3
  <1>11. ASSUME careful, ProcessMsg
         PROVE  StackOK' /\ OwnOK' /\ ShowsOwnAnswer'
    <2>1. /\ UNCHANGED <<pending, answer, careful>>
          /\ AddMsgItem(MessageID) /\ MessageID \in IDs
      BY <1>11 DEF ProcessMsg, IDs
    <2> DEFINE text == IF Head(batch).type = "method" THEN Rendered
                                                      ELSE Result("message", MessageID)
    <2>2. shows' = [shows EXCEPT ![zIndex] = text]
      BY <1>11 DEF ProcessMsg
    <2>3. Rendered = Waiting /\ zIndex \in Levels
      BY <1>11, OneEach DEF Seen, Rendered
    <2>4. text \in Texts /\ text # NoDiv
      BY <2>1, <2>3, TextKinds
    <2> HIDE DEF text
    <2>5. /\ shows' \in [Levels -> Texts] /\ shows'[zIndex] # NoDiv
          /\ \A l \in Levels : l # zIndex => shows'[l] = shows[l]
      BY <2>2, <2>3, <2>4 DEF Seen, Base, TypeOK
    <2>6. /\ StackOK' /\ ShowsOwnAnswer' /\ Open \subseteq Open'
          /\ \A i \in Open : item'[i] = item[i]
          /\ \A n \in IDs : n # MessageID => Items'[n] = Items[n]
      BY <1>11, <2>1, <2>5, SeenAdded
    <2>7. OwnOK'
      <3>1. \A r \in pending : Notify[r.button] # NoID =>
                Notify[r.button] \in IDs /\ Notify[r.button] # MessageID
        BY PageAssumption DEF Seen, Base, TypeOK, Request, IDs
      <3> QED BY <1>11, <2>1, <2>6, <3>1 DEF Seen, OwnOK
    <2> QED BY <2>6, <2>7
  <1>12. ASSUME careful, IndicatorMsg
         PROVE  StackOK' /\ OwnOK' /\ ShowsOwnAnswer'
    <2>1. UNCHANGED <<note, careful, pending>> /\ batch # <<>>
      BY <1>12 DEF IndicatorMsg
    <2>2. CASE UNCHANGED <<shows, answer>>
      BY <2>1, <2>2, SeenFrame
    <2>3. CASE ~UNCHANGED <<shows, answer>>
      <3> DEFINE kind == Head(batch).type
                 i == Items[Head(batch).id]
      <3>1. /\ i # 0 /\ ShowIn(i, kind) /\ answer' = [answer EXCEPT ![i] = kind]
            /\ kind \in ResultTypes
        BY <1>12, <2>3 DEF IndicatorMsg
      <3>2. i \in Open
        <4>1. 1 \in 1 .. Len(batch) /\ Head(batch) = batch[1]
          BY <2>1 DEF Seen, Base, TypeOK
        <4>2. MaySend(Head(batch))
          BY <1>12, <4>1 DEF Seen, BatchOK
        <4> QED BY <1>12, <3>1, <4>2 DEF MaySend
      <3> HIDE DEF i, kind
      <3>3. ShowsOwnAnswer'
        BY <1>12, <2>1, <3>1, <3>2, SeenShown DEF ResultTypes
      <3>4. Open' = Open
        BY <2>1 DEF note, Open
      <3>5. StackOK' /\ OwnOK'
        BY <2>1, <3>4 DEF Seen, StackOK, OwnOK, note
      <3> QED BY <3>3, <3>5
    <2> QED BY <2>2, <2>3
  <1> QED
    BY <1>1, <1>2, <1>3, <1>4, <1>5, <1>7, <1>8, <1>9, <1>10, <1>11, <1>12
       DEF Next, Loading, Handling

LEMMA SeenInit == Init => Seen
  <1> SUFFICES ASSUME Init PROVE Seen
    OBVIOUS
  <1>1. Base
    BY BaseInit
  <1>2. Open = {} /\ pending = {}
    BY DEF Init, Open
  <1>3. StackOK
    BY DEF Init, StackOK, Levels, BaseLevel
  <1>4. OwnOK /\ BatchOK /\ ShowsOwnAnswer
    BY <1>2 DEF OwnOK, ShowsOwnAnswer, Init, BatchOK
  <1> QED BY <1>1, <1>3, <1>4 DEF Seen

LEMMA SeenAlways == Spec => []Seen
  BY SeenInit, SeenNext, PTL DEF Spec

-----------------------------------------------------------------------------
(* The theorems. *)

\* The page's state keeps its types, whatever its user does.
THEOREM TypeCorrect == Spec => []TypeOK
  <1>1. Seen => TypeOK
    BY DEF Seen, Base
  <1> QED BY <1>1, SeenAlways, PTL

\* The level of the next notification counts the open ones, whatever order they
\* are closed in and however many share a div.
THEOREM LevelsCountOpen == Spec => []LevelCountsOpen
  <1>1. Seen => LevelCountsOpen
    BY DEF Seen, Base
  <1> QED BY <1>1, SeenAlways, PTL

\* The page starts with all of its files and not twice.
THEOREM StartsWhole == Spec => []StartsComplete
  <1>1. Seen => StartsComplete
    BY DEF Seen, Base
  <1> QED BY <1>1, SeenAlways, PTL

\* A careful user, of a message server that sends no result for what has been
\* closed, sees on each notification the last answer or result meant for it, in
\* whatever order they come.
THEOREM OwnAnswersShown == Spec => []ShowsOwnAnswer
  <1>1. Seen => ShowsOwnAnswer
    BY DEF Seen
  <1> QED BY <1>1, SeenAlways, PTL

=============================================================================
