------------------------------ MODULE EntryList ------------------------------
(***************************************************************************)
(* What the list of scores promises its user: entries that are added, some *)
(* of them chosen, a menu about one of them, and removals of just that one *)
(* or of just the chosen ones.  Nothing here has an index, a row or a      *)
(* page; ScoreHistory, which finds entries by the indexes of rows that it  *)
(* renders anew on each change, implements this module.                    *)
(***************************************************************************)
EXTENDS Naturals, Sequences

VARIABLES appended,  \* number of entries added so far, the name of the last one
          entries,   \* those in the list, in the order they were added
          chosen,    \* those selected
          target     \* the one the menu is about, 0 without a menu

listed == <<appended, entries, chosen, target>>

Of(s)      == {s[i] : i \in DOMAIN s}
InOrder(s) == \A i, j \in DOMAIN s : i < j => s[i] < s[j]

Init == appended = 0 /\ entries = <<>> /\ chosen = {} /\ target = 0

\* Any change of the entries forgets what was chosen.
Add ==
    /\ appended' = appended + 1
    /\ entries' = Append(entries, appended + 1)
    /\ chosen' = {}
    /\ UNCHANGED target

Choose(e) ==
    /\ chosen' = IF e \in chosen THEN chosen \ {e} ELSE chosen \cup {e}
    /\ UNCHANGED <<appended, entries, target>>

OpenMenu(e) == target' = e /\ UNCHANGED <<appended, entries, chosen>>

\* Each use of the menu closes it.
CloseMenu ==
    /\ target # 0 /\ target' = 0
    /\ UNCHANGED <<appended, entries, chosen>>

\* All others stay, each once and in order.
Remove(gone) ==
    /\ target # 0 /\ target' = 0
    /\ Of(entries') = Of(entries) \ gone /\ InOrder(entries')
    /\ chosen' = {}
    /\ UNCHANGED appended

Next ==
    \/ Add
    \/ \E e \in Of(entries) : Choose(e) \/ OpenMenu(e)
    \/ CloseMenu
    \/ Remove({target}) \/ Remove(chosen)

Safety == Init /\ [][Next]_listed
=============================================================================
