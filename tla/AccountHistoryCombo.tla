------------------------ MODULE AccountHistoryCombo ------------------------
(***************************************************************************)
(* The account field with its history                                      *)
(* (src/src/sdologin/account_history_combo.cpp): a popup shows a copy of   *)
(* the list, a row is selected or deleted by pressing and releasing the    *)
(* mouse on it, and a deletion runs from a timer after the mouse event,    *)
(* when the popup may have been opened again.  The file behind the list    *)
(* belongs to other login windows too.                                     *)
(***************************************************************************)
EXTENDS Naturals, Sequences, SequencesExt

CONSTANTS
  InitialAccounts,  \* the history when the window opens
  Newcomers,        \* accounts that another window may record meanwhile
  MaxRemovals       \* bound: how often a row is deleted

ASSUME ComboAssumption == MaxRemovals \in Nat

VARIABLES
  accounts,  \* accounts_
  items,     \* items_ of the popup
  visible,   \* popup_->isVisible()
  pressed,   \* pressedRow_ and pressedDelete_
  refresh,   \* popupRefreshPending_
  removals,  \* accounts whose deletion is queued
  \* history
  meant,     \* the account in the row that was pressed
  wrong,     \* an account was selected or deleted that was not pressed
  removed    \* how often

comboVars == <<accounts, items, visible, pressed, refresh, removals, meant, wrong, removed>>

NotPressed == [row |-> 0, onDelete |-> FALSE]

ComboInit ==
  /\ accounts = InitialAccounts
  /\ items = <<>>
  /\ visible = FALSE
  /\ pressed = NotPressed
  /\ refresh = FALSE
  /\ removals = <<>>
  /\ meant = {}
  /\ wrong = FALSE
  /\ removed = 0

\* Mutant: the pressed row survives a change of the rows.
KeepsPress == pressed

PressAfterConfigure == NotPressed

\* rebuildPopup: what was pressed before is forgotten.
Rebuild ==
  /\ items' = accounts
  /\ pressed' = PressAfterConfigure
  /\ UNCHANGED meant

Hide == visible' = FALSE

TogglePopup ==
  /\ IF visible
     THEN Hide /\ UNCHANGED <<items, pressed, meant>>
     ELSE visible' = TRUE /\ Rebuild
  /\ UNCHANGED <<accounts, refresh, removals, wrong, removed>>

\* mousePressEvent
Press(row, onDelete) ==
  /\ visible
  /\ row \in DOMAIN items
  /\ pressed' = [row |-> row, onDelete |-> onDelete]
  /\ meant' = {items[row]}
  /\ UNCHANGED <<accounts, items, visible, refresh, removals, wrong, removed>>

\* leaveEvent, or the button is let go elsewhere
LetGo ==
  /\ pressed # NotPressed
  /\ pressed' = NotPressed
  /\ UNCHANGED <<accounts, items, visible, refresh, removals, meant, wrong, removed>>

Chosen(row) ==
  /\ pressed' = NotPressed
  /\ wrong' = (wrong \/ items[row] \notin meant)
  /\ Hide
  /\ UNCHANGED <<accounts, items, refresh, meant>>

\* mouseReleaseEvent on the delete icon: removeAccount queues the deletion.
ReleaseOnDelete(row) ==
  /\ visible
  /\ row \in DOMAIN items
  /\ pressed = [row |-> row, onDelete |-> TRUE]
  /\ removed < MaxRemovals
  /\ Chosen(row)
  /\ removals' = Append(removals, items[row])
  /\ removed' = removed + 1

\* mouseReleaseEvent beside the icon: selectAccount.
ReleaseOnRow(row) ==
  /\ visible
  /\ row \in DOMAIN items
  /\ pressed = [row |-> row, onDelete |-> FALSE]
  /\ Chosen(row)
  /\ UNCHANGED <<removals, removed>>

\* What the file can hold when the deletion has run: another window may have
\* recorded an account, and the deletion may have failed.
Remaining(account) ==
  LET kept == {accounts, SelectSeq(accounts, LAMBDA a : a # account)} IN
    kept \cup {<<a>> \o SelectSeq(list, LAMBDA b : b # a) : a \in Newcomers, list \in kept}

\* The queued removeHistoryAccount, and setAccounts with schedulePopupRefresh.
RunRemoval ==
  /\ removals # <<>>
  /\ accounts' \in Remaining(Head(removals))
  /\ removals' = Tail(removals)
  /\ refresh' = (refresh \/ visible)
  /\ UNCHANGED <<items, visible, pressed, meant, wrong, removed>>

\* The timer of schedulePopupRefresh.
RefreshPopup ==
  /\ refresh
  /\ refresh' = FALSE
  /\ IF visible THEN Rebuild ELSE UNCHANGED <<items, pressed, meant>>
  /\ UNCHANGED <<accounts, visible, removals, wrong, removed>>

\* By the mouse ...
ComboInput ==
  \/ TogglePopup
  \/ LetGo
  \/ \E row \in 1..(Len(InitialAccounts) + 1) :
        \/ \E onDelete \in BOOLEAN : Press(row, onDelete)
        \/ ReleaseOnDelete(row)
        \/ ReleaseOnRow(row)

\* ... and by timers.
ComboTimer == RunRemoval \/ RefreshPopup

\* The account that is selected or deleted is the one that was in the row when the
\* mouse was pressed on it, whatever happens to the list before the mouse is
\* released (account_history_combo.cpp:177-227, 386-519).
ChoosesWhatWasPressed == ~wrong
=============================================================================
