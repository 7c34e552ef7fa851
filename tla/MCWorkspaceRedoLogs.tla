------------------------- MODULE MCWorkspaceRedoLogs --------------------------
(* What a Workspace keeps, for TLC: WorkspaceRedoLogs, the layout of its     *)
(* card boards with the windows that edit it, and the update notice.  They   *)
(* share no state, so a behaviour is one of `part`, chosen at the start,     *)
(* while the others rest where they began.  Logins and logouts stop at       *)
(* MaxRevision, and at most MaxImages directory images may await an fsync,   *)
(* so at most MaxImages - 1 changes in a row fail to be made durable.        *)
EXTENDS WorkspaceRedoLogs, CardBoardDraft, CardBoardEditing, UpdateNotification, TLC

CONSTANTS MaxRevision, MaxImages

VARIABLES part,
          focus   \* the board whose cards are moved

\* The revision of the Account once its log, if it has one, is resumed.
Revision == IF view.redo = Absent THEN view.account.rev ELSE view.redo.account.rev

WithinBounds ==
  /\ Cardinality(disk') <= MaxImages
  /\ at = "idle" /\ at' = "busy" /\ job'.op \in {"login", "logout"} =>
       Revision < MaxRevision

LogsNext == Next /\ WithinBounds /\ UNCHANGED <<boardVars, editingVars, updateVars>>
LayoutNext ==
  /\ AuthorityChanges \/ LoadLayout \/ ResetLayout \/ CommitOperation(focus)
  /\ UNCHANGED <<vars, editingVars, updateVars>>
WindowsNext == EditingNext /\ UNCHANGED <<vars, boardVars, updateVars>>
NoticeNext == UpdatesNext /\ UNCHANGED <<vars, boardVars, editingVars>>

MCInit == /\ part \in {"logs", "layout", "windows", "updates"} /\ focus \in IF part = "layout" THEN Boards ELSE {"connect"}
          /\ Init /\ BoardInit /\ EditingInit /\ UpdatesInit
          \* A part that rests does so in one of its initial states.
          /\ part # "updates" => running = CHOOSE v \in Version : TRUE

MCNext == /\ UNCHANGED <<part, focus>>
          /\ \/ part = "logs" /\ LogsNext
             \/ part = "layout" /\ LayoutNext
             \/ part = "windows" /\ WindowsNext
             \/ part = "updates" /\ NoticeNext

MCSpec == MCInit /\ [][MCNext]_<<part, focus, vars, boardVars, editingVars, updateVars>>

\* The card boards, their layout and the windows that edit it, and the update
\* notice: each part's own safety (see BoardSafety, DraftIsWhatIsSaved,
\* EditingSafety and UpdateSafety).
WorkspaceDataSafety ==
  /\ part = "layout" => BoardSafety /\ DraftIsWhatIsSaved
  /\ part = "windows" => EditingSafety
  /\ part = "updates" => UpdateSafety

NameSymmetry == Permutations(Users) \cup Permutations(Values)
=============================================================================
