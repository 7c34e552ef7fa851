--------------------------- MODULE CardBoardEditing ---------------------------
(***************************************************************************)
(* The organizing of cards in several windows: each shows the layout it    *)
(* last heard of and edits a draft of it (card-board-controller.js); the   *)
(* main process takes a draft's operations when they are based on the      *)
(* revision that is stored (card-board-runtime.js), in a transaction that  *)
(* tells every window or takes it back (card-board-main-runtime.js), one   *)
(* after the other (routing-policy-transaction.js).                        *)
(*                                                                         *)
(* A layout is its revision, the edits made to it and the set of cards it  *)
(* was reconciled with.  What the operations do is in CardBoardLayout.     *)
(***************************************************************************)
EXTENDS Integers, Sequences, SequencesExt, FiniteSets

CONSTANTS
  Windows,          \* the control window and the workspace tabs
  MaxEdits,         \* bound: edits made in all windows
  MaxCards,         \* bound: changes of the cards there are
  MaxSaves,         \* bound: revisions stored by saves
  MaxNotices        \* bound: messages on their way to a window

VARIABLES
  saved,       \* card-board-layout.json
  cardSet,     \* the resources and collections of the moment, as a number
  window,      \* by window: its board, or closed
  notices,     \* by window: what main sent it, in order
  queue,       \* the requests that wait: RoutingPolicyTransactionQueue.chain
  made,        \* edits made so far
  withdrawn    \* revisions that were sent to a window and then rolled back

editingVars == <<saved, cardSet, window, notices, queue, made, withdrawn>>

Document(revision, edits, cards) == [revision |-> revision, edits |-> edits, cards |-> cards]
\* model.defaultDocument: what a window shows until it hears from main; its cards have names of their own.
Placeholder == Document(0, {}, -1)

Closed == [phase |-> "closed", document |-> Placeholder, base |-> Placeholder, draft |-> {}, sent |-> {}, told |-> {}]
EditingInit ==
  /\ saved = Document(0, {}, 0) /\ cardSet = 0 /\ made = 0 /\ withdrawn = {} /\ queue = <<>>
  /\ window = [w \in Windows |-> Closed] /\ notices = [w \in Windows |-> <<>>]

Send(w, kind, document) == notices' = [notices EXCEPT ![w] = Append(@, [kind |-> kind, document |-> document])]

\* Mutant: a reconciled layout keeps its revision.
LoadedInPlace(cards) == [saved EXCEPT !.cards = cards]

\* #load: the stored layout, reconciled with these cards and stored again when that changes it.
LoadedWith(cards) == IF saved.cards = cards THEN saved ELSE Document(saved.revision + 1, saved.edits, cards)

-----------------------------------------------------------------------------
(* A window.                                                                *)

\* ensureControllers, load: getLayout is answered at once, outside the queue.
OpenBoard(w) ==
  /\ window[w].phase = "closed" /\ Len(notices[w]) < MaxNotices
  /\ window' = [window EXCEPT ![w].phase = "viewing"]
  /\ saved' = LoadedWith(cardSet) /\ Send(w, "loaded", saved')
  /\ UNCHANGED <<cardSet, queue, made, withdrawn>>

\* The window is closed or its page is loaded again; a request it made goes on.
CloseBoard(w) ==
  /\ window[w].phase # "closed"
  /\ window' = [window EXCEPT ![w] = Closed] /\ notices' = [notices EXCEPT ![w] = <<>>]
  /\ UNCHANGED <<saved, cardSet, queue, made, withdrawn>>

EnterEdit(w) ==
  /\ window[w].phase = "viewing"
  /\ window' = [window EXCEPT ![w] = [@ EXCEPT !.phase = "editing", !.base = window[w].document, !.draft = {}]]
  /\ UNCHANGED <<saved, cardSet, notices, queue, made, withdrawn>>

\* pushDraft: also while the operations sent before are being saved.
PushDraft(w) ==
  /\ window[w].phase \in {"editing", "saving"} /\ made < MaxEdits
  /\ made' = made + 1 /\ window' = [window EXCEPT ![w].draft = @ \cup {made'}]
  /\ UNCHANGED <<saved, cardSet, notices, queue, withdrawn>>

UndoDraft(w) ==
  /\ window[w].phase = "editing" /\ window[w].draft # {}
  /\ window' = [window EXCEPT ![w].draft = @ \ {CHOOSE e \in @ : \A f \in @ : f <= e}]
  /\ UNCHANGED <<saved, cardSet, notices, queue, made, withdrawn>>

CancelEdit(w) ==
  /\ window[w].phase = "editing"
  /\ window' = [window EXCEPT ![w] = [@ EXCEPT !.phase = "viewing", !.base = Placeholder, !.draft = {}]]
  /\ UNCHANGED <<saved, cardSet, notices, queue, made, withdrawn>>

\* finishEdit: the operations are copied into the request.
FinishEdit(w) ==
  /\ window[w].phase = "editing"
  /\ window' = IF window[w].draft = {} THEN [window EXCEPT ![w] = [@ EXCEPT !.phase = "viewing", !.base = Placeholder]]
               ELSE [window EXCEPT ![w] = [@ EXCEPT !.phase = "saving", !.sent = window[w].draft]]
  /\ queue' = IF window[w].draft = {} THEN queue
              ELSE Append(queue, [by |-> w, base |-> window[w].base, edits |-> window[w].draft])
  /\ UNCHANGED <<saved, cardSet, notices, made, withdrawn>>

\* setDocument and load turn away what arrives during an edit.
Receive(w) ==
  /\ notices[w] # <<>> /\ notices' = [notices EXCEPT ![w] = Tail(@)]
  /\ LET message == Head(notices[w])
         board == window[w] IN
     window' = [window EXCEPT ![w] =
       CASE message.kind \in {"loaded", "changed"} -> IF board.phase = "viewing" THEN [board EXCEPT !.document = message.document]
                                                      ELSE board
         [] message.kind = "accepted" ->
              [Closed EXCEPT !.phase = "viewing", !.document = message.document, !.told = board.told \cup board.sent]
         [] message.kind = "refused" -> [board EXCEPT !.phase = "editing", !.sent = {}]]
  /\ UNCHANGED <<saved, cardSet, queue, made, withdrawn>>

-----------------------------------------------------------------------------
(* The transaction: once its turn has come, none of its steps waits for      *)
(* anything but the others, and no message of a window comes between.        *)

Request == Head(queue)
Loaded == LoadedWith(cardSet)
Result == Document(Loaded.revision + 1, Loaded.edits \cup Request.edits, cardSet)

\* Mutant: the revision of a request is not compared.
AcceptedAnyRevision == Request.base # Placeholder

\* A conflict, or cards with names that main does not know.
Accepted == Request.base.revision = Loaded.revision /\ Request.base # Placeholder

TurnComes ==
  /\ queue # <<>> /\ queue' = Tail(queue) /\ Result.revision <= MaxSaves
  /\ \A w \in Windows : Len(notices[w]) + 1 < MaxNotices
  /\ UNCHANGED <<cardSet, window, made>>

\* onChanged tells these windows; then the one that asked is answered if its page is still there.
Answered(told, kind) ==
  notices' = [w \in Windows |->
    notices[w] \o (IF w \in told THEN <<[kind |-> "changed", document |-> Result]>> ELSE <<>>)
               \o (IF w = Request.by /\ window[w].phase = "saving" /\ window[w].sent = Request.edits
                   THEN <<[kind |-> kind, document |-> IF kind = "accepted" THEN Result ELSE Placeholder]>> ELSE <<>>)]
OpenWindows == {w \in Windows : window[w].phase # "closed"}

CommitRefused ==
  TurnComes /\ ~Accepted /\ saved' = Loaded /\ Answered({}, "refused") /\ UNCHANGED withdrawn

\* replace fails before the rename, or is reported as failed after it.
CommitNotWritten ==
  TurnComes /\ Accepted /\ saved' \in {Loaded, Result} /\ Answered({}, "refused") /\ UNCHANGED withdrawn

CommitChange ==
  TurnComes /\ Accepted /\ saved' = Result /\ Answered(OpenWindows, "accepted") /\ UNCHANGED withdrawn

\* onChanged fails when some windows have been told: the layout from before is stored again.
CommitRolledBack ==
  /\ TurnComes /\ Accepted /\ saved' = Loaded
  /\ \E told \in SUBSET OpenWindows :
       /\ Answered(told, "refused")
       /\ withdrawn' = IF told = {} THEN withdrawn ELSE withdrawn \cup {Result.revision}

\* A collection or a favourite comes or goes.
CardsChange ==
  /\ cardSet < MaxCards /\ cardSet' = cardSet + 1
  /\ UNCHANGED <<saved, window, notices, queue, made, withdrawn>>

EditingNext ==
  \/ \E w \in Windows : \/ OpenBoard(w) \/ CloseBoard(w) \/ EnterEdit(w) \/ PushDraft(w) \/ UndoDraft(w)
                        \/ CancelEdit(w) \/ FinishEdit(w) \/ Receive(w)
  \/ CommitRefused \/ CommitNotWritten \/ CommitChange \/ CommitRolledBack \/ CardsChange

-----------------------------------------------------------------------------
(* Two documents of one revision are one layout, wherever they are: the     *)
(* revision a request names then stands for all its window saw.  Only one   *)
(* that was sent and rolled back may come again with other content.         *)
Copies == {saved} \cup {window[w].document : w \in Windows} \cup {window[w].base : w \in Windows}
          \cup UNION {{notices[w][i].document : i \in DOMAIN notices[w]} : w \in Windows}
OneLayoutPerRevision ==
  \A one, other \in Copies \ {Placeholder} :
    one.revision = other.revision /\ one.revision \notin withdrawn => one = other

(* What a window was told is saved stays saved, whatever others save, are   *)
(* refused or roll back.                                                    *)
ToldIsSaved == \A w \in Windows : window[w].told \subseteq saved.edits

(* A request is taken only if what its window saw when the edit began is    *)
(* what is stored.                                                          *)
SavesWhatItSaw ==
  queue # <<>> /\ Accepted /\ Request.base.revision \notin withdrawn => Request.base = Loaded

(* And a window goes from a revision to a later one only.                   *)
Forward ==
  withdrawn = {} => \A w \in Windows :
    LET heard == SelectSeq(notices[w], LAMBDA m : m.kind # "refused")
        revisions == <<window[w].document.revision>> \o [i \in DOMAIN heard |-> heard[i].document.revision] IN
    \A i, j \in DOMAIN revisions : i < j => revisions[i] <= revisions[j]

EditingSafety == OneLayoutPerRevision /\ ToldIsSaved /\ SavesWhatItSaw /\ Forward
=============================================================================
