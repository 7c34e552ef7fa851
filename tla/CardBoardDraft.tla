---------------------------- MODULE CardBoardDraft ----------------------------
(***************************************************************************)
(* The draft a window shows while cards are organized: the operations of   *)
(* the main process done a second time, in the page, by other code         *)
(* (renderer/components/card-board/card-board-model.js).  The user saves   *)
(* what the draft shows; the main process stores what its own operations   *)
(* give.                                                                   *)
(***************************************************************************)
EXTENDS CardBoardLayout

\* repairDocument: as canonicalize, but a hidden card may stay in a deck.
Repaired(l) ==
  LET members(d) == SelectSeq(l.decks[d].members, LAMBDA p : p \in DOMAIN l.at)
      kept == {d \in DOMAIN l.decks : Len(members(d)) >= 2}
      deckOf(p) == {d \in kept : p \in Range(members(d))}
      inDeck(p, d) == CHOOSE i \in DOMAIN members(d) : members(d)[i] = p
      thinned ==
        [at |-> [p \in DOMAIN l.at |->
           IF deckOf(p) = {} THEN [l.at[p] EXCEPT !.deck = "none"]
           ELSE LET d == CHOOSE e \in deckOf(p) : TRUE IN [l.at[p] EXCEPT !.deck = d, !.order = inDeck(p, d) - 1]],
         decks |-> [d \in kept |-> [l.decks[d] EXCEPT !.members = members(d),
                                                      !.front = IF @ \in Range(members(d)) THEN @ ELSE members(d)[1]]]]
      tidy(s, b) == Arranged(s, Units(s, b), Cardinality(Units(s, b)), AnyRank) IN
  tidy(tidy(thinned, "personal"), "connect")

\* boardUnits of the page: what it shows.
Seen(l, b) == {u \in Units(l, b) : IF u.deck = "none" THEN ~l.at[u.place].hidden
                                   ELSE \E p \in Range(l.decks[u.deck].members) : ~l.at[p].hidden}

\* Mutant: the card is counted among the others.
DraftPutAmongAll(l, p, index) ==
  LET fixed == Repaired(l)
      slot == Clamped(index, Cardinality(Seen(fixed, p[1]))) IN
  Repaired([Arranged(fixed, Seen(fixed, p[1]), slot, AnyRank) EXCEPT !.at[p].order = slot])

\* insertAt and assignBoardUnitOrder: an index is one among the units that are shown.
DraftPut(l, p, index) ==
  LET fixed == Repaired(l)
      others == Seen(fixed, p[1]) \ {Alone(p)}
      slot == Clamped(index, Cardinality(others)) IN
  Repaired([Arranged(fixed, others, slot, AnyRank) EXCEPT !.at[p].order = slot])

\* removeFromDeck: the card leaves; a deck of one is dropped by repairDocument later.
OutOfDeck(l, p) ==
  IF l.at[p].deck = "none" THEN l
  ELSE [l EXCEPT !.at[p].deck = "none", !.decks[l.at[p].deck].members = Without(@, p)]

DraftCreated(l, op) ==
  LET d == CHOOSE free \in DeckNames \ DOMAIN l.decks : TRUE
      taken == FoldSeq(LAMBDA p, acc : OutOfDeck(acc, p), l, op.members)
      deck == [board |-> op.place[1], members |-> op.members, front |-> op.place, order |-> op.index]
      fixed == Repaired([taken EXCEPT !.decks = (d :> deck) @@ @])
      others == Seen(fixed, op.place[1]) \ {Stack(d)}
      slot == Clamped(op.index, Cardinality(others)) IN
  Repaired([Arranged(fixed, others, slot, AnyRank) EXCEPT !.decks[d].order = slot])

DraftJoined(l, op) ==
  LET away == OutOfDeck(l, op.place) IN
  Repaired([away EXCEPT !.decks[op.deck].members = Spliced(@, op.index, op.place), !.decks[op.deck].front = op.place])

DraftPinned(l, p) ==
  LET copy == <<"connect", p[2]>>
      count == Cardinality({q \in DOMAIN l.at : q[1] = "connect"}) IN
  IF copy \in DOMAIN l.at THEN Repaired(l) ELSE Repaired([l EXCEPT !.at = (copy :> Top(count)) @@ @])

DraftRemoved(l, p) ==
  LET away == OutOfDeck(l, p) IN Repaired([away EXCEPT !.at = Restrict(@, DOMAIN @ \ {p})])

DraftRestored(l, p) ==
  LET away == OutOfDeck(l, p) IN
  Repaired([away EXCEPT !.at[p] = Top(Cardinality({q \in DOMAIN l.at \ {p} : q[1] = p[1]}))])

\* applyDraftOperation: what it does not apply leaves the draft as it was.
Drafted(l, op) ==
  CASE op.type = "move" -> IF l.at[op.place].deck # "none" THEN Repaired(l) ELSE DraftPut(l, op.place, op.index)
    [] op.type = "from" -> DraftPut(OutOfDeck(l, op.place), op.place, op.index)
    [] op.type = "create" -> DraftCreated(l, op)
    [] op.type = "into" -> DraftJoined(l, op)
    [] op.type = "pin" -> DraftPinned(l, op.place)
    [] op.type = "remove" -> DraftRemoved(l, op.place)
    [] op.type = "hide" -> Repaired([l EXCEPT !.at[op.place].hidden = TRUE])
    [] op.type = "restore" -> DraftRestored(l, op.place)

-----------------------------------------------------------------------------
(* What a page asks for in an edit: a card in a deck is moved out of it, a  *)
(* pin goes to the end, an insertion is never asked.                        *)
Asked(l, op) ==
  /\ op.type \notin {"insert", "restore"}
  /\ op.type = "move" => l.at[op.place].deck = "none"
  /\ op.type = "pin" => op.index = Cardinality(Units(l, "connect"))

(* The two differ when a card is hidden, or when a deck of two is broken    *)
(* up: there the draft shows the card that is left elsewhere.               *)
Alike(l, op) ==
  /\ \A p \in DOMAIN l.at : ~l.at[p].hidden
  /\ op.type # "hide"
  /\ l.at[op.place].deck = "none" \/ op.deck = l.at[op.place].deck \/ Len(l.decks[l.at[op.place].deck].members) > 2
     \/ op.type = "pin"

\* Which card of a deck lies on top is for the page alone to show.
Arrangement(l) == [at |-> l.at, decks |-> [d \in DOMAIN l.decks |-> [l.decks[d] EXCEPT !.front = "any"]]]

(* Otherwise the layout that is saved is the one the draft showed: the same *)
(* cards in the same decks, everything in the same order.                   *)
DraftIsWhatIsSaved ==
  UpToDate => \A b \in Boards : \A op \in Allowed(layout, b) :
    Asked(layout, op) /\ Alike(layout, op) => Arrangement(Drafted(layout, op)) = Arrangement(Applied(layout, op))
=============================================================================
