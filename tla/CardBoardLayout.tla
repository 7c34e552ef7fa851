--------------------------- MODULE CardBoardLayout ---------------------------
(***************************************************************************)
(* The layout of the card boards (lib/card-board): placements of cards on  *)
(* the boards, alone or stacked in decks, each with an explicit order, and *)
(* the operations of the main process on it (card-board-runtime.js), which *)
(* first reconcile the stored layout with the cards there are              *)
(* (card-board-migration.js).  A layout its own validation refuses         *)
(* (card-board-contract.js) could be neither stored nor read again.        *)
(*                                                                         *)
(* The personal board stands for both boards of the Browser.  An operation *)
(* is a pure function of the layout, so its properties are stated of every *)
(* operation that a reachable layout accepts.  Sizes are left out.         *)
(***************************************************************************)
EXTENDS Integers, FiniteSets, Sequences, SequencesExt, FiniteSetsExt, Functions

CONSTANTS
  Cards,           \* the cards of the personal board
  Fleeting,        \* those that may go and come back: collections, the ungrouped favourites
  Widgets,         \* the system widgets of the connect board
  DeckNames,       \* the decks there may be: MAX_CARD_BOARD_DECKS
  MaxDeck          \* MAX_DECK_PLACEMENTS

\* Their default order.
CardSeq == SetToSeq(Cards)
WidgetSeq == SetToSeq(Widgets)
Boards == {"personal", "connect"}
ASSUME BoardAssumption ==
  /\ IsFiniteSet(Cards) /\ IsFiniteSet(Widgets) /\ Cards \cap Widgets = {} /\ Fleeting \subseteq Cards
  /\ IsFiniteSet(DeckNames) /\ "none" \notin DeckNames /\ MaxDeck \in Nat \ {0, 1}

VARIABLES
  layout,      \* the document: placements by board and card, and decks
  authority    \* the cards there are: the resources and collections of the moment

boardVars == <<layout, authority>>

\* cardBoardSupportsCard, defaultBoardForCard.
Supports(b, card) == b = "connect" \/ card \in Cards
HomeOf(card) == IF card \in Cards THEN "personal" ELSE "connect"
Places == {<<b, card>> \in Boards \X (Cards \cup Widgets) : Supports(b, card)}
Resolves(card) == card \in authority \/ card \in Widgets

Top(order) == [deck |-> "none", order |-> order, hidden |-> FALSE]
Defaults(b) == IF b = "connect" THEN WidgetSeq ELSE SelectSeq(CardSeq, Resolves)

-----------------------------------------------------------------------------
(* The units of a board: its decks, and the placements that are in none.    *)

Alone(p) == [deck |-> "none", place |-> p]
Stack(d) == [deck |-> d, place |-> <<"none", "none">>]
Units(l, b) == {Alone(p) : p \in {q \in DOMAIN l.at : q[1] = b /\ l.at[q].deck = "none"}}
               \cup {Stack(d) : d \in {e \in DOMAIN l.decks : l.decks[e].board = b}}
OrderOf(l, u) == IF u.deck = "none" THEN l.at[u.place].order ELSE l.decks[u.deck].order

\* Random identities: the order of two units that share one is either way.
Ranks == {[c \in Cards \cup Widgets |-> IF c \in Cards THEN sign * (CHOOSE i \in DOMAIN CardSeq : CardSeq[i] = c)
                                               ELSE sign * (Len(CardSeq) + CHOOSE i \in DOMAIN WidgetSeq : WidgetSeq[i] = c)]
          : sign \in {1, -1}}

AnyRank == CHOOSE rank \in Ranks : TRUE

\* boardUnits: by order; where two are the same, by identity, a deck's first.
Before(l, u, v, rank) ==
  \/ OrderOf(l, u) < OrderOf(l, v)
  \/ /\ OrderOf(l, u) = OrderOf(l, v) /\ v.deck = "none"
     /\ u.deck # "none" \/ rank[u.place[2]] < rank[v.place[2]]

\* assignBoardUnits: units take their place in the row, those from the gap on the next.
Arranged(l, units, gap, rank) ==
  LET ahead(u) == Cardinality({v \in units : Before(l, v, u, rank)})
      slot(u) == IF ahead(u) < gap THEN ahead(u) ELSE ahead(u) + 1 IN
  [at |-> [p \in DOMAIN l.at |-> IF Alone(p) \in units THEN [l.at[p] EXCEPT !.order = slot(Alone(p))] ELSE l.at[p]],
   decks |-> [d \in DOMAIN l.decks |-> IF Stack(d) \in units THEN [l.decks[d] EXCEPT !.order = slot(Stack(d))]
                                       ELSE l.decks[d]]]

\* clampIndex, and Array.splice at it.
Clamped(index, count) == Min({index, count})
Spliced(seq, index, element) == InsertAt(seq, Clamped(index, Len(seq)) + 1, element)
Without(seq, element) == SelectSeq(seq, LAMBDA e : e # element)

\* placeTopLevel.
PutAt(l, p, index) ==
  LET others == Units(l, p[1]) \ {Alone(p)}
      slot == Clamped(index, Cardinality(others)) IN
  [Arranged(l, others, slot, AnyRank) EXCEPT !.at[p] = [@ EXCEPT !.deck = "none", !.order = slot]]

\* Mutant: a deck may keep a front card that has left it.
RestackedBehind(l, d) ==
  LET members == l.decks[d].members IN
  [l EXCEPT !.at = [p \in DOMAIN l.at |->
     IF p \in Range(members) THEN [l.at[p] EXCEPT !.deck = d, !.order = (CHOOSE i \in DOMAIN members : members[i] = p) - 1]
     ELSE l.at[p]]]

\* reorderDeckMembers.
Restacked(l, d) ==
  LET members == l.decks[d].members IN
  [at |-> [p \in DOMAIN l.at |-> IF p \in Range(members)
                                 THEN [l.at[p] EXCEPT !.deck = d, !.order = (CHOOSE i \in DOMAIN members : members[i] = p) - 1]
                                 ELSE l.at[p]],
   decks |-> [l.decks EXCEPT ![d].front = IF @ \in Range(members) THEN @ ELSE members[1]]]

\* detachPlacement: a deck of one card is no deck, and the card takes its place.
Detached(l, p) ==
  LET d == l.at[p].deck
      free == [l EXCEPT !.at[p] = [@ EXCEPT !.deck = "none", !.order = 0]] IN
  IF d = "none" THEN Arranged(free, Units(l, p[1]) \ {Alone(p)}, Cardinality(Units(l, p[1])), AnyRank)
  ELSE LET members == Without(l.decks[d].members, p)
           last == members[1] IN
       IF Len(members) >= 2 THEN Restacked([free EXCEPT !.decks[d].members = members], d)
       ELSE LET others == Units(l, p[1]) \ {Stack(d)}
                slot == Clamped(l.decks[d].order, Cardinality(others)) IN
            Arranged([at |-> [free.at EXCEPT ![last] = [@ EXCEPT !.deck = "none", !.order = slot]],
                      decks |-> Restrict(l.decks, DOMAIN l.decks \ {d})], others, slot, AnyRank)

-----------------------------------------------------------------------------
(* applyOperation: what each operation needs, and what it makes of a layout. *)

Inserted(l, p, index) == PutAt([l EXCEPT !.at = (p :> Top(0)) @@ @], p, index)
CanInsert(l, p) == Resolves(p[2]) /\ p \notin DOMAIN l.at

Accepts(l, op) ==
  CASE op.type = "insert" -> op.place \in Places /\ CanInsert(l, op.place)
    [] op.type = "pin" -> /\ op.place \in DOMAIN l.at /\ op.place[1] # "connect" /\ ~l.at[op.place].hidden
                          /\ CanInsert(l, <<"connect", op.place[2]>>)
    [] op.type = "create" -> /\ IsInjective(op.members) /\ op.place \in Range(op.members)
                             /\ Cardinality(DOMAIN l.decks) < Cardinality(DeckNames)
                             /\ \A p \in Range(op.members) : /\ p \in DOMAIN l.at /\ p[1] = op.place[1]
                                                             /\ l.at[p].deck = "none" /\ ~l.at[p].hidden
    [] op.type = "into" -> /\ op.place \in DOMAIN l.at /\ op.deck \in DOMAIN l.decks
                           /\ l.decks[op.deck].board = op.place[1] /\ ~l.at[op.place].hidden
                           /\ l.at[op.place].deck = op.deck \/ Len(l.decks[op.deck].members) < MaxDeck
    [] op.type = "from" -> op.place \in DOMAIN l.at /\ l.at[op.place].deck # "none"
    [] op.type = "remove" -> op.place \in DOMAIN l.at /\ op.place[1] = "connect" /\ op.place[2] \in Cards
    [] op.type = "restore" -> op.place \in DOMAIN l.at /\ op.place[1] = HomeOf(op.place[2])
    [] OTHER -> op.place \in DOMAIN l.at       \* move, hide

\* The deck of create-deck, among the units that it does not take.
Created(l, op) ==
  LET d == CHOOSE free \in DeckNames \ DOMAIN l.decks : TRUE
      others == Units(l, op.place[1]) \ {Alone(p) : p \in Range(op.members)}
      slot == Clamped(op.index, Cardinality(others))
      deck == [board |-> op.place[1], members |-> op.members, front |-> op.place, order |-> slot] IN
  Arranged(Restacked([l EXCEPT !.decks = (d :> deck) @@ @], d), others, slot, AnyRank)

\* The target is looked up again once the card has left its own deck.
Joined(l, op) ==
  LET away == IF l.at[op.place].deck = op.deck
              THEN [l EXCEPT !.decks[op.deck].members = Without(@, op.place)] ELSE Detached(l, op.place) IN
  Restacked([away EXCEPT !.decks[op.deck].members = Spliced(@, op.index, op.place)], op.deck)

Removed(l, p) ==
  LET gone == [Detached(l, p) EXCEPT !.at = Restrict(@, DOMAIN @ \ {p})]
      units == Units(gone, p[1]) IN Arranged(gone, units, Cardinality(units), AnyRank)

Hidden(l, p) ==
  LET away == [Detached(l, p) EXCEPT !.at[p].hidden = TRUE] IN PutAt(away, p, Cardinality(Units(away, p[1])))

Restored(l, p) ==
  LET visible == [Detached(l, p) EXCEPT !.at[p].hidden = FALSE] IN
  PutAt(visible, p, (CHOOSE i \in DOMAIN Defaults(p[1]) : Defaults(p[1])[i] = p[2]) - 1)

Applied(l, op) ==
  CASE op.type \in {"move", "from"} -> PutAt(Detached(l, op.place), op.place, op.index)
    [] op.type = "insert" -> Inserted(l, op.place, op.index)
    [] op.type = "pin" -> Inserted(l, <<"connect", op.place[2]>>, op.index)
    [] op.type = "create" -> Created(l, op)
    [] op.type = "into" -> Joined(l, op)
    [] op.type = "remove" -> Removed(l, op.place)
    [] op.type = "hide" -> Hidden(l, op.place)
    [] OTHER -> Restored(l, op.place)

\* What may be asked of a board: a new deck is of a pair, a pin is of a card on
\* the personal board, and an index beyond the end means the end.
OperationsOn(l, b) ==
  LET on == {p \in DOMAIN l.at : p[1] = b}
      op(type, p) == [type |-> type, place |-> p, index |-> 0, deck |-> "none", members |-> <<>>]
      indices == 0..Cardinality(Units(l, b)) IN
  UNION {{[op(type, p) EXCEPT !.index = i] : type \in {"move", "from"}, p \in on, i \in indices},
         {[op("insert", p) EXCEPT !.index = i] : p \in {q \in Places : q[1] = b}, i \in indices},
         {[op("pin", p) EXCEPT !.index = i] : p \in {q \in DOMAIN l.at : b = "connect" /\ q[1] = "personal"}, i \in indices},
         {[op("into", p) EXCEPT !.index = i, !.deck = d] : p \in on, d \in DOMAIN l.decks, i \in 0..2},
         {[op("create", p) EXCEPT !.index = i, !.members = pair] :
            p \in on, i \in indices, pair \in {<<q, r>> : q, r \in on}},
         {op(type, p) : type \in {"remove", "hide", "restore"}, p \in on}}

Allowed(l, b) == {op \in OperationsOn(l, b) : Accepts(l, op)}

-----------------------------------------------------------------------------
(* reconcileCardBoardLayout.                                                *)

\* canonicalize: decks of what is left, then every order again.
Canonicalized(l, rank) ==
  LET members(d) == SelectSeq(l.decks[d].members, LAMBDA p : p \in DOMAIN l.at /\ ~l.at[p].hidden)
      kept == {d \in DOMAIN l.decks : Len(members(d)) >= 2}
      thinned == [at |-> [p \in DOMAIN l.at |-> [l.at[p] EXCEPT !.deck = IF @ \in kept THEN @ ELSE "none"]],
                  decks |-> [d \in kept |-> [l.decks[d] EXCEPT !.members = members(d)]]]
      inDeck(p) == CHOOSE i \in DOMAIN members(l.at[p].deck) : members(l.at[p].deck)[i] = p
      stacked == [thinned EXCEPT
        !.at = [p \in DOMAIN l.at |-> IF thinned.at[p].deck = "none" THEN thinned.at[p]
                                      ELSE [thinned.at[p] EXCEPT !.order = inDeck(p) - 1]],
        !.decks = [d \in kept |-> [thinned.decks[d] EXCEPT !.front = IF @ \in Range(members(d)) THEN @ ELSE members(d)[1]]]]
      tidy(s, b) == Arranged(s, Units(s, b), Cardinality(Units(s, b)), rank) IN
  tidy(tidy(stacked, "personal"), "connect")

\* The default cards a board lacks come after everything it has.
Completed(l, b) ==
  LET missing == SelectSeq(Defaults(b), LAMBDA card : <<b, card>> \notin DOMAIN l.at)
      count == Cardinality(Units(l, b)) IN
  [l EXCEPT !.at = [p \in {<<b, card>> : card \in Range(missing)} |->
                      Top(count + (CHOOSE i \in DOMAIN missing : missing[i] = p[2]) - 1)] @@ @]

Reconciled(l, rank) ==
  LET known == [l EXCEPT !.at = Restrict(@, {p \in DOMAIN @ : Resolves(p[2])})]
      complete == Completed(Completed(Canonicalized(known, rank), "personal"), "connect") IN
  Canonicalized(complete, rank)

\* createDefaultCardBoardLayout.
Default ==
  LET row(b) == Defaults(b)
      places == UNION {{<<b, card>> : card \in Range(row(b))} : b \in Boards} IN
  [at |-> [p \in places |-> Top((CHOOSE i \in DOMAIN row(p[1]) : row(p[1])[i] = p[2]) - 1)],
   decks |-> [d \in {} |-> "none"]]

-----------------------------------------------------------------------------
BoardInit == authority = Cards /\ layout = Default

\* A collection is deleted or made, a favourite is put in one or taken out.
AuthorityChanges == \E card \in Fleeting : /\ authority' = (authority \ {card}) \cup ({card} \ authority)
                                           /\ UNCHANGED layout
\* snapshot.
LoadLayout == \E rank \in Ranks : layout' = Reconciled(layout, rank) /\ UNCHANGED authority
\* commit of one operation: a load has gone before.
UpToDate == /\ \A p \in DOMAIN layout.at : Resolves(p[2])
          /\ \A b \in Boards : \A card \in Range(Defaults(b)) : <<b, card>> \in DOMAIN layout.at
CommitOperation(b) ==
  UpToDate /\ \E op \in Allowed(layout, b) : layout' = Applied(layout, op) /\ UNCHANGED authority
ResetLayout == layout' = Default /\ UNCHANGED authority

BoardNext == AuthorityChanges \/ LoadLayout \/ ResetLayout \/ \E b \in Boards : CommitOperation(b)

-----------------------------------------------------------------------------
(* validateCanonicalLayout: what is stored can be read again.               *)
Canonical(l) ==
  /\ \A p \in DOMAIN l.at : l.at[p].deck # "none" =>
       /\ ~l.at[p].hidden /\ l.at[p].deck \in DOMAIN l.decks
       /\ l.decks[l.at[p].deck].board = p[1] /\ p \in Range(l.decks[l.at[p].deck].members)
  /\ \A d \in DOMAIN l.decks :
       LET deck == l.decks[d] IN
       /\ Len(deck.members) \in 2..MaxDeck /\ IsInjective(deck.members) /\ deck.front \in Range(deck.members)
       /\ \A i \in DOMAIN deck.members : LET p == deck.members[i] IN
            p \in DOMAIN l.at /\ l.at[p].deck = d /\ l.at[p].order = i - 1
  /\ \A b \in Boards : {OrderOf(l, u) : u \in Units(l, b)} = 0..Cardinality(Units(l, b)) - 1

(* An operation lets everything it does not name stand where it stood, one  *)
(* card or deck before the other; and the card that is left of a deck has   *)
(* the deck's place.                                                        *)
Precedes(l, u, v) == OrderOf(l, u) < OrderOf(l, v)
SuccessorOf(l, next, u) ==
  IF u \in Units(next, "personal") \cup Units(next, "connect") THEN {u}
  ELSE {Alone(p) : p \in {q \in DOMAIN next.at : u.deck # "none" /\ q \in Range(l.decks[u.deck].members)
                                                  /\ next.at[q].deck = "none"}}
OthersStay(l, b, op, next) ==
  LET named == {Alone(op.place)} \cup {Alone(p) : p \in Range(op.members)}
      rest == Units(l, b) \ named IN
  \A u, v \in rest : u # v /\ Precedes(l, u, v) =>
    \A s \in SuccessorOf(l, next, u) \ named, t \in SuccessorOf(l, next, v) \ named : Precedes(next, s, t)

(* And what it moves is where it was asked to be, or last.                  *)
LandsThere(op, next) ==
  op.type \in {"move", "from", "insert"} =>
    next.at[op.place].order = Min({op.index, Cardinality(Units(next, op.place[1])) - 1})

(* Every operation a board accepts gives a layout that can be stored, in    *)
(* which the other cards are where the user left them; a load moves no card *)
(* as long as the cards are the same, and no card of a board is ever lost   *)
(* for good: a reload brings it back, hidden ones stay hidden.              *)
BoardSafety ==
  /\ Canonical(layout) /\ DOMAIN layout.at \subseteq Places
  /\ \A rank \in Ranks :
       LET l == Reconciled(layout, rank) IN
       /\ Canonical(l)
       /\ \A b \in Boards : {<<b, card>> : card \in Range(Defaults(b))} \subseteq DOMAIN l.at
       /\ \A p \in DOMAIN layout.at : Resolves(p[2]) => p \in DOMAIN l.at /\ l.at[p].hidden = layout.at[p].hidden
       /\ UpToDate => l = layout
  /\ UpToDate => \A b \in Boards : \A op \in Allowed(layout, b) :
         LET next == Applied(layout, op) IN Canonical(next) /\ OthersStay(layout, b, op, next) /\ LandsThere(op, next)
=============================================================================
