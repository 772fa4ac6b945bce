---------------------------- MODULE ApprovalDock ----------------------------
(***************************************************************************)
(* The strip of approval cards above the composer (approvalDock.ts).  A    *)
(* parallel turn raises several requests at once; each arrival and each    *)
(* answer draws the strip anew, carrying the typed reasons over, and after *)
(* a few cards of a session the cards of guarded tools shrink to one line  *)
(* with fewer buttons and no field for a reason.                           *)
(***************************************************************************)
EXTENDS Naturals, Sequences, SequencesExt, FiniteSets

CONSTANTS
  Requests,     \* ids of the requests, numbers in order of arrival
  SessionOf,    \* the session of each
  Guarded,      \* those of a tool with a guard behind the prompt: bash, write_file, edit_file
  GrantOf,      \* what may be granted with it: "none", "session", or "project" as well
  CompactAfter, \* cards of a session before they shrink
  None          \* no card

VARIABLES
  pending, \* per session: the requests that wait, in order of arrival
  arrived, \* bound: the requests raised so far
  open,    \* the session on screen
  cards,   \* the cards of the strip, in order
  reasons, \* the cards with a typed reason
  seen,    \* per session: the requests that had a card
  focus,   \* where the keyboard is: [at, id]
  focused, \* the request whose Allow button already got initial focus
  answers, \* history: what was answered
  typed    \* history: the requests a reason was typed for, on a card that never shrank and never left

vars == <<pending, arrived, open, cards, reasons, seen, focus, focused, answers, typed>>

Sessions == {SessionOf[r] : r \in Requests}
Ids(cs) == {c.id : c \in Range(cs)}
Away == [at |-> "away", id |-> 0]
InDock == focus.at \in {"reason", "button"}

Init ==
  /\ pending = [s \in Sessions |-> <<>>] /\ arrived = 0
  /\ open \in Sessions
  /\ cards = <<>> /\ reasons = {} /\ seen = [s \in Sessions |-> {}]
  /\ focus = Away /\ focused = None
  /\ answers = {} /\ typed = {}

\* Mutant: the cards after the first shrink, whatever the tool.
TailShrinks(id, prior, index) == (id \in Guarded /\ prior >= CompactAfter) \/ index > 1

\* shouldRenderCompactApproval, for a card of its own and for those after the first.
Shrinks(id, prior, index) == id \in Guarded /\ (prior >= CompactAfter \/ index > 1)

\* useCompactApproval: the requests of the session seen by now, this one aside.
Prior(already, ids, i) ==
  Cardinality((already \cup {ids[k] : k \in 1 .. i - 1}) \ {ids[i]})

Cards(ids, already) ==
  [i \in 1 .. Len(ids) |-> [id |-> ids[i], compact |-> Shrinks(ids[i], Prior(already, ids, i), i)]]

\* Mutant: the strip is taken as unchanged when it has as many cards.
SameCount(ids) == Len(ids) = Len(cards)

\* The set of requests did not change: a render then would wipe the focus.
Unchanged(ids) == ids = [i \in 1 .. Len(cards) |-> cards[i].id]

\* A card that is left keeps its reason when it has a field for it.
Carried(now) == {r \in reasons : \E c \in Range(now) : c.id = r /\ ~c.compact}

\* The keyboard's place after the strip was drawn: back in the field it was in; on an empty strip it goes
\* to the composer; on Allow of a new first request when a message is being typed in the composer.
Refocused(now) ==
  CASE now = <<>> -> IF InDock THEN [at |-> "composer", id |-> 0] ELSE focus
    [] now # <<>> /\ focus.at = "reason" ->
         IF \E c \in Range(now) : c.id = focus.id /\ ~c.compact THEN focus ELSE Away
    [] now # <<>> /\ focus.at = "draft" ->
         IF now[1].id # focused THEN [at |-> "button", id |-> now[1].id] ELSE focus
    [] OTHER -> IF InDock THEN Away ELSE focus

\* render.
Render(ids, s) ==
  LET now == Cards(ids, seen[s])
  IN  IF Unchanged(ids) THEN UNCHANGED <<cards, reasons, seen, focus, focused, typed>>
      ELSE /\ cards' = now /\ reasons' = Carried(now)
           /\ seen' = [seen EXCEPT ![s] = @ \cup ToSet(ids)]
           /\ focus' = Refocused(now)
           /\ focused' = (IF ids = <<>> THEN None ELSE ids[1])
           /\ typed' = {r \in typed : \E c \in Range(now) : c.id = r /\ ~c.compact}

\* onApprovalRequest.
Arrives ==
  /\ arrived < Cardinality(Requests) /\ arrived' = arrived + 1
  /\ LET s == SessionOf[arrived']
     IN  /\ pending' = [pending EXCEPT ![s] = Append(@, arrived')]
         /\ Render(pending'[open], open)
  /\ UNCHANGED <<open, answers>>

\* openSession.
Opens(s) ==
  /\ s # open /\ open' = s
  /\ Render(pending[s], s)
  /\ UNCHANGED <<pending, arrived, answers>>

\* The run settles: what it still asked is gone.
RunEnds(s) ==
  /\ pending[s] # <<>> /\ pending' = [pending EXCEPT ![s] = <<>>]
  /\ Render(pending'[open], open)
  /\ UNCHANGED <<arrived, open, answers>>

TypesReason(c) ==
  /\ ~c.compact
  /\ focus' = [at |-> "reason", id |-> c.id]
  /\ reasons' = reasons \cup {c.id} /\ typed' = typed \cup {c.id}
  /\ UNCHANGED <<pending, arrived, open, cards, seen, focused, answers>>

TypesDraft ==
  /\ focus' = [at |-> "draft", id |-> 0]
  /\ UNCHANGED <<pending, arrived, open, cards, reasons, seen, focused, answers, typed>>

\* respond: only of a request that still waits.
Respond(c, what, reason) ==
  /\ c.id \in ToSet(pending[open])
  /\ pending' = [pending EXCEPT ![open] = SelectSeq(@, LAMBDA r : r # c.id)]
  /\ answers' = answers \cup {[id |-> c.id, what |-> what, reason |-> reason, compact |-> c.compact]}
  /\ Render(pending'[open], open)
  /\ UNCHANGED <<arrived, open>>

\* Mutant: four slots, whether or not a grant is offered.
FourSlots(c) == <<"allow", "always", "project", "deny">>

\* appendApprovalActions: the buttons that are there, in order.
Buttons(c) ==
  <<"allow">> \o (IF GrantOf[c.id] # "none" THEN <<"always">> ELSE <<>>)
  \o (IF GrantOf[c.id] = "project" /\ ~c.compact THEN <<"project">> ELSE <<>>) \o <<"deny">>

\* A click, or the digit of a button pressed anywhere on the card but in the field.
Presses(c, digit) ==
  /\ digit \in DOMAIN Buttons(c)
  /\ Respond(c, Buttons(c)[digit], Buttons(c)[digit] = "deny" /\ c.id \in reasons)

\* Escape denies, without the reason that may have been typed.
Escapes(c) == focus.id = c.id /\ InDock /\ Respond(c, "deny", FALSE)

\* Enter in the field denies with what was typed.
EntersReason(c) == focus = [at |-> "reason", id |-> c.id] /\ c.id \in reasons /\ Respond(c, "deny", TRUE)

Next ==
  \/ Arrives \/ TypesDraft
  \/ \E s \in Sessions : Opens(s) \/ RunEnds(s)
  \/ \E c \in Range(cards) : TypesReason(c) \/ Escapes(c) \/ EntersReason(c) \/ \E digit \in 1 .. 4 : Presses(c, digit)

Spec == Init /\ [][Next]_vars

----------------------------------------------------------------------------
TypeOK ==
  /\ open \in Sessions /\ arrived \in 0 .. Cardinality(Requests)
  /\ reasons \subseteq Ids(cards) /\ Ids(cards) \subseteq 1 .. arrived
  /\ \A s \in Sessions : seen[s] \subseteq {r \in Requests : SessionOf[r] = s}

\* The strip shows the open session's requests, in the order they came: no answer goes to another's.
ShowsPending == pending[open] = [i \in 1 .. Len(cards) |-> cards[i].id]

\* A reason typed for a request is still on its card whatever arrived or was answered meanwhile, until the
\* card is answered, the session is left, or the card shrinks.
ReasonsSurvive == typed \subseteq reasons

\* Only tools with a guard behind the prompt may shrink: the prompt is the only gate of the others.
GateKeepsFullCard == \A c \in Range(cards) : c.compact => c.id \in Guarded

\* What was granted had been offered: a grant only for a tool that has one, the project's only from a full card.
AnswersOffered ==
  \A a \in answers :
    /\ a.what \in {"always", "project"} => GrantOf[a.id] # "none"
    /\ a.what = "project" => GrantOf[a.id] = "project" /\ ~a.compact

\* A request is answered once.
AnsweredOnce == \A a, b \in answers : a.id = b.id => a = b

\* The dock's promises together.
DockSound == ShowsPending /\ ReasonsSurvive /\ GateKeepsFullCard /\ AnswersOffered /\ AnsweredOnce
=============================================================================
