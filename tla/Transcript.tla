---------------------------- MODULE Transcript ----------------------------
(***************************************************************************)
(* The transcript of the open conversation (transcriptView.ts): the rows   *)
(* kept by message id and patched in place, the place of the reader, the   *)
(* loop that pins a conversation to its end while rows are still being     *)
(* laid out, the ticker, and the jump to a message.  A row's content is    *)
(* laid out some time after render has returned.                           *)
(*                                                                         *)
(* Heights are counted in units, two of which make the follow band.        *)
(***************************************************************************)
EXTENDS Naturals, Sequences, SequencesExt, FiniteSets, TLC

CONSTANTS
  Sessions,   \* conversations that can be opened
  Ids,        \* message ids of a session, in the order they arrive
  View,       \* the height of the visible part
  Sizes,      \* bound: how often the content of a message grows
  Frames,     \* MAX_SETTLE_FRAMES
  Attempts,   \* bound: the frames revealMessage tries
  Acts        \* bound: what the runs and the reader do

VARIABLES
  session,  \* the open conversation
  messages, \* per session: its messages
  dom,      \* the children of the transcript element
  rows,     \* renderedRows: per message id the size of the message it was given
  laid,     \* per row: the height its content is laid out with
  top,      \* scrollTop
  forced,   \* forceScrollToBottomOnRender
  settle,   \* the settle loop: under way, last height, steady frames, frames left
  ticker,   \* workTicker
  reveal,   \* the jump under way: the message and the tries left
  acts,     \* bound
  owed,     \* history: the end was forced and has not been settled since
  moved     \* history: since the end was last forced something moved that no loop was owed to

vars == <<session, messages, dom, rows, laid, top, forced, settle, ticker, reveal, acts, owed, moved>>

Band == 2
Empty == <<"empty">>
Working == <<"working">>
Thinking == <<"thinking">>
End == <<"end">>
Extras == {Empty, Working, Thinking}
Message(role, i) == [role |-> role, id |-> <<role, i>>, size |-> 1, live |-> role = "work"]
NoSettle == [on |-> FALSE, last |-> 0, steady |-> 0, left |-> 0]
NoReveal == [id |-> End, left |-> 0]

HeightOf(heights, node) ==
  CASE node \in DOMAIN heights -> heights[node]
    [] node \in {Working, Thinking} -> 1
    [] OTHER -> 0
Height(nodes, heights) == FoldLeft(LAMBDA h, n : h + HeightOf(heights, n), 0, nodes)
Bottom(nodes, heights) ==
  LET h == Height(nodes, heights) IN IF h > View THEN h - View ELSE 0
Clamp(y, nodes, heights) == IF y > Bottom(nodes, heights) THEN Bottom(nodes, heights) ELSE y
IsNearBottom(band) == Bottom(dom, laid) - top < band

IdsOf(ms) == [i \in 1..Len(ms) |-> ms[i].id]

----------------------------------------------------------------------------
(* reconcileTranscript *)

\* insertBefore: the node leaves its old place; before no node means at the end.
InsertBefore(nodes, node, ref) ==
  LET rest == SelectSeq(nodes, LAMBDA x : x # node)
      at == IF ref = End THEN Len(rest) + 1 ELSE CHOOSE i \in 1..Len(rest) : rest[i] = ref
  IN  InsertAt(rest, at, node)
NextSibling(nodes, node) ==
  LET i == CHOOSE k \in 1..Len(nodes) : nodes[k] = node
  IN  IF i = Len(nodes) THEN End ELSE nodes[i + 1]

\* One message: its row stays where the cursor is, or is put before the cursor.
PlaceRow(at, id) ==
  IF id = at.cursor THEN [at EXCEPT !.cursor = NextSibling(at.nodes, id)]
  ELSE [at EXCEPT !.nodes = InsertBefore(@, id, at.cursor)]

\* The rows in the order of the messages, those whose message is gone removed; without a
\* message one empty line.
Reconciled(nodes, ids) ==
  IF ids = <<>>
  THEN LET kept == IF rows = <<>> THEN nodes ELSE <<>>
       IN  IF Empty \in ToSet(kept) THEN kept ELSE Append(kept, Empty)
  ELSE LET bare == SelectSeq(nodes, LAMBDA x : x # Empty)
           first == IF bare = <<>> THEN End ELSE Head(bare)
           placed == FoldLeft(PlaceRow, [nodes |-> bare, cursor |-> first], ids).nodes
       IN  SelectSeq(placed, LAMBDA x : x \in Extras \/ x \in ToSet(ids))

\* The rows behind the keyed ones, made anew by each render.
LiveWork(ms) == \E i \in 1..Len(ms) : ms[i].live
Trailing(ms, busy) == IF busy /\ ~LiveWork(ms) THEN <<Working, Thinking>> ELSE <<>>
Painted(nodes, ms, busy) ==
  SelectSeq(Reconciled(nodes, IdsOf(ms)), LAMBDA x : x \notin {Working, Thinking})
  \o Trailing(ms, busy)

\* render: the rows, then the place of the reader: at the end when it was forced or near it,
\* else where it was.  What was laid out stays until React commits the new content.
RenderFrom(nodes, heights, stick, force, ms, busy) ==
  LET after == Painted(nodes, ms, busy)
      sizes == [id \in ToSet(IdsOf(ms)) |-> (CHOOSE m \in ToSet(ms) : m.id = id).size]
      kept == [id \in DOMAIN sizes |-> IF id \in DOMAIN heights THEN heights[id] ELSE 0]
  IN  /\ dom' = after /\ rows' = sizes /\ laid' = kept
      /\ top' = IF stick \/ force THEN Bottom(after, kept) ELSE Clamp(top, after, kept)
      /\ settle' = IF force THEN [on |-> TRUE, last |-> 0, steady |-> 0, left |-> Frames]
                   ELSE settle
      /\ ticker' = LiveWork(ms)
      /\ forced' = FALSE

Render(ms, busy) ==
  RenderFrom(dom, laid, IsNearBottom(Band), forced, ms, busy)
  /\ owed' = (owed \/ forced) /\ moved' = (~forced /\ moved)
\* A run is in progress and has no approval pending: here, while the last message is the user's.
Busy(ms) == \E i \in 1..Len(ms) : ms[i].role = "user" /\ i = Len(ms)

Init ==
  /\ session \in Sessions
  /\ messages = [s \in Sessions |-> <<>>]
  /\ dom = <<Empty>> /\ rows = <<>> /\ laid = <<>> /\ top = 0
  /\ forced = FALSE /\ settle = NoSettle /\ ticker = FALSE /\ reveal = NoReveal
  /\ acts = 0 /\ owed = FALSE /\ moved = FALSE

\* A session's messages change: those of the open one are rendered.
Change(s, ms) ==
  /\ acts < Acts /\ acts' = acts + 1
  /\ messages' = [messages EXCEPT ![s] = ms]
  /\ IF s = session THEN Render(ms, Busy(ms))
     ELSE UNCHANGED <<dom, rows, laid, top, forced, settle, ticker, owed, moved>>
  /\ UNCHANGED <<session, reveal>>

Arrives(s) ==
  \E role \in {"user", "work"}, i \in Ids :
    LET m == Message(role, i)
    IN  /\ m.id \notin ToSet(IdsOf(messages[s]))
        /\ \E at \in {1, Len(messages[s]) + 1} : Change(s, InsertAt(messages[s], at, m))
Grows(s) ==
  \E i \in 1..Len(messages[s]) :
    /\ messages[s][i].size <= Sizes
    /\ Change(s, [messages[s] EXCEPT ![i].size = @ + 1])
Ends(s) ==
  \E i \in 1..Len(messages[s]) :
    messages[s][i].live /\ Change(s, [messages[s] EXCEPT ![i].live = FALSE])
Leaves(s) ==
  \E i \in 1..Len(messages[s]) : Change(s, RemoveAt(messages[s], i))

\* openSession: every row goes, and the new conversation starts at its end.
OpenSession(s) ==
  /\ s # session /\ acts < Acts /\ acts' = acts + 1
  /\ session' = s
  /\ RenderFrom(<<>>, <<>>, TRUE, TRUE, messages[s], Busy(messages[s]))
  /\ owed' = TRUE /\ moved' = FALSE
  /\ UNCHANGED <<messages, reveal>>

\* onSend: the next render goes to the end.
StickToBottomOnNextRender ==
  /\ acts < Acts /\ acts' = acts + 1 /\ ~forced
  /\ forced' = TRUE
  /\ UNCHANGED <<session, messages, dom, rows, laid, top, settle, ticker, reveal, owed, moved>>

\* workTicker: every second the last model is rendered again.
Tick ==
  /\ ticker
  /\ Render(messages[session], Busy(messages[session]))
  /\ UNCHANGED <<session, messages, reveal, acts>>

\* React commits a row: its content takes its height.
Commit(id) ==
  /\ laid[id] # rows[id]
  /\ laid' = [laid EXCEPT ![id] = rows[id]]
  /\ top' = Clamp(top, dom, laid')
  /\ moved' = (moved \/ ~owed)
  /\ UNCHANGED <<session, messages, dom, rows, forced, settle, ticker, reveal, acts, owed>>

\* An image in a row has loaded and grown it (the size of a message counts its images); a reader who was at the end before is put back.
ImageLoads(id, image) ==
  /\ laid[id] = rows[id] /\ acts < Acts /\ acts' = acts + 1
  /\ laid' = [laid EXCEPT ![id] = @ + image]
  /\ rows' = [rows EXCEPT ![id] = @ + image]
  /\ messages' = [messages EXCEPT ![session] =
       [i \in 1..Len(@) |-> IF @[i].id = id THEN [@[i] EXCEPT !.size = @ + image] ELSE @[i]]]
  /\ top' = IF Bottom(dom, laid') - top < Band + image THEN Bottom(dom, laid') ELSE top
  /\ moved' = (moved \/ ~owed)
  /\ UNCHANGED <<session, dom, forced, settle, ticker, reveal, owed>>

\* settleScrollAtBottom, one frame: to the end, until two frames in a row have one height.
SettleFrame ==
  /\ settle.on
  /\ LET h == Height(dom, laid) + 1
         steady == IF h = settle.last THEN settle.steady + 1 ELSE 0
         left == settle.left - 1
     IN  settle' = IF steady >= 2 \/ left = 0 THEN NoSettle
                   ELSE [on |-> TRUE, last |-> h, steady |-> steady, left |-> left]
  /\ top' = Bottom(dom, laid)
  /\ owed' = settle'.on
  /\ UNCHANGED <<session, messages, dom, rows, laid, forced, ticker, reveal, acts, moved>>

\* The reader scrolls.
Scroll(y) ==
  /\ acts < Acts /\ acts' = acts + 1
  /\ top' = y /\ y # top
  /\ moved' = (moved \/ ~owed)
  /\ UNCHANGED <<session, messages, dom, rows, laid, forced, settle, ticker, reveal, owed>>

\* A jump to a message of the open conversation is asked for.
RevealMessage(id) ==
  /\ acts < Acts /\ acts' = acts + 1
  /\ reveal' = [id |-> id, left |-> Attempts]
  /\ UNCHANGED <<session, messages, dom, rows, laid, top, forced, settle, ticker, owed, moved>>

\* One try: the row must be there and the settle loop over; after the last the jump is dropped.
RevealFrame ==
  /\ reveal # NoReveal
  /\ LET there == reveal.id \in DOMAIN laid /\ laid[reveal.id] > 0
         above == SelectSeq(dom, LAMBDA x : x # reveal.id)
         at == Height(SubSeq(above, 1, (CHOOSE i \in 1..Len(dom) : dom[i] = reveal.id) - 1), laid)
     IN  IF there /\ ~settle.on
         THEN top' = Clamp(at, dom, laid) /\ reveal' = NoReveal /\ moved' = TRUE
         ELSE /\ reveal' = IF reveal.left = 0 THEN NoReveal ELSE [reveal EXCEPT !.left = @ - 1]
              /\ UNCHANGED <<top, moved>>
  /\ UNCHANGED <<session, messages, dom, rows, laid, forced, settle, ticker, acts, owed>>

Next ==
  \/ \E s \in Sessions : Arrives(s) \/ Grows(s) \/ Ends(s) \/ Leaves(s) \/ OpenSession(s)
  \/ StickToBottomOnNextRender \/ Tick \/ SettleFrame \/ RevealFrame
  \/ \E id \in DOMAIN rows : Commit(id) \/ ImageLoads(id, 3) \/ RevealMessage(id)
  \/ \E y \in 0..Bottom(dom, laid) : Scroll(y)

Spec == Init /\ [][Next]_vars

----------------------------------------------------------------------------

TypeOK ==
  /\ session \in Sessions /\ acts \in 0..Acts
  /\ settle.left \in 0..Frames /\ reveal.left \in 0..Attempts
  /\ DOMAIN laid = DOMAIN rows

\* The rows on screen are the messages of the open conversation, each once and in their order,
\* with the progress rows behind them only while nothing of the run has a row.
RowsInOrder ==
  LET ids == IdsOf(messages[session])
  IN  /\ SelectSeq(dom, LAMBDA x : x \notin Extras) = ids
      /\ (Empty \in ToSet(dom)) = (ids = <<>>)
      /\ \A i \in 1..Len(dom) : dom[i] \in {Working, Thinking} => i > Len(dom) - 2
      /\ DOMAIN rows = ToSet(ids)

\* The clock of a work block runs exactly while one is live in the open conversation.
TickerWhileLive == ticker = LiveWork(messages[session])

\* Where the end was forced the reader is at the end once the loop is over, whatever was laid
\* out while it ran.
ForcedReachesEnd == ~settle.on /\ ~moved => top = Bottom(dom, laid)

TranscriptSound == RowsInOrder /\ TickerWhileLive /\ ForcedReachesEnd

\* Nothing moves a reader who has scrolled back, but his own scrolling and his jump; and an
\* image that loads does not push a reader off the end.
PlaceKept ==
  [][/\ (~IsNearBottom(Band) /\ ~forced /\ ~settle.on /\ session' = session /\ reveal' = reveal
         /\ (acts' = acts \/ messages' # messages)) => top' = Clamp(top, dom', laid')
     /\ (IsNearBottom(Band) /\ acts' # acts /\ rows' # rows /\ laid' = rows' /\ laid = rows
         /\ dom' = dom) => top' = Bottom(dom', laid')]_vars
=============================================================================
