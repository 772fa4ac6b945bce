--------------------------- MODULE QuotaIndicator ---------------------------
(***************************************************************************)
(* The coding-plan quota: the pill beside the context ring, the fetch      *)
(* behind it and the parsing of what the provider reports.  It is read at  *)
(* start, every five minutes, on focus, at a click, and when the session   *)
(* on screen leaves InProgress; one read at a time.  A failed read keeps   *)
(* what is shown, as render and the comment in it (lines 197-204) say: the *)
(* older comments at lines 12-15 (hidden whenever the lookup fails) and 90 *)
(* (undefined hides the pill) hold only until data was shown once.         *)
(***************************************************************************)
EXTENDS Naturals, FiniteSets

CONSTANTS
  Limit, \* the plan's limit, in points
  Times, \* bound: what the clock shows
  Asks,  \* bound: reads
  None   \* a number that is missing; no snapshot

VARIABLES
  used,     \* what the plan has used, at the provider
  configured, \* a provider with a usage endpoint and a key is stored
  clock,
  running,  \* sessions with a run: the one on screen, another
  inflight, \* reads under way: asked at, and the snapshot once the provider answered
  pill,     \* what the pill shows, or None while it is hidden
  popover,  \* the popover is visible
  asks,     \* bound: reads so far
  settled,  \* history: a read began since the plan was last used and the last run ended, and none failed
  past      \* history: what the plan had used, with the time

vars == <<used, configured, clock, running, inflight, pill, popover, asks, settled, past>>

----------------------------------------------------------------------------
(* codingQuota.ts.                                                          *)

\* Mutant: what is missing counts as nothing.
AsZero(limit, u, r) ==
  IF limit = None \/ (u = None /\ r = None) THEN None
  ELSE [limit |-> limit, used |-> IF u = None THEN 0 ELSE u, remaining |-> IF r = None THEN 0 ELSE r]

\* toWindow: the missing one of used and remaining follows from the other; never below zero.
ToWindow(limit, u, r) ==
  LET Rest(n) == IF n > limit THEN 0 ELSE limit - n
  IN  IF limit = None \/ (u = None /\ r = None) THEN None
      ELSE LET taken == IF u = None THEN Rest(r) ELSE u
           IN  [limit |-> limit, used |-> taken, remaining |-> IF r = None THEN Rest(taken) ELSE r]

\* The payload's numbers, one of which may be absent or malformed; no answer, an error or no limit at all.
Payloads == {<<Limit, used, Limit - used>>, <<Limit, None, Limit - used>>, <<Limit, used, None>>,
             <<Limit, None, None>>, <<None, used, None>>, <<0, used, None>>}

----------------------------------------------------------------------------
Init ==
  /\ used = 0 /\ clock = 0 /\ running = {} /\ configured \in BOOLEAN
  /\ inflight = {[asked |-> 0, at |-> "out", window |-> None, fetched |-> 0]}
  /\ pill = None /\ popover = FALSE
  /\ asks = 1 /\ settled = FALSE /\ past = {<<0, 0>>}

\* Mutant: a refresh while one is under way starts another.
Always == TRUE

\* refresh: one read at a time.
MayRefresh == inflight = {}

Refresh ==
  IF MayRefresh
  THEN /\ asks < Asks /\ asks' = asks + 1
       /\ inflight' = inflight \cup {[asked |-> asks, at |-> "out", window |-> None, fetched |-> 0]}
  ELSE UNCHANGED <<inflight, asks>>

\* The timer, the window's focus, the button.
Refreshes ==
  /\ Refresh /\ settled' = (settled \/ inflight' # inflight)
  /\ UNCHANGED <<used, configured, clock, running, pill, popover, past>>

Ticks ==
  /\ clock < Times /\ clock' = clock + 1
  /\ UNCHANGED <<used, configured, running, inflight, pill, popover, asks, settled, past>>

RunStarts(s) ==
  /\ s \notin running /\ used < Limit /\ running' = running \cup {s}
  /\ UNCHANGED <<used, configured, clock, inflight, pill, popover, asks, settled, past>>

\* A request of a run is what moves the number.
Uses ==
  /\ running # {} /\ used < Limit /\ used' = used + 1
  /\ past' = past \cup {<<used', clock>>} /\ settled' = FALSE
  /\ UNCHANGED <<configured, clock, running, inflight, pill, popover, asks>>

\* The session on screen leaves InProgress: read again, unless a read is under way.  Another session ends unseen.
RunEnds(s) ==
  /\ s \in running /\ running' = running \ {s}
  /\ IF s = "shown" THEN Refresh /\ settled' = (inflight' # inflight)
     ELSE UNCHANGED <<inflight, asks>> /\ settled' = FALSE
  /\ UNCHANGED <<used, configured, clock, pill, popover, past>>

\* The models page adds the provider, or clears it.
Configures ==
  /\ configured' = ~configured
  /\ UNCHANGED <<used, clock, running, inflight, pill, popover, asks, settled, past>>

\* readCodingQuota: the first provider that has a usage endpoint and a key.
Fetched(q, payload) ==
  /\ q.at = "out" /\ configured /\ payload \in Payloads
  /\ inflight' = (inflight \ {q}) \cup
       {[q EXCEPT !.at = "back", !.window = ToWindow(payload[1], payload[2], payload[3]), !.fetched = clock]}
  /\ UNCHANGED <<used, configured, clock, running, pill, popover, asks, settled, past>>

\* No provider, no key, an error or ten seconds without an answer.
FetchFails(q) ==
  /\ q.at = "out"
  /\ inflight' = (inflight \ {q}) \cup {[q EXCEPT !.at = "back"]}
  /\ UNCHANGED <<used, configured, clock, running, pill, popover, asks, settled, past>>

\* Mutant: a failed read hides the pill.
Blanks(window, fetched) ==
  IF window = None \/ window.limit = 0 THEN None ELSE [window |-> window, fetched |-> fetched]

\* render: a read that failed keeps the last data on screen.
Drawn(window, fetched) == IF window = None \/ window.limit = 0 THEN pill ELSE [window |-> window, fetched |-> fetched]

Renders(q) ==
  /\ q.at = "back" /\ inflight' = inflight \ {q}
  /\ pill' = Drawn(q.window, q.fetched)
  /\ popover' = (popover /\ pill' # None)
  /\ settled' = (settled /\ q.window # None /\ q.window.limit # 0)
  /\ UNCHANGED <<used, configured, clock, running, asks, past>>

\* showPopover, hidePopover.
Hovers ==
  /\ popover' = ~popover /\ (popover' => pill # None)
  /\ UNCHANGED <<used, configured, clock, running, inflight, pill, asks, settled, past>>

Next ==
  \/ Refreshes \/ Ticks \/ Uses \/ Configures \/ Hovers
  \/ \E s \in {"shown", "other"} : RunStarts(s) \/ RunEnds(s)
  \/ \E q \in inflight : FetchFails(q) \/ Renders(q) \/ \E payload \in Payloads : Fetched(q, payload)

Spec == Init /\ [][Next]_vars

----------------------------------------------------------------------------
TypeOK ==
  /\ used \in 0 .. Limit /\ clock \in 0 .. Times /\ asks \in 0 .. Asks
  /\ Cardinality(inflight) <= 1 /\ running \subseteq {"shown", "other"}
  /\ popover => pill # None

\* The number on the pill is the plan's, as of some time no later than its freshness line says: used and
\* remaining agree, whichever of them the provider left out.
PillIsHonest ==
  pill # None =>
    /\ pill.window.used + pill.window.remaining = pill.window.limit
    /\ \E p \in past : p[1] = pill.window.used /\ p[2] <= pill.fetched
    /\ pill.fetched <= clock

\* Once the session on screen settled and the read it caused came back, the pill shows what the plan has
\* used: unless another session's run ended, that read was skipped for one under way, or it failed.
FreshAfterRun == settled /\ inflight = {} => pill # None /\ pill.window.used = used

\* The quota display's promises together.
QuotaSound == PillIsHonest /\ FreshAfterRun

\* What has once been shown never disappears, whatever fails and even when the provider is
\* cleared: growing stale is the signal (line 200).  The contract of fetchQuota (line 90) and the
\* class comment (lines 12-15) promise the contrary, a pill that hides when a lookup fails, which
\* the code keeps only before the first data.
NeverBlanks == [][pill # None => pill' # None]_vars
=============================================================================
