------------------------- MODULE MainProcessProofs --------------------------
(***************************************************************************)
(* What holds of the services of the main process: the theorems about the  *)
(* hooks, the artifacts index, the tools that run something outside and    *)
(* sub-agents, and what MCMainProcess promises of the ten services with a  *)
(* theorem.                                                                *)
(*                                                                         *)
(* Each service is proved as an instance in MCMainProcess, or in a module  *)
(* of its own (ApprovalsProofs, LanguageServersProofs, and StoresProofs    *)
(* for the four stores).  A behaviour of MCMainProcess is one of the       *)
(* service its focus names, which never changes, so the theorem of that    *)
(* service is all there is to show (section Together).                     *)
(***************************************************************************)
EXTENDS MCMainProcess, FiniteSetTheorems, TLAPS

-----------------------------------------------------------------------------
(* Hooks. A dispatch is judged by the places of its hooks in the registry:   *)
(* what ran, in order, and what is still to run make up the hooks that match,*)
(* so a command that closes late finds its place gone.                       *)

(* The hooks are read before the first of them is fired.                     *)
Loaded == loaded.state = "unread" => fire.pc = "idle"
(* A running command belongs to the hook whose turn it is.                   *)
Watched == \A h \in HC!UserHooks : command[h] = "running" => fire.pc = "hooks" /\ HC!IsNext(h)
(* A dispatch that ends has run every built-in: they come first and never    *)
(* block.                                                                    *)
BuiltinsFirst == fire.pc \in {"passed", "blocked"} => fire.todo \cap HC!BuiltinHooks = {}

(* The built-in has had its turn in this dispatch.                           *)
Ran(h) == fire.pc # "idle" /\ fire.tool # "query" /\ h \notin fire.todo
(* How a streak, the latch of its built-in and the reminders stand to each   *)
(* other: a reminder is out exactly while the latch is set over the          *)
(* threshold, and a streak above it has had one.                             *)
Reminded(h) ==
  LET b == HC!Builtins[h]
  IN  /\ reminded[b] \in {0, 1}
      /\ reminded[b] = 1 => armed[b] /\ HC!Over(b)
      /\ armed[b] /\ streaks[b] > 0 => reminded[b] = 1
      /\ streaks[b] > Threshold => reminded[b] = 1
      /\ Ran(h) /\ HC!Over(b) => reminded[b] = 1
      /\ Ran(h) /\ armed[b] => HC!Over(b)

(* The inductive invariant of the hooks.                                     *)
HooksOrderly ==
  /\ HC!TypeOK /\ Loaded /\ Watched /\ BuiltinsFirst /\ HC!HooksDecide
  /\ \A h \in {2, 3} : Reminded(h)

(* The built-ins stand at the first three places of the registry.            *)
LEMMA Places ==
  /\ HC!BuiltinHooks = {1, 2, 3}
  /\ \A h \in HC!UserHooks : h \in Nat /\ h > 3
  /\ HC!Builtins[1] = "live" /\ HC!Builtins[2] = "fanout" /\ HC!Builtins[3] = "probe"
  /\ HC!Hooks \subseteq Nat
<1>1. Len(HC!Builtins) = 3
  BY DEF HC!Builtins
<1>2. HC!BuiltinHooks = {1, 2, 3}
  BY <1>1 DEF HC!BuiltinHooks
<1>3. \A n \in 1..Len(Entries) : n \in Nat /\ n >= 1
  OBVIOUS
<1>4. \A h \in HC!UserHooks : h \in Nat /\ h > 3
  BY <1>1, <1>3 DEF HC!UserHooks, HC!UserHook
<1> QED
  BY <1>2, <1>4 DEF HC!Builtins, HC!Hooks

(* What taking one decision does to the dispatch.                            *)
LEMMA TakeFields ==
  ASSUME HC!TypeOK, NEW h \in HC!Hooks, NEW decision \in {"allow", "modify", "block"},
         NEW context \in BOOLEAN, NEW failOpen \in BOOLEAN,
         HC!Take(h, decision, context, failOpen)
  PROVE  /\ fire' \in HC!Dispatches
         /\ fire'.pc = (IF decision = "block" THEN "blocked" ELSE "hooks")
         /\ fire'.tool = fire.tool /\ fire'.todo = fire.todo \ {h}
         /\ fire'.results = Append(fire.results, HC!Result(h, decision, failOpen))
<1>1. fire \in HC!Dispatches
  BY DEF HC!TypeOK
<1>2. HC!Result(h, decision, failOpen) \in HC!Results
  BY DEF HC!Result, HC!Results
<1> DEFINE r == HC!Result(h, decision, failOpen)
           q == [fire EXCEPT
                  !.results = Append(@, r),
                  !.contexts = IF context THEN @ \cup {h} ELSE @,
                  !.modified = @ \/ decision = "modify",
                  !.todo = @ \ {h},
                  !.pc = IF decision = "block" THEN "blocked" ELSE "hooks"]
<1>3. fire' = q
  BY Zenon DEF HC!Take
<1> HIDE DEF r
<1>4. /\ q.pc = (IF decision = "block" THEN "blocked" ELSE "hooks")
      /\ q.tool = fire.tool /\ q.todo = fire.todo \ {h}
      /\ q.results = Append(fire.results, r)
  BY <1>1 DEF HC!Dispatches
<1>9. q \in HC!Dispatches
  <2> DEFINE a == Append(fire.results, r)
             c == IF context THEN fire.contexts \cup {h} ELSE fire.contexts
             m == fire.modified \/ decision = "modify"
             t == fire.todo \ {h}
             p == IF decision = "block" THEN "blocked" ELSE "hooks"
  <2>1. a \in Seq(HC!Results) /\ c \in SUBSET HC!Hooks /\ t \in SUBSET HC!Hooks
    BY <1>1, <1>2 DEF HC!Dispatches, r
  <2>2. m \in BOOLEAN
    OBVIOUS
  <2>3. p \in {"idle", "hooks", "passed", "blocked"}
    OBVIOUS
  <2>4. q = [fire EXCEPT !.results = a, !.contexts = c, !.modified = m, !.todo = t, !.pc = p]
    BY Zenon
  <2> HIDE DEF a, c, m, t, p, q
  <2> QED
    BY <1>1, <2>1, <2>2, <2>3, <2>4 DEF HC!Dispatches
<1> HIDE DEF q
<1> QED
  BY <1>3, <1>4, <1>9 DEF r

(* A decision of the hook whose turn it is extends the results in order.     *)
LEMMA TakeDecides ==
  ASSUME HC!TypeOK, HC!HooksDecide, fire.pc = "hooks", NEW h \in HC!Hooks, HC!IsNext(h),
         NEW decision \in {"allow", "modify", "block"}, NEW context \in BOOLEAN,
         NEW failOpen \in BOOLEAN, HC!Take(h, decision, context, failOpen), loaded' = loaded,
         \A g \in HC!UserHooks \ {h} : ended'[g] = ended[g],
         h \in HC!UserHooks => (decision = "block" <=> ended'[h] \in {"two", "block"}),
         h \in HC!UserHooks => (failOpen <=> ended'[h] \in {"unspawned", "timeout", "error", "other"})
  PROVE  HC!HooksDecide'
<1> DEFINE n == Len(fire.results)
           r == HC!Result(h, decision, failOpen)
<1>1. /\ fire'.pc = (IF decision = "block" THEN "blocked" ELSE "hooks")
      /\ fire'.tool = fire.tool /\ fire'.todo = fire.todo \ {h}
      /\ fire'.results = Append(fire.results, r)
  BY TakeFields
<1>2. fire.results \in Seq(HC!Results) /\ fire.todo \subseteq HC!Hooks /\ HC!Hooks \subseteq Nat
  BY Places DEF HC!TypeOK, HC!Dispatches
<1>3. /\ {fire.results[i].hook : i \in 1..n} \cup fire.todo = HC!Matching(fire.tool)
      /\ \A i \in 1..n :
           /\ \A k \in 1..n : i < k => fire.results[i].hook < fire.results[k].hook
           /\ \A g \in fire.todo : fire.results[i].hook < g
           /\ fire.results[i].decision # "block"
           /\ fire.results[i].hook \in HC!UserHooks =>
                /\ (fire.results[i].decision = "block")
                     = (ended[fire.results[i].hook] \in {"two", "block"})
                /\ fire.results[i].failOpen =
                     (ended[fire.results[i].hook] \in {"unspawned", "timeout", "error", "other"})
  BY DEF HC!HooksDecide
<1>4. r.hook = h /\ r.decision = decision /\ r.failOpen = failOpen /\ r \in HC!Results
  BY DEF HC!Result, HC!Results
<1> HIDE DEF r
<1>5. /\ n \in Nat /\ Len(fire'.results) = n + 1
      /\ \A i \in 1..n : fire'.results[i] = fire.results[i]
      /\ fire'.results[n + 1] = r
  BY <1>1, <1>2, <1>4
<1>6. h \in fire.todo /\ \A g \in fire.todo : h <= g
  BY DEF HC!IsNext
<1>7. HC!Matching(fire.tool)' = HC!Matching(fire.tool)
  BY <1>1 DEF HC!Matching
<1>8. {fire'.results[i].hook : i \in 1..(n + 1)} = {fire.results[i].hook : i \in 1..n} \cup {h}
  <2>1. 1..(n + 1) = (1..n) \cup {n + 1}
    BY <1>5
  <2>2. \A i \in 1..n : fire'.results[i].hook = fire.results[i].hook
    BY <1>5
  <2>3. fire'.results[n + 1].hook = h
    BY <1>4, <1>5
  <2> HIDE DEF n
  <2> QED
    BY <2>1, <2>2, <2>3
<1>9. ({fire.results[i].hook : i \in 1..Len(fire.results)} \cup fire.todo = HC!Matching(fire.tool))'
  <2>1. {fire'.results[i].hook : i \in 1..Len(fire'.results)} \cup fire'.todo
          = {fire.results[i].hook : i \in 1..n} \cup {h} \cup (fire.todo \ {h})
    BY <1>1, <1>5, <1>8, Zenon
  <2>2. {h} \cup (fire.todo \ {h}) = fire.todo
    BY <1>6
  <2>3. {fire.results[i].hook : i \in 1..n} \cup fire.todo = HC!Matching(fire.tool)
    BY <1>3
  <2> DEFINE S == {fire.results[i].hook : i \in 1..n}
  <2> HIDE DEF S
  <2>4. S \cup {h} \cup (fire.todo \ {h}) = S \cup fire.todo
    BY <2>2
  <2> QED
    BY <2>1, <2>3, <2>4, <1>7 DEF S
<1>10. ASSUME NEW i \in 1..(n + 1)
       PROVE  /\ \A k \in 1..(n + 1) : i < k => fire'.results[i].hook < fire'.results[k].hook
              /\ \A g \in fire'.todo : fire'.results[i].hook < g
              /\ (fire'.results[i].decision = "block") => i = n + 1 /\ fire'.pc = "blocked"
  <2>1. CASE i = n + 1
    <3>1. fire'.results[i] = r
      BY <2>1, <1>5
    <3>2. \A k \in 1..(n + 1) : ~(i < k)
      BY <2>1, <1>5
    <3>3. ASSUME NEW g \in fire'.todo PROVE h < g
      <4>1. g \in fire.todo /\ g # h /\ g \in Nat /\ h \in Nat
        BY <3>3, <1>1, <1>2
      <4> QED
        BY <4>1, <1>6
    <3>4. decision = "block" => fire'.pc = "blocked"
      BY <1>1
    <3> QED
      BY <2>1, <3>1, <3>2, <3>3, <3>4, <1>4
  <2>2. CASE i # n + 1
    <3>1. i \in 1..n /\ fire'.results[i] = fire.results[i]
      BY <2>2, <1>5
    <3>2. fire.results[i].hook < h /\ fire.results[i].decision # "block"
      BY <3>1, <1>3, <1>6
    <3>3. \A g \in fire'.todo : fire.results[i].hook < g
      BY <3>1, <1>1, <1>3
    <3>4. ASSUME NEW k \in 1..(n + 1), i < k
          PROVE  fire.results[i].hook < fire'.results[k].hook
      <4>1. CASE k = n + 1
        BY <4>1, <3>2, <1>4, <1>5
      <4>2. CASE k # n + 1
        <5>1. k \in 1..n /\ fire'.results[k] = fire.results[k]
          BY <4>2, <1>5
        <5> QED
          BY <5>1, <3>1, <3>4, <1>3
      <4> QED
        BY <4>1, <4>2
    <3> QED
      BY <3>1, <3>2, <3>3, <3>4
  <2> QED
    BY <2>1, <2>2
<1>11. ASSUME NEW i \in 1..(n + 1), fire'.results[i].hook \in HC!UserHooks
       PROVE  /\ (fire'.results[i].decision = "block")
                     = (ended'[fire'.results[i].hook] \in {"two", "block"})
              /\ fire'.results[i].failOpen =
                     (ended'[fire'.results[i].hook] \in {"unspawned", "timeout", "error", "other"})
  <2>1. CASE i = n + 1
    BY <2>1, <1>4, <1>5, <1>11
  <2>2. CASE i # n + 1
    <3>1. i \in 1..n /\ fire'.results[i] = fire.results[i]
      BY <2>2, <1>5
    <3>2. fire.results[i].hook < h
      BY <3>1, <1>3, <1>6
    <3>3. fire.results[i].hook \in HC!UserHooks \ {h}
      <4> DEFINE g == fire.results[i].hook
      <4>1. g \in HC!UserHooks
        BY <3>1, <1>11
      <4>2. g \in Nat /\ h \in Nat /\ g < h
        BY <4>1, <3>2, <1>2, Places
      <4> HIDE DEF g
      <4>3. g # h
        BY <4>2
      <4> QED
        BY <4>1, <4>3 DEF g
    <3>4. ended'[fire.results[i].hook] = ended[fire.results[i].hook]
      BY <3>3
    <3> QED
      <4>1. /\ (fire.results[i].decision = "block")
                     = (ended[fire.results[i].hook] \in {"two", "block"})
            /\ fire.results[i].failOpen =
                     (ended[fire.results[i].hook] \in {"unspawned", "timeout", "error", "other"})
        BY <3>1, <3>3, <1>3
      <4> QED
        BY <4>1, <3>1, <3>4, Zenon
  <2> QED
    BY <2>1, <2>2
<1> QED
  BY <1>5, <1>9, <1>10, <1>11 DEF HC!HooksDecide

(* The decision of a command, however its process ended.                     *)
LEMMA UserDecides ==
  ASSUME HooksOrderly, fire.pc = "hooks", NEW h \in HC!UserHooks, HC!IsNext(h),
         NEW decision \in {"allow", "modify", "block"}, NEW context \in BOOLEAN,
         NEW failOpen \in BOOLEAN, HC!Take(h, decision, context, failOpen),
         NEW how \in {"none", "unspawned", "timeout", "error"} \cup HC!Exits,
         NEW after \in {"none", "killed", "over"},
         ended' = [ended EXCEPT ![h] = how], command' = [command EXCEPT ![h] = after],
         decision = "block" <=> how \in {"two", "block"},
         failOpen <=> how \in {"unspawned", "timeout", "error", "other"},
         UNCHANGED <<loaded, streaks, armed, turn, reminded>>
  PROVE  HooksOrderly'
<1>1. HC!TypeOK /\ fire \in HC!Dispatches /\ h \in HC!Hooks
  BY DEF HooksOrderly, HC!TypeOK, HC!Hooks
<1>2. /\ fire' \in HC!Dispatches
      /\ fire'.pc = (IF decision = "block" THEN "blocked" ELSE "hooks")
      /\ fire'.tool = fire.tool /\ fire'.todo = fire.todo \ {h}
  BY <1>1, TakeFields
<1>3. HC!TypeOK'
  BY <1>1, <1>2 DEF HC!TypeOK
<1>4. /\ \A g \in HC!UserHooks \ {h} : ended'[g] = ended[g] /\ command'[g] = command[g]
      /\ ended'[h] = how /\ command'[h] = after
  BY <1>1 DEF HC!TypeOK
<1>5. HC!HooksDecide'
  <2>1. decision = "block" <=> ended'[h] \in {"two", "block"}
    BY <1>4
  <2>2. failOpen <=> ended'[h] \in {"unspawned", "timeout", "error", "other"}
    BY <1>4
  <2>3. HC!HooksDecide /\ loaded' = loaded
    BY DEF HooksOrderly
  <2>4. \A g \in HC!UserHooks \ {h} : ended'[g] = ended[g]
    BY <1>4
  <2>5. /\ HC!TypeOK /\ HC!HooksDecide /\ fire.pc = "hooks" /\ h \in HC!Hooks /\ HC!IsNext(h)
        /\ HC!Take(h, decision, context, failOpen) /\ loaded' = loaded
    BY <1>1, <2>3
  <2> QED
    BY <2>1, <2>2, <2>4, <2>5, TakeDecides
<1>6. h \in Nat /\ h > 3 /\ fire.todo \subseteq Nat /\ \A g \in fire.todo : h <= g
  BY <1>1, Places DEF HC!Dispatches, HC!IsNext
<1>7. Watched'
  <2> SUFFICES ASSUME NEW g \in HC!UserHooks, command'[g] = "running" PROVE FALSE
    BY DEF Watched
  <2>1. g # h /\ command[g] = "running"
    BY <1>4
  <2>2. g \in fire.todo /\ g <= h
    BY <2>1 DEF HooksOrderly, Watched, HC!IsNext
  <2> QED
    BY <2>1, <2>2, <1>6
<1>8. BuiltinsFirst'
  BY <1>2, <1>6, Places DEF BuiltinsFirst
<1>9. Loaded'
  BY DEF Loaded, HooksOrderly
<1>10. ASSUME NEW k \in {2, 3} PROVE Reminded(k)'
  <2>1. Ran(k)' => Ran(k)
    BY <1>2, <1>6 DEF Ran
  <2>2. Reminded(k)
    BY DEF HooksOrderly
  <2>3. (HC!Over(HC!Builtins[k]))' = HC!Over(HC!Builtins[k]) /\ streaks' = streaks
    BY DEF HC!Over
  <2> QED
    BY <2>1, <2>2, <2>3 DEF Reminded
<1> QED
  BY <1>3, <1>5, <1>7, <1>8, <1>9, <1>10 DEF HooksOrderly

(* A command is spawned, or cannot be.                                       *)
LEMMA SpawnOrderly ==
  ASSUME HooksOrderly, NEW h \in HC!UserHooks, NEW ok \in BOOLEAN, HC!SpawnCommand(h, ok)
  PROVE  HooksOrderly'
<1>1. fire.pc = "hooks" /\ HC!IsNext(h) /\ HC!TypeOK /\ fire \in HC!Dispatches
  BY DEF HC!SpawnCommand, HooksOrderly, HC!TypeOK
<1>2. CASE ~ok
  <2>1. /\ command' = [command EXCEPT ![h] = "over"] /\ ended' = [ended EXCEPT ![h] = "unspawned"]
        /\ HC!Take(h, "allow", FALSE, TRUE)
        /\ UNCHANGED <<loaded, streaks, armed, turn, reminded>>
    BY <1>2 DEF HC!SpawnCommand
  <2> QED
    BY <1>1, <2>1, UserDecides
<1>3. CASE ok
  <2>1. fire' = fire /\ ended' = ended /\ command' = [command EXCEPT ![h] = "running"]
    BY <1>3 DEF HC!SpawnCommand
  <2>2. UNCHANGED <<loaded, streaks, armed, turn, reminded>>
    BY DEF HC!SpawnCommand
  <2>3. HC!TypeOK'
    BY <1>1, <2>1, <2>2 DEF HC!TypeOK
  <2>4. Watched'
    BY <1>1, <2>1 DEF HC!TypeOK, Watched, HooksOrderly, HC!IsNext
  <2>5. HC!HooksDecide'
    BY <2>1, <2>2 DEF HC!HooksDecide, HC!Matching, HooksOrderly
  <2>6. Loaded' /\ BuiltinsFirst'
    BY <2>1, <2>2 DEF Loaded, BuiltinsFirst, HooksOrderly
  <2>7. \A k \in {2, 3} : Reminded(k)'
    BY <2>1, <2>2 DEF Reminded, Ran, HC!Over, HooksOrderly
  <2> QED
    BY <2>3, <2>4, <2>5, <2>6, <2>7 DEF HooksOrderly
<1> QED
  BY <1>2, <1>3

(* A command closes: it decides, unless its timer did.                       *)
LEMMA ClosesOrderly ==
  ASSUME HooksOrderly, NEW h \in HC!UserHooks, NEW exit \in HC!Exits, HC!CommandCloses(h, exit)
  PROVE  HooksOrderly'
<1>1. HC!TypeOK /\ UNCHANGED <<loaded, streaks, armed, turn, reminded>>
  BY DEF HC!CommandCloses, HooksOrderly
<1>2. command' = [command EXCEPT ![h] = "over"]
  BY DEF HC!CommandCloses
<1>3. CASE command[h] = "running"
  <2>1. fire.pc = "hooks" /\ HC!IsNext(h)
    BY <1>3 DEF HooksOrderly, Watched
  <2>2. HC!Interpret(h, exit) /\ ended' = [ended EXCEPT ![h] = exit]
    BY <1>3 DEF HC!CommandCloses
  <2>3. PICK decision \in {"allow", "modify", "block"}, context \in BOOLEAN, failOpen \in BOOLEAN :
          /\ HC!Take(h, decision, context, failOpen)
          /\ decision = "block" <=> exit \in {"two", "block"}
          /\ failOpen <=> exit \in {"unspawned", "timeout", "error", "other"}
    <3>1. CASE exit \in {"two", "block"}
      <4>1. HC!Take(h, "block", FALSE, FALSE)
        BY <3>1, <2>2 DEF HC!Interpret
      <4> QED
        BY <3>1, <4>1
    <3>2. CASE exit = "modify"
      <4>1. HC!Take(h, "modify", FALSE, FALSE)
        BY <3>2, <2>2 DEF HC!Interpret
      <4> QED
        BY <3>2, <4>1
    <3>3. CASE exit = "text"
      <4>1. HC!Take(h, "allow", TRUE, FALSE)
        BY <3>3, <2>2 DEF HC!Interpret
      <4> QED
        BY <3>3, <4>1
    <3>4. CASE exit = "other"
      <4>1. HC!Take(h, "allow", FALSE, TRUE)
        BY <3>4, <2>2 DEF HC!Interpret
      <4> QED
        BY <3>4, <4>1
    <3>5. CASE exit \in {"clean", "allow"}
      <4>1. HC!Take(h, "allow", FALSE, FALSE)
        BY <3>5, <2>2 DEF HC!Interpret
      <4> QED
        BY <3>5, <4>1
    <3> QED
      BY <3>1, <3>2, <3>3, <3>4, <3>5 DEF HC!Exits
  <2> QED
    BY <1>1, <1>2, <2>1, <2>2, <2>3, UserDecides
<1>4. CASE command[h] # "running"
  <2>1. fire' = fire /\ ended' = ended
    BY <1>4 DEF HC!CommandCloses
  <2>3. HC!TypeOK'
    BY <1>1, <1>2, <2>1 DEF HC!TypeOK
  <2>4. Watched'
    BY <1>1, <1>2, <2>1 DEF HC!TypeOK, Watched, HooksOrderly, HC!IsNext
  <2>5. HC!HooksDecide'
    BY <2>1, <1>1 DEF HC!HooksDecide, HC!Matching, HooksOrderly
  <2>6. Loaded' /\ BuiltinsFirst'
    BY <2>1, <1>1 DEF Loaded, BuiltinsFirst, HooksOrderly
  <2>7. \A k \in {2, 3} : Reminded(k)'
    BY <2>1, <1>1 DEF Reminded, Ran, HC!Over, HooksOrderly
  <2> QED
    BY <2>3, <2>4, <2>5, <2>6, <2>7 DEF HooksOrderly
<1> QED
  BY <1>3, <1>4

(* The timer or an error settles a command.                                  *)
LEMMA FailsOrderly ==
  ASSUME HooksOrderly, NEW h \in HC!UserHooks, NEW how \in {"timeout", "error"},
         HC!CommandFails(h, how)
  PROVE  HooksOrderly'
<1>1. fire.pc = "hooks" /\ HC!IsNext(h)
  BY DEF HooksOrderly, Watched, HC!CommandFails
<1>2. /\ HC!Take(h, "allow", FALSE, TRUE) /\ ended' = [ended EXCEPT ![h] = how]
      /\ UNCHANGED <<loaded, streaks, armed, turn, reminded>>
  BY DEF HC!CommandFails
<1>3. PICK after \in {"none", "killed", "over"} : command' = [command EXCEPT ![h] = after]
  BY DEF HC!CommandFails
<1> HIDE DEF HC!Take
<1>4. how \in {"none", "unspawned", "timeout", "error"} \cup HC!Exits
  OBVIOUS
<1>5. "allow" = "block" <=> how \in {"two", "block"}
  OBVIOUS
<1>6. TRUE <=> how \in {"unspawned", "timeout", "error", "other"}
  OBVIOUS
<1> QED
  BY <1>1, <1>2, <1>3, <1>4, <1>5, <1>6, UserDecides

(* Before hooks.json was read.                                               *)
LEMMA InitOrderly == HC!Registered /\ HC!Init => HooksOrderly
<1> SUFFICES ASSUME HC!Registered, HC!Init PROVE HooksOrderly
  OBVIOUS
<1>1. Len(Entries) \in Nat
  BY DEF HC!Registered
<1>2. fire \in HC!Dispatches
  BY DEF HC!Init, HC!Still, HC!Dispatches, HC!Tools
<1>3. loaded \in [state : {"unread", "absent", "corrupt", "entries"},
                 hooks : SUBSET (1..Len(Entries)), dropped : 0..Len(Entries)]
  BY <1>1 DEF HC!Init
<1>4. turn \in 0..HookTurns
  BY DEF HC!Init, HC!Registered
<1>5. HC!TypeOK
  BY <1>2, <1>3, <1>4 DEF HC!Init, HC!TypeOK
<1>6. Loaded /\ Watched /\ BuiltinsFirst /\ HC!HooksDecide
  BY DEF HC!Init, HC!Still, Loaded, Watched, BuiltinsFirst, HC!HooksDecide
<1>7. \A k \in {2, 3} : Reminded(k)
  BY Places DEF HC!Init, HC!Still, Reminded, Ran, HC!Nudges, HC!Registered
<1> QED
  BY <1>5, <1>6, <1>7 DEF HooksOrderly

(* The hooks of a run are read once, before any dispatch.                    *)
LEMMA LoadOrderly ==
  ASSUME HC!Registered, HooksOrderly, NEW file \in {"absent", "corrupt", "entries"},
         HC!LoadHooks(file)
  PROVE  HooksOrderly'
<1>1. /\ fire.pc = "idle" /\ HC!TypeOK
      /\ UNCHANGED <<streaks, armed, fire, command, turn, ended, reminded>>
  BY DEF HooksOrderly, HC!LoadHooks, Loaded
<1>2. loaded' \in [state : {"unread", "absent", "corrupt", "entries"},
                  hooks : SUBSET (1..Len(Entries)), dropped : 0..Len(Entries)]
  <2>1. Len(Entries) \in Nat
    BY DEF HC!Registered
  <2>2. HC!WellFormed \subseteq 1..Len(Entries)
    BY DEF HC!WellFormed
  <2>3. Cardinality(HC!WellFormed) \in Nat /\ Cardinality(HC!WellFormed) <= Len(Entries)
    <3> DEFINE n == Len(Entries)
    <3> HIDE DEF n
    <3>0. 1 \in Int /\ n \in Int /\ n \in Nat
      BY <2>1 DEF n
    <3>a. IsFiniteSet(1..n) /\ Cardinality(1..n) = (IF 1 > n THEN 0 ELSE n - 1 + 1)
      BY <3>0, FS_Interval, Zenon
    <3>b. IsFiniteSet(1..n) /\ Cardinality(1..n) = n
      BY <3>0, <3>a
    <3>1. IsFiniteSet(1..Len(Entries)) /\ Cardinality(1..Len(Entries)) = Len(Entries)
      BY <3>b DEF n
    <3>2. IsFiniteSet(HC!WellFormed) /\ Cardinality(HC!WellFormed) <= Cardinality(1..Len(Entries))
      BY <2>2, <3>1, FS_Subset
    <3> QED
      BY <3>1, <3>2, FS_CardinalityType
  <2>4. Len(Entries) - Cardinality(HC!WellFormed) \in 0..Len(Entries)
    BY <2>1, <2>3
  <2>5. 0 \in 0..Len(Entries)
    BY <2>1
  <2> DEFINE rejected == Len(Entries) - Cardinality(HC!WellFormed)
             valid == HC!WellFormed
             places == 1..Len(Entries)
             counts == 0..Len(Entries)
  <2>6. loaded' = [state |-> file, hooks |-> valid, dropped |-> rejected]
          \/ loaded' = [state |-> file, hooks |-> {}, dropped |-> 0]
    <3>1. CASE file = "entries"
      BY <3>1, Zenon DEF HC!LoadHooks, HC!ParseHooksFile, Cardinality, HC!Cardinality
    <3>2. CASE file # "entries"
      BY <3>2, Zenon DEF HC!LoadHooks, HC!ParseHooksFile
    <3> QED
      BY <3>1, <3>2
  <2>7. file \in {"unread", "absent", "corrupt", "entries"}
    OBVIOUS
  <2> HIDE DEF rejected, valid, places, counts
  <2>8. rejected \in counts /\ 0 \in counts /\ valid \in SUBSET places /\ {} \in SUBSET places
    BY <2>2, <2>4, <2>5 DEF rejected, counts, valid, places
  <2>9. loaded' \in [state : {"unread", "absent", "corrupt", "entries"},
                    hooks : SUBSET places, dropped : counts]
    BY <2>6, <2>7, <2>8
  <2> QED
    BY <2>9 DEF places, counts
<1>3. HC!TypeOK'
  BY <1>1, <1>2 DEF HC!TypeOK
<1>4. Loaded' /\ Watched' /\ BuiltinsFirst' /\ HC!HooksDecide'
  BY <1>1 DEF Loaded, Watched, BuiltinsFirst, HC!HooksDecide, HooksOrderly
<1>5. \A k \in {2, 3} : Reminded(k)'
  BY <1>1 DEF Reminded, Ran, HC!Over, HooksOrderly
<1> QED
  BY <1>3, <1>4, <1>5 DEF HooksOrderly

(* A dispatch starts with every matching hook to run.                        *)
LEMMA FireOrderly ==
  ASSUME HC!Registered, HooksOrderly, NEW tool \in HC!Tools, NEW single \in BOOLEAN,
         HC!FireHooks(tool, single)
  PROVE  HooksOrderly'
<1> DEFINE q == [HC!Still EXCEPT !.pc = "hooks", !.tool = tool, !.single = single,
                              !.todo = HC!Matching(tool)]
<1>1. /\ HC!TypeOK /\ loaded.state # "unread" /\ fire.pc = "idle"
      /\ turn < HookTurns /\ turn' = turn + 1
      /\ fire' = q /\ command' = [h \in HC!UserHooks |-> "none"]
      /\ ended' = [h \in HC!UserHooks |-> "none"]
      /\ UNCHANGED <<loaded, streaks, armed, reminded>>
  BY DEF HC!FireHooks, HooksOrderly
<1>2. HC!Matching(tool) \subseteq HC!Hooks
  BY <1>1 DEF HC!Matching, HC!Hooks, HC!UserHooks, HC!TypeOK
<1>3. /\ q \in HC!Dispatches /\ q.pc = "hooks" /\ q.tool = tool /\ q.todo = HC!Matching(tool)
      /\ q.results = <<>>
  <2> DEFINE m == HC!Matching(tool)
  <2> HIDE DEF m
  <2>1. /\ HC!Still \in HC!Dispatches /\ HC!Still.results = <<>>
    BY DEF HC!Still, HC!Dispatches, HC!Tools
  <2> QED
    BY <1>2, <2>1 DEF HC!Dispatches, m
<1> HIDE DEF q
<1>4. HC!TypeOK'
  <2>1. turn' \in 0..HookTurns
    BY <1>1 DEF HC!TypeOK, HC!Registered
  <2> QED
    BY <1>1, <1>3, <2>1 DEF HC!TypeOK
<1>5. HC!Matching(tool)' = HC!Matching(tool)
  BY <1>1 DEF HC!Matching
<1>6. HC!HooksDecide'
  BY <1>1, <1>3, <1>5 DEF HC!HooksDecide
<1>7. Loaded' /\ Watched' /\ BuiltinsFirst'
  BY <1>1, <1>3 DEF Loaded, Watched, BuiltinsFirst
<1>8. ASSUME NEW k \in {2, 3} PROVE Reminded(k)'
  <2>1. ~Ran(k)'
    BY <1>1, <1>3, Places DEF Ran, HC!Matching
  <2>2. Reminded(k)
    BY DEF HooksOrderly
  <2> QED
    BY <1>1, <2>1, <2>2 DEF Reminded, HC!Over
<1> QED
  BY <1>4, <1>6, <1>7, <1>8 DEF HooksOrderly

(* A built-in runs: it reminds over the threshold, if its latch is open.     *)
LEMMA BuiltinOrderly ==
  ASSUME HC!Registered, HooksOrderly, NEW h \in HC!BuiltinHooks, HC!RunBuiltin(h)
  PROVE  HooksOrderly'
<1> DEFINE b == HC!Builtins[h]
           injects == HC!Over(b) /\ ~armed[b]
<1>1. /\ HC!TypeOK /\ fire.pc = "hooks" /\ HC!IsNext(h)
      /\ armed' = [armed EXCEPT ![b] = HC!Over(b)]
      /\ reminded' = IF injects /\ b \in HC!Nudges THEN [reminded EXCEPT ![b] = @ + 1] ELSE reminded
      /\ HC!Take(h, "allow", injects, FALSE)
      /\ UNCHANGED <<loaded, streaks, command, turn, ended>>
  BY DEF HC!RunBuiltin, HooksOrderly
<1>2. h \in {1, 2, 3} /\ h \in HC!Hooks /\ h \notin HC!UserHooks /\ b \in {"live", "fanout", "probe"}
  BY Places DEF HC!Hooks
<1>3. injects \in BOOLEAN
  BY DEF HC!Over
<1>4. /\ fire' \in HC!Dispatches /\ fire'.pc = "hooks"
      /\ fire'.tool = fire.tool /\ fire'.todo = fire.todo \ {h}
  BY <1>1, <1>2, <1>3, TakeFields
<1>5. HC!HooksDecide'
  BY <1>1, <1>2, <1>3, TakeDecides DEF HooksOrderly
<1> HIDE DEF injects
<1>6. HC!TypeOK'
  BY <1>1, <1>2, <1>3, <1>4 DEF HC!TypeOK, HC!Over, HC!Nudges
<1>7. Watched'
  <2> SUFFICES ASSUME NEW g \in HC!UserHooks, command'[g] = "running" PROVE FALSE
    BY DEF Watched
  <2>1. HC!IsNext(g)
    BY <1>1 DEF HooksOrderly, Watched
  <2>2. g \in fire.todo /\ h \in fire.todo /\ g <= h
    BY <1>1, <2>1 DEF HC!IsNext
  <2>3. g \in Nat /\ g > 3
    BY Places
  <2> QED
    BY <1>2, <2>2, <2>3
<1>8. Loaded' /\ BuiltinsFirst'
  BY <1>1, <1>4 DEF Loaded, BuiltinsFirst, HooksOrderly
<1>9. ASSUME NEW k \in {2, 3} PROVE Reminded(k)'
  <2>1. Reminded(k)
    BY DEF HooksOrderly
  <2>2. streaks' = streaks /\ \A c : HC!Over(c)' = HC!Over(c)
    BY <1>1 DEF HC!Over
  <2>3. HC!Builtins[k] \in HC!Nudges
    BY Places DEF HC!Nudges
  <2>4. CASE k = h
    <3>1. armed'[b] = HC!Over(b) /\ b \in HC!Nudges /\ (HC!Over(b) <=> streaks[b] >= Threshold)
      BY <1>1, <1>2, <2>3, <2>4 DEF HC!TypeOK, HC!Over
    <3>2. reminded'[b] = IF HC!Over(b) /\ ~armed[b] THEN reminded[b] + 1 ELSE reminded[b]
      BY <1>1, <3>1 DEF HC!TypeOK, injects
    <3>3. /\ reminded[b] \in {0, 1}
          /\ reminded[b] = 1 => armed[b] /\ HC!Over(b)
          /\ armed[b] /\ streaks[b] > 0 => reminded[b] = 1
          /\ streaks[b] > Threshold => reminded[b] = 1
      BY <2>1, <2>4 DEF Reminded
    <3>4. ASSUME HC!Over(b) PROVE reminded'[b] = 1
      <4>1. CASE armed[b]
        <5>1. streaks[b] > 0
          <6>1. streaks[b] \in Nat /\ Threshold \in Nat \ {0}
            BY <1>1, <3>1 DEF HC!TypeOK, HC!Registered
          <6> QED
            BY <6>1, <3>1, <3>4
        <5> QED
          BY <3>2, <3>3, <4>1, <5>1
      <4>2. CASE ~armed[b]
        <5>1. reminded[b] = 0
          BY <3>3, <4>2
        <5> QED
          BY <3>2, <3>4, <4>2, <5>1
      <4> QED
        BY <4>1, <4>2
    <3> QED
      BY <2>2, <2>4, <3>1, <3>2, <3>3, <3>4 DEF Reminded
  <2>5. CASE k # h
    <3>1. HC!Builtins[k] # b
      BY <1>2, <2>5, Places
    <3>2. /\ armed'[HC!Builtins[k]] = armed[HC!Builtins[k]]
          /\ reminded'[HC!Builtins[k]] = reminded[HC!Builtins[k]]
      BY <1>1, <2>3, <3>1 DEF HC!TypeOK
    <3>3. Ran(k)' => Ran(k)
      BY <1>1, <1>4, <2>5 DEF Ran
    <3> QED
      BY <2>1, <2>2, <3>2, <3>3 DEF Reminded
  <2> QED
    BY <2>4, <2>5
<1> QED
  BY <1>5, <1>6, <1>7, <1>8, <1>9 DEF HooksOrderly

(* Every hook allowed.                                                       *)
LEMMA PassOrderly == ASSUME HooksOrderly, HC!HooksPass PROVE HooksOrderly'
<1>1. /\ HC!TypeOK /\ fire.pc = "hooks" /\ fire.todo = {} /\ fire' = [fire EXCEPT !.pc = "passed"]
      /\ UNCHANGED <<loaded, streaks, armed, command, turn, ended, reminded>>
  BY DEF HC!HooksPass, HooksOrderly
<1>2. /\ fire' \in HC!Dispatches /\ fire'.pc = "passed" /\ fire'.tool = fire.tool
      /\ fire'.todo = fire.todo /\ fire'.results = fire.results
  BY <1>1 DEF HC!TypeOK, HC!Dispatches
<1>3. HC!TypeOK'
  BY <1>1, <1>2 DEF HC!TypeOK
<1>4. Loaded' /\ BuiltinsFirst'
  BY <1>1, <1>2 DEF Loaded, BuiltinsFirst, HooksOrderly
<1>5. Watched'
  BY <1>1 DEF Watched, HC!IsNext, HooksOrderly
<1>6. HC!HooksDecide'
  BY <1>1, <1>2 DEF HC!HooksDecide, HC!Matching, HooksOrderly
<1>7. \A k \in {2, 3} : Reminded(k)'
  BY <1>1, <1>2 DEF Reminded, Ran, HC!Over, HooksOrderly
<1> QED
  BY <1>3, <1>4, <1>5, <1>6, <1>7 DEF HooksOrderly

(* The streaks are counted once the tools of the turn ran.                   *)
LEMMA TurnOrderly ==
  ASSUME HC!Registered, HooksOrderly, NEW nearEmpty \in BOOLEAN, HC!TurnOver(nearEmpty)
  PROVE  HooksOrderly'
<1> DEFINE counts(b) == (fire.single /\ HC!Explores(fire.tool)) /\ (b = "probe" => nearEmpty)
<1>1. /\ HC!TypeOK /\ fire.pc \in {"passed", "blocked"} /\ fire' = HC!Still
      /\ streaks' = [b \in HC!Nudges |-> IF counts(b) THEN streaks[b] + 1 ELSE 0]
      /\ reminded' = [b \in HC!Nudges |-> IF counts(b) THEN reminded[b] ELSE 0]
      /\ UNCHANGED <<loaded, armed, command, turn, ended>>
  BY DEF HC!TurnOver, HooksOrderly
<1>2. HC!Still \in HC!Dispatches /\ HC!Still.pc = "idle"
  BY DEF HC!Still, HC!Dispatches, HC!Tools
<1>3. HC!TypeOK'
  BY <1>1, <1>2 DEF HC!TypeOK
<1>4. Loaded' /\ BuiltinsFirst' /\ HC!HooksDecide'
  BY <1>1, <1>2 DEF Loaded, BuiltinsFirst, HC!HooksDecide
<1>5. Watched'
  BY <1>1 DEF Watched, HooksOrderly
<1>6. ASSUME NEW k \in {2, 3} PROVE Reminded(k)'
  <2> DEFINE b == HC!Builtins[k]
  <2>1. Reminded(k) /\ b \in HC!Nudges
    BY Places DEF HooksOrderly, HC!Nudges
  <2>2. streaks[b] \in Nat /\ Threshold \in Nat \ {0}
    BY <1>1, <2>1 DEF HC!TypeOK, HC!Registered
  <2>3. ~Ran(k)'
    BY <1>1, <1>2 DEF Ran
  <2>4. CASE counts(b)
    <3>1. streaks'[b] = streaks[b] + 1 /\ reminded'[b] = reminded[b] /\ armed'[b] = armed[b]
      BY <1>1, <2>1, <2>4
    <3>2. Ran(k)
      BY <1>1, <2>4, Places DEF Ran, HooksOrderly, BuiltinsFirst, HC!Explores
    <3> HIDE DEF b, counts
    <3>3. (HC!Over(b) <=> streaks[b] >= Threshold) /\ (HC!Over(b)' <=> streaks[b] + 1 >= Threshold)
      BY <2>1, <3>1 DEF HC!Over
    <3>4. /\ reminded[b] \in {0, 1}
          /\ reminded[b] = 1 => armed[b] /\ HC!Over(b)
          /\ HC!Over(b) => reminded[b] = 1
          /\ armed[b] => HC!Over(b)
      BY <2>1, <3>2 DEF Reminded, b
    <3>5. streaks[b] + 1 > Threshold => reminded[b] = 1
      BY <2>2, <3>3, <3>4
    <3> QED
      BY <2>2, <2>3, <3>1, <3>3, <3>4, <3>5 DEF Reminded, b
  <2>5. CASE ~counts(b)
    <3>1. streaks'[b] = 0 /\ reminded'[b] = 0
      BY <1>1, <2>1, <2>5
    <3> QED
      BY <2>2, <2>3, <3>1 DEF Reminded
  <2> QED
    BY <2>4, <2>5
<1> QED
  BY <1>3, <1>4, <1>5, <1>6 DEF HooksOrderly

(* Every step keeps the invariant of the hooks.                              *)
LEMMA StepOrderly == ASSUME HC!Registered, HooksOrderly, [HC!Next]_(HC!vars) PROVE HooksOrderly'
<1>1. CASE UNCHANGED HC!vars
  <2>1. HC!TypeOK' /\ Loaded' /\ Watched' /\ BuiltinsFirst'
    BY <1>1 DEF HC!vars, HooksOrderly, HC!TypeOK, Loaded, Watched, HC!IsNext, BuiltinsFirst
  <2>2. HC!HooksDecide'
    BY <1>1 DEF HC!vars, HooksOrderly, HC!HooksDecide, HC!Matching
  <2>3. \A k \in {2, 3} : Reminded(k)'
    BY <1>1 DEF HC!vars, HooksOrderly, Reminded, Ran, HC!Over
  <2> QED
    BY <2>1, <2>2, <2>3 DEF HooksOrderly
<1>2. CASE HC!Next
  BY <1>2, LoadOrderly, FireOrderly, BuiltinOrderly, PassOrderly, SpawnOrderly, ClosesOrderly,
     FailsOrderly, TurnOrderly DEF HC!Next
<1> QED
  BY <1>1, <1>2

(* What the invariant says in the words of the model-checked property.       *)
LEMMA OrderlySound == HooksOrderly => HC!HooksSound
<1> SUFFICES ASSUME HooksOrderly PROVE HC!RemindedOnce
  BY DEF HooksOrderly, HC!HooksSound
<1>1. HC!Nudges = {HC!Builtins[2], HC!Builtins[3]}
  BY Places DEF HC!Nudges
<1> QED
  BY <1>1 DEF HooksOrderly, Reminded, HC!RemindedOnce

(* Whatever the commands of hooks.json do - exit, fail to start, hang, close *)
(* after their timer - each hook of a dispatch leaves one result in order of *)
(* registration, a command blocks only by how its own process closed, and a  *)
(* streak is answered by one reminder (hooks.ts, userHooks.ts,               *)
(* builtinHooks.ts).                                                         *)
THEOREM HooksCorrect == ASSUME HC!Registered PROVE HC!Spec => []HC!HooksSound
<1>1. HC!Init => HooksOrderly
  BY InitOrderly
<1>2. HooksOrderly /\ [HC!Next]_(HC!vars) => HooksOrderly'
  BY StepOrderly
<1> QED
  BY <1>1, <1>2, OrderlySound, PTL DEF HC!Spec

-----------------------------------------------------------------------------
(* Artifacts index. A record of the index alone is followed from the index   *)
(* into the lines a rewrite carries and back (Held), which is possible as    *)
(* long as rewrites do not overlap (OneWriter); a rebuild nobody disturbed is*)
(* followed scan by scan (Undisturbed).                                      *)

(* No two rewrites overlap once there is a record to lose.                   *)
OneWriter == recorded # {} => \A j, k \in AI!Running : j = k

(* Between the removal and the end of a rebuild the index ends with a whole  *)
(* line: nothing but a crash cuts one short, and a crash ends the rebuild.   *)
Untorn == \A j \in Jobs : job[j].pc \in {"scanning", "keeping"} => ~torn

(* What keeps a record while a rewrite is under way: the index, until it is  *)
(* removed, and the lines the rewrite holds.                                 *)
Carries(j, i) ==
  CASE job[j].pc \in {"reading", "cleaning"} -> AI!Entry(i) \in index
    [] job[j].pc \in {"removing", "scanning"} -> AI!Entry(i) \in job[j].kept
    [] job[j].pc = "keeping" -> AI!Entry(i) \in index \cup job[j].kept
    [] OTHER -> AI!Entry(i) \in index /\ AI!Entry(i) \in job[j].lines

(* A record that reached the index beside no rewrite's read and write is in  *)
(* it, or in every rewrite under way.                                        *)
Held ==
  \A i \in recorded :
    SessionOf[i] \notin deleted =>
      /\ AI!Running = {} => AI!Entry(i) \in index
      /\ \A j \in AI!Running : Carries(j, i)

(* What a scan of the first n sessions brings back.                          *)
Found(n) ==
  {AI!Entry(i) : i \in {i \in stored : \E m \in 1..n : SessionOf[i] = SessionFiles[m]}}
    \cup {AI!Patch(i) : i \in {i \in superseded : \E m \in 1..n : SessionOf[i] = SessionFiles[m]}}

(* A rebuild that met no other writer holds what it scanned, then the index  *)
(* does.                                                                     *)
Undisturbed(j) ==
  job[j].alone =>
    /\ AI!Running = {j}
    /\ job[j].pc = "scanning" => index = {} /\ job[j].lines = Found(job[j].scanned)
    /\ job[j].pc = "keeping" => index = Found(Len(SessionFiles))

(* A rebuild carries records only, and scans from the start; a cleanup is for*)
(* a deleted session.                                                        *)
Prepared(j) ==
  /\ job[j].kept \subseteq {AI!Entry(i) : i \in Records}
  /\ job[j].pc \in {"reading", "removing"} => job[j].lines = {} /\ job[j].scanned = 0
  /\ job[j].pc = "cleaning" => job[j].session \in deleted

(* The inductive invariant of the index.                                     *)
IndexSound ==
  /\ AI!TypeOK /\ superseded \subseteq stored
  /\ OneWriter /\ Untorn /\ Held
  /\ \A j \in Jobs : Undisturbed(j) /\ Prepared(j)
  /\ restored => AI!Running = {} /\ AI!RebuildRestores

(* Entries and patches are told apart, and so are the items they are about.  *)
LEMMA LineFacts ==
  ASSUME AI!Separate
  PROVE  /\ \A i : /\ (AI!Entry(i))[1] = "entry" /\ (AI!Entry(i))[2] = i
                   /\ (AI!Patch(i))[1] = "patch" /\ (AI!Patch(i))[2] = i
         /\ \A i, k : /\ AI!Entry(i) # AI!Patch(k)
                      /\ AI!Entry(i) = AI!Entry(k) => i = k
                      /\ AI!Patch(i) = AI!Patch(k) => i = k
         /\ \A i : AI!Of(AI!Entry(i)) = SessionOf[i]
         /\ \A i \in AI!Items : AI!Entry(i) \in AI!Lines
         /\ \A i \in Messages : AI!Patch(i) \in AI!Lines
  BY DEF AI!Entry, AI!Patch, AI!Of, AI!Lines

(* A writer disturbs the jobs under way and changes nothing else of them.    *)
LEMMA DisturbedFields ==
  ASSUME AI!TypeOK, \A j \in Jobs : Undisturbed(j)
  PROVE  /\ AI!Disturbed \in [Jobs -> AI!JobStates]
         /\ \A j \in Jobs :
              /\ AI!Disturbed[j].pc = job[j].pc /\ AI!Disturbed[j].session = job[j].session
              /\ AI!Disturbed[j].kept = job[j].kept /\ AI!Disturbed[j].lines = job[j].lines
              /\ AI!Disturbed[j].scanned = job[j].scanned /\ AI!Disturbed[j].alone = FALSE
<1> SUFFICES ASSUME NEW j \in Jobs
             PROVE  /\ AI!Disturbed[j] \in AI!JobStates
                    /\ AI!Disturbed[j].pc = job[j].pc /\ AI!Disturbed[j].session = job[j].session
                    /\ AI!Disturbed[j].kept = job[j].kept /\ AI!Disturbed[j].lines = job[j].lines
                    /\ AI!Disturbed[j].scanned = job[j].scanned /\ AI!Disturbed[j].alone = FALSE
  BY DEF AI!Disturbed
<1>1. job[j] \in AI!JobStates
  BY DEF AI!TypeOK
<1>2. CASE j \in AI!Running
  <2>1. AI!Disturbed[j] = [job[j] EXCEPT !.alone = FALSE]
    BY <1>2 DEF AI!Disturbed
  <2> QED
    BY <1>1, <2>1 DEF AI!JobStates
<1>3. CASE j \notin AI!Running
  <2>1. AI!Disturbed[j] = job[j]
    BY <1>3 DEF AI!Disturbed
  <2>2. job[j].alone = FALSE
    BY <1>1, <1>3 DEF Undisturbed, AI!JobStates
  <2> QED
    BY <1>1, <2>1, <2>2
<1> QED
  BY <1>2, <1>3

(* Steps beside the rewrites that take no line from the index.               *)
LEMMA QuietSound ==
  ASSUME IndexSound, AI!TypeOK', job' = AI!Disturbed, restored' = FALSE, deleted' = deleted,
         index \subseteq index', torn' => torn, superseded' \subseteq stored',
         \A i \in recorded' : i \in recorded \/ (AI!Unrewritten /\ AI!Entry(i) \in index')
  PROVE  IndexSound'
<1>1. AI!TypeOK /\ \A j \in Jobs : Undisturbed(j) /\ Prepared(j)
  BY DEF IndexSound
<1>2. \A j \in Jobs :
        /\ job'[j].pc = job[j].pc /\ job'[j].session = job[j].session
        /\ job'[j].kept = job[j].kept /\ job'[j].lines = job[j].lines
        /\ job'[j].scanned = job[j].scanned /\ job'[j].alone = FALSE
  BY <1>1, DisturbedFields
<1>3. AI!Running' = AI!Running
  BY <1>2 DEF AI!Running
<1>4. OneWriter' /\ Untorn'
  BY <1>2, <1>3 DEF OneWriter, Untorn, IndexSound, AI!Unrewritten
<1>5. ASSUME NEW i \in recorded', SessionOf[i] \notin deleted
      PROVE  /\ AI!Running' = {} => AI!Entry(i) \in index'
             /\ \A j \in AI!Running' : Carries(j, i)'
  <2>1. CASE i \in recorded
    <3>1. /\ AI!Running = {} => AI!Entry(i) \in index
          /\ \A j \in AI!Running : Carries(j, i)
      BY <1>5, <2>1 DEF IndexSound, Held
    <3>2. ASSUME NEW j \in AI!Running PROVE Carries(j, i)'
      <4>1. Carries(j, i) /\ j \in Jobs
        BY <3>1 DEF AI!Running
      <4> QED
        BY <4>1, <1>2 DEF Carries
    <3> QED
      BY <3>1, <3>2, <1>3
  <2>2. CASE i \notin recorded
    <3>1. AI!Unrewritten /\ AI!Entry(i) \in index'
      BY <1>5, <2>2
    <3>2. ASSUME NEW j \in AI!Running PROVE Carries(j, i)'
      <4>1. job[j].pc \in {"reading", "cleaning", "keeping"}
        BY <1>1, <3>1 DEF AI!Unrewritten, AI!Running, AI!TypeOK, AI!JobStates
      <4> QED
        BY <1>2, <3>1, <4>1 DEF Carries, AI!Running
    <3> QED
      BY <3>1, <3>2, <1>3
  <2> QED
    BY <2>1, <2>2
<1>6. Held'
  BY <1>5 DEF Held
<1>7. \A j \in Jobs : Undisturbed(j)' /\ Prepared(j)'
  BY <1>1, <1>2 DEF Undisturbed, Prepared
<1> QED
  BY <1>4, <1>6, <1>7 DEF IndexSound

(* A plan, a card or a file beside the transcript is captured.               *)
LEMMA CaptureSound ==
  ASSUME AI!Separate, IndexSound, NEW i \in AI!Items, AI!Capture(i)
  PROVE  IndexSound'
<1>1. AI!TypeOK /\ \A j \in Jobs : Undisturbed(j)
  BY DEF IndexSound
<1>2. AI!TypeOK'
  <2>1. AI!Entry(i) \in AI!Lines
    BY LineFacts
  <2>2. job' \in [Jobs -> AI!JobStates]
    BY <1>1, DisturbedFields DEF AI!Capture
  <2> QED
    BY <1>1, <2>1, <2>2 DEF AI!TypeOK, AI!Capture
<1> QED
  BY <1>2, QuietSound DEF AI!Capture, IndexSound

(* A plan is superseded.                                                     *)
LEMMA SupersedeSound ==
  ASSUME AI!Separate, IndexSound, NEW i \in AI!Items, AI!Supersede(i)
  PROVE  IndexSound'
<1>1. AI!TypeOK /\ \A j \in Jobs : Undisturbed(j)
  BY DEF IndexSound
<1>2. AI!TypeOK'
  <2>1. AI!Patch(i) \in AI!Lines
    BY LineFacts DEF AI!Supersede
  <2>2. job' \in [Jobs -> AI!JobStates]
    BY <1>1, DisturbedFields DEF AI!Supersede
  <2> QED
    BY <1>1, <2>1, <2>2 DEF AI!TypeOK, AI!Supersede
<1> QED
  BY <1>2, QuietSound DEF AI!Supersede, IndexSound

(* An export or a change set is recorded.                                    *)
LEMMA RecordSound ==
  ASSUME AI!Separate, IndexSound, NEW i \in AI!Items, AI!Record(i)
  PROVE  IndexSound'
<1>1. AI!TypeOK /\ \A j \in Jobs : Undisturbed(j)
  BY DEF IndexSound
<1>2. AI!TypeOK'
  <2>1. AI!Entry(i) \in AI!Lines
    BY LineFacts
  <2>2. job' \in [Jobs -> AI!JobStates]
    BY <1>1, DisturbedFields DEF AI!Record
  <2> QED
    BY <1>1, <2>1, <2>2 DEF AI!TypeOK, AI!Record
<1> QED
  BY <1>2, QuietSound DEF AI!Record, IndexSound

(* A line reaches the index, is glued to one cut short, or is lost.          *)
LEMMA AppendSound ==
  ASSUME AI!Separate, IndexSound, NEW l \in pending, NEW written \in BOOLEAN,
         AI!AppendLine(l, written)
  PROVE  IndexSound'
<1>1. AI!TypeOK /\ (\A j \in Jobs : Undisturbed(j)) /\ l \in AI!Lines
  BY DEF IndexSound, AI!TypeOK
<1>2. /\ job' = AI!Disturbed /\ restored' = FALSE /\ pending' = pending \ {l}
      /\ UNCHANGED <<stored, superseded, deleted>>
  BY DEF AI!AppendLine
<1>3. job' \in [Jobs -> AI!JobStates]
  BY <1>1, <1>2, DisturbedFields
<1>4. CASE written
  <2>1. /\ index' = IF torn THEN index ELSE index \cup {l}
        /\ torn' = FALSE
        /\ recorded' = IF AI!Unrewritten /\ ~torn
                       THEN recorded \cup ({l[2]} \cap Records) ELSE recorded
    BY <1>4 DEF AI!AppendLine
  <2>2. l[2] \in Records => l = AI!Entry(l[2])
    BY <1>1 DEF AI!Lines, AI!Entry, AI!Patch, AI!Separate
  <2>3. \A i \in recorded' : i \in recorded \/ (AI!Unrewritten /\ AI!Entry(i) \in index')
    BY <2>1, <2>2
  <2>4. AI!TypeOK'
    BY <1>1, <1>2, <1>3, <2>1 DEF AI!TypeOK
  <2> QED
    BY <1>2, <2>1, <2>3, <2>4, QuietSound DEF IndexSound
<1>5. CASE ~written
  <2>1. UNCHANGED <<index, torn, recorded>>
    BY <1>5 DEF AI!AppendLine
  <2>2. AI!TypeOK'
    BY <1>1, <1>2, <1>3, <2>1 DEF AI!TypeOK
  <2> QED
    BY <1>2, <2>1, <2>2, QuietSound DEF IndexSound
<1> QED
  BY <1>4, <1>5

(* A rewrite starts, alone or not.                                           *)
LEMMA StartSound ==
  ASSUME AI!Separate, IndexSound, NEW j \in Jobs, NEW pc \in {"reading", "cleaning"},
         NEW s \in AI!SessionIds \cup {"none"}, AI!Start(j, pc, s),
         UNCHANGED <<index, torn, pending>>, deleted \subseteq deleted', deleted' \subseteq AI!SessionIds,
         pc = "cleaning" => s \in deleted',
         stored' \subseteq stored, superseded' \subseteq stored', superseded' \subseteq superseded
  PROVE  IndexSound'
<1> DEFINE q == [AI!NoJob EXCEPT !.pc = pc, !.session = s, !.alone = (AI!Running = {} /\ pending = {})]
<1>1. /\ AI!TypeOK /\ (\A k \in Jobs : Undisturbed(k) /\ Prepared(k))
      /\ job[j].pc = "idle" /\ job' = [AI!Disturbed EXCEPT ![j] = q]
      /\ recorded' = (IF AI!Running = {} THEN recorded ELSE {}) /\ restored' = FALSE
  BY DEF IndexSound, AI!Start
<1>2. 0 \in 0..Len(SessionFiles)
  BY DEF AI!Separate
<1>3. /\ q.pc = pc /\ q.session = s /\ q.kept = {} /\ q.lines = {} /\ q.scanned = 0
      /\ q.alone = (AI!Running = {} /\ pending = {}) /\ q \in AI!JobStates
  BY <1>2 DEF AI!NoJob, AI!JobStates
<1> HIDE DEF q
<1>4. /\ \A k \in Jobs \ {j} :
           /\ job'[k].pc = job[k].pc /\ job'[k].session = job[k].session
           /\ job'[k].kept = job[k].kept /\ job'[k].lines = job[k].lines
           /\ job'[k].scanned = job[k].scanned /\ job'[k].alone = FALSE
      /\ job'[j] = q /\ job' \in [Jobs -> AI!JobStates]
  BY <1>1, <1>3, DisturbedFields
<1>5. AI!Running' = AI!Running \cup {j} /\ j \notin AI!Running
  BY <1>1, <1>3, <1>4 DEF AI!Running
<1>6. AI!TypeOK'
  BY <1>1, <1>4 DEF AI!TypeOK
<1>7. OneWriter' /\ Untorn'
  BY <1>1, <1>3, <1>4, <1>5 DEF OneWriter, Untorn, IndexSound
<1>8. Held'
  <2> SUFFICES ASSUME NEW i \in recorded', SessionOf[i] \notin deleted'
               PROVE  \A k \in AI!Running' : Carries(k, i)'
    BY <1>5 DEF Held
  <2>1. AI!Running = {} /\ i \in recorded
    BY <1>1
  <2>2. AI!Entry(i) \in index
    BY <2>1 DEF Held, IndexSound
  <2>3. AI!Running' = {j} /\ job'[j].pc \in {"reading", "cleaning"}
    BY <1>3, <1>4, <1>5, <2>1
  <2> QED
    BY <2>2, <2>3 DEF Carries
<1>9. ASSUME NEW k \in Jobs PROVE Undisturbed(k)' /\ Prepared(k)'
  <2>1. CASE k = j
    BY <1>3, <1>4, <1>5, <2>1 DEF Undisturbed, Prepared
  <2>2. CASE k # j
    BY <1>1, <1>4, <2>2 DEF Undisturbed, Prepared
  <2> QED
    BY <2>1, <2>2
<1> QED
  BY <1>1, <1>6, <1>7, <1>8, <1>9 DEF IndexSound

(* The panel asks for a rebuild.                                             *)
LEMMA RebuildSound ==
  ASSUME AI!Separate, IndexSound, NEW j \in Jobs, AI!Rebuild(j)
  PROVE  IndexSound'
<1>1. /\ AI!Start(j, "reading", "none") /\ UNCHANGED <<index, torn, pending>>
      /\ UNCHANGED <<stored, superseded, deleted>>
  BY DEF AI!Rebuild
<1>2. superseded' \subseteq stored' /\ deleted' \subseteq AI!SessionIds
  BY <1>1 DEF IndexSound, AI!TypeOK
<1> QED
  BY <1>1, <1>2, StartSound

(* A session is deleted, and a cleanup starts.                               *)
LEMMA DeleteSound ==
  ASSUME AI!Separate, IndexSound, NEW j \in Jobs, NEW s \in AI!SessionIds, AI!Delete(j, s)
  PROVE  IndexSound'
<1>1. /\ AI!Start(j, "cleaning", s) /\ UNCHANGED <<index, torn, pending>>
      /\ deleted' = deleted \cup {s} /\ stored' = {i \in stored : SessionOf[i] # s}
      /\ superseded' = {i \in superseded : SessionOf[i] # s}
  BY DEF AI!Delete
<1>2. superseded' \subseteq stored' /\ deleted' \subseteq AI!SessionIds
  BY <1>1 DEF IndexSound, AI!TypeOK
<1> QED
  BY <1>1, <1>2, StartSound

(* A rebuild reads what it has to carry over.                                *)
LEMMA KeepSound ==
  ASSUME AI!Separate, IndexSound, NEW j \in Jobs, AI!KeepRecords(j)
  PROVE  IndexSound'
<1> DEFINE salvage == {l \in index : l[1] = "entry" /\ l[2] \in Records}
<1>1. /\ AI!TypeOK /\ (\A k \in Jobs : Undisturbed(k) /\ Prepared(k)) /\ job[j].pc = "reading"
      /\ job' = [job EXCEPT ![j].pc = "removing", ![j].kept = salvage]
      /\ UNCHANGED <<stored, superseded, deleted, index, torn, pending, recorded, restored>>
  BY DEF IndexSound, AI!KeepRecords
<1>2. salvage \subseteq {AI!Entry(i) : i \in Records} /\ salvage \subseteq AI!Lines
  BY <1>1 DEF AI!TypeOK, AI!Lines, AI!Entry, AI!Patch
<1>3. \A i \in recorded : AI!Entry(i) \in index => AI!Entry(i) \in salvage
  BY <1>1, LineFacts DEF AI!TypeOK
<1> HIDE DEF salvage
<1>4. /\ job' \in [Jobs -> AI!JobStates]
      /\ job'[j].pc = "removing" /\ job'[j].kept = salvage /\ job'[j].lines = job[j].lines
      /\ job'[j].scanned = job[j].scanned /\ job'[j].alone = job[j].alone
      /\ \A k \in Jobs \ {j} : job'[k] = job[k]
  <2> DEFINE q == [job[j] EXCEPT !.pc = "removing", !.kept = salvage]
  <2>1. q \in AI!JobStates
    BY <1>1, <1>2 DEF AI!TypeOK, AI!JobStates
  <2>2. job' = [k \in Jobs |-> IF k = j THEN q ELSE job[k]]
    BY <1>1 DEF AI!TypeOK
  <2>3. /\ job' \in [Jobs -> AI!JobStates] /\ job'[j] = q
        /\ \A k \in Jobs \ {j} : job'[k] = job[k]
    <3> HIDE DEF q
    <3> QED
      BY <1>1, <2>1, <2>2 DEF AI!TypeOK
  <2> QED
    BY <1>1, <2>3 DEF AI!TypeOK, AI!JobStates
<1>5. AI!Running' = AI!Running /\ j \in AI!Running
  BY <1>1, <1>4 DEF AI!Running
<1>6. AI!TypeOK'
  BY <1>1, <1>4 DEF AI!TypeOK
<1>7. OneWriter' /\ Untorn'
  BY <1>1, <1>4, <1>5 DEF OneWriter, Untorn, IndexSound
<1>8. Held'
  <2> SUFFICES ASSUME NEW i \in recorded, SessionOf[i] \notin deleted
               PROVE  \A k \in AI!Running : Carries(k, i)'
    BY <1>1, <1>5 DEF Held
  <2>1. \A k \in AI!Running : Carries(k, i)
    BY DEF Held, IndexSound
  <2>2. AI!Running = {j}
    BY <1>5 DEF OneWriter, IndexSound
  <2> QED
    BY <1>1, <1>3, <1>4, <2>1, <2>2 DEF Carries
<1>9. ASSUME NEW k \in Jobs PROVE Undisturbed(k)' /\ Prepared(k)'
  <2>1. CASE k = j
    BY <1>1, <1>2, <1>4, <1>5, <2>1 DEF Undisturbed, Prepared
  <2>2. CASE k # j
    BY <1>1, <1>4, <1>5, <2>2 DEF Undisturbed, Prepared, Found
  <2> QED
    BY <2>1, <2>2
<1>10. ~restored
  BY <1>5 DEF IndexSound
<1> QED
  BY <1>1, <1>6, <1>7, <1>8, <1>9, <1>10 DEF IndexSound

(* A rebuild removes the index.                                              *)
LEMMA RemoveSound ==
  ASSUME AI!Separate, IndexSound, NEW j \in Jobs, AI!RemoveIndex(j)
  PROVE  IndexSound'
<1>1. /\ AI!TypeOK /\ (\A k \in Jobs : Undisturbed(k) /\ Prepared(k)) /\ job[j].pc = "removing"
      /\ job' = [job EXCEPT ![j].pc = "scanning"] /\ index' = {} /\ torn' = FALSE
      /\ UNCHANGED <<stored, superseded, deleted, pending, recorded, restored>>
  BY DEF IndexSound, AI!RemoveIndex
<1>4. /\ job' \in [Jobs -> AI!JobStates]
      /\ job'[j].pc = "scanning" /\ job'[j].kept = job[j].kept /\ job'[j].lines = job[j].lines
      /\ job'[j].scanned = job[j].scanned /\ job'[j].alone = job[j].alone
      /\ \A k \in Jobs \ {j} : job'[k] = job[k]
  BY <1>1 DEF AI!TypeOK, AI!JobStates
<1>5. AI!Running' = AI!Running /\ j \in AI!Running
  BY <1>1, <1>4 DEF AI!Running
<1>6. AI!TypeOK'
  BY <1>1, <1>4 DEF AI!TypeOK
<1>7. OneWriter' /\ Untorn'
  BY <1>1, <1>4, <1>5 DEF OneWriter, Untorn, IndexSound
<1>8. Held'
  <2> SUFFICES ASSUME NEW i \in recorded, SessionOf[i] \notin deleted
               PROVE  \A k \in AI!Running : Carries(k, i)'
    BY <1>1, <1>5 DEF Held
  <2>1. \A k \in AI!Running : Carries(k, i)
    BY DEF Held, IndexSound
  <2>2. AI!Running = {j}
    BY <1>5 DEF OneWriter, IndexSound
  <2> QED
    BY <1>1, <1>4, <2>1, <2>2 DEF Carries
<1>9. ASSUME NEW k \in Jobs PROVE Undisturbed(k)' /\ Prepared(k)'
  <2>1. CASE k = j
    <3>1. job[j].lines = {} /\ job[j].scanned = 0
      BY <1>1 DEF Prepared
    <3>2. Found(0)' = {}
      BY DEF Found
    <3>3. job[j].alone => AI!Running = {j}
      BY <1>1 DEF Undisturbed
    <3>4. Found(job[j].scanned)' = {}
      BY <1>4, <3>1, <3>2 DEF Found
    <3>5. Undisturbed(j)'
      BY <1>1, <1>4, <1>5, <3>1, <3>3, <3>4 DEF Undisturbed
    <3>6. Prepared(j)'
      BY <1>1, <1>4 DEF Prepared
    <3> QED
      BY <2>1, <3>5, <3>6
  <2>2. CASE k # j
    BY <1>1, <1>4, <1>5, <2>2 DEF Undisturbed, Prepared
  <2> QED
    BY <2>1, <2>2
<1>10. ~restored
  BY <1>5 DEF IndexSound
<1> QED
  BY <1>1, <1>6, <1>7, <1>8, <1>9, <1>10 DEF IndexSound

(* A scan adds what the next session holds.                                  *)
LEMMA FoundMore ==
  ASSUME AI!Separate, NEW n \in Nat, n < Len(SessionFiles)
  PROVE  Found(n + 1) = Found(n) \cup AI!Extracted(SessionFiles[n + 1])
<1>1. 1..(n + 1) = (1..n) \cup {n + 1}
  OBVIOUS
<1>2. \A i : (\E m \in 1..(n + 1) : SessionOf[i] = SessionFiles[m])
              <=> (\E m \in 1..n : SessionOf[i] = SessionFiles[m]) \/ SessionOf[i] = SessionFiles[n + 1]
  BY <1>1
<1> QED
  BY <1>2 DEF Found, AI!Extracted

(* A rebuild scans one session.                                              *)
LEMMA ScanSound ==
  ASSUME AI!Separate, IndexSound, NEW j \in Jobs, AI!ScanSession(j)
  PROVE  IndexSound'
<1>0. PICK n \in Nat : n = job[j].scanned
  BY DEF AI!ScanSession, IndexSound, AI!TypeOK, AI!JobStates, AI!Separate
<1> DEFINE lines == job[j].lines \cup AI!Extracted(SessionFiles[n + 1])
<1>1. /\ AI!TypeOK /\ (\A k \in Jobs : Undisturbed(k) /\ Prepared(k)) /\ job[j].pc = "scanning"
      /\ n < Len(SessionFiles) /\ job' = [job EXCEPT ![j].scanned = n + 1, ![j].lines = lines]
      /\ UNCHANGED <<stored, superseded, deleted, index, torn, pending, recorded, restored>>
  BY <1>0 DEF IndexSound, AI!ScanSession
<1>2. n \in Nat /\ n + 1 \in 0..Len(SessionFiles)
  BY <1>0, <1>1 DEF AI!TypeOK, AI!JobStates, AI!Separate
<1>3. lines \subseteq AI!Lines
  BY <1>1 DEF AI!TypeOK, AI!JobStates, AI!Extracted, AI!Lines, AI!Items
<1> HIDE DEF lines
<1>4. /\ job' \in [Jobs -> AI!JobStates]
      /\ job'[j].pc = "scanning" /\ job'[j].kept = job[j].kept /\ job'[j].lines = lines
      /\ job'[j].scanned = n + 1 /\ job'[j].alone = job[j].alone
      /\ \A k \in Jobs \ {j} : job'[k] = job[k]
  <2> DEFINE q == [job[j] EXCEPT !.scanned = n + 1, !.lines = lines]
  <2>1. q \in AI!JobStates
    BY <1>1, <1>2, <1>3 DEF AI!TypeOK, AI!JobStates
  <2>2. job' = [k \in Jobs |-> IF k = j THEN q ELSE job[k]]
    BY <1>1 DEF AI!TypeOK
  <2>3. /\ job' \in [Jobs -> AI!JobStates] /\ job'[j] = q
        /\ \A k \in Jobs \ {j} : job'[k] = job[k]
    <3> HIDE DEF q
    <3> QED
      BY <1>1, <2>1, <2>2 DEF AI!TypeOK
  <2> QED
    BY <1>1, <2>3 DEF AI!TypeOK, AI!JobStates
<1>5. AI!Running' = AI!Running /\ j \in AI!Running
  BY <1>1, <1>4 DEF AI!Running
<1>6. AI!TypeOK'
  BY <1>1, <1>4 DEF AI!TypeOK
<1>7. OneWriter' /\ Untorn'
  BY <1>1, <1>4, <1>5 DEF OneWriter, Untorn, IndexSound
<1>8. Held'
  <2> SUFFICES ASSUME NEW i \in recorded, SessionOf[i] \notin deleted
               PROVE  \A k \in AI!Running : Carries(k, i)'
    BY <1>1, <1>5 DEF Held
  <2>1. \A k \in AI!Running : Carries(k, i)
    BY DEF Held, IndexSound
  <2>2. AI!Running = {j}
    BY <1>5 DEF OneWriter, IndexSound
  <2> QED
    BY <1>1, <1>4, <2>1, <2>2 DEF Carries
<1>9. ASSUME NEW k \in Jobs PROVE Undisturbed(k)' /\ Prepared(k)'
  <2>1. CASE k = j
    <3>1. Found(n + 1) = Found(n) \cup AI!Extracted(SessionFiles[n + 1])
      BY <1>1, <1>2, FoundMore
    <3>2. Found(n + 1)' = Found(n + 1)
      BY <1>1 DEF Found
    <3>3. Prepared(k)'
      BY <1>1, <1>4, <2>1 DEF Prepared
    <3>4. ASSUME job'[j].alone PROVE Undisturbed(j)'
      <4>1. AI!Running = {j} /\ index = {} /\ job[j].lines = Found(n)
        BY <1>0, <1>1, <1>4, <3>4 DEF Undisturbed
      <4>2. lines = Found(n + 1)'
        BY <3>1, <3>2, <4>1 DEF lines
      <4>3. Found(job[j].scanned)' = Found(n + 1)'
        BY <1>4 DEF Found
      <4> QED
        BY <1>1, <1>4, <1>5, <4>1, <4>2, <4>3 DEF Undisturbed
    <3>5. ~job'[j].alone => Undisturbed(j)'
      BY DEF Undisturbed
    <3> QED
      BY <2>1, <3>3, <3>4, <3>5
  <2>2. CASE k # j
    BY <1>1, <1>4, <1>5, <2>2 DEF Undisturbed, Prepared
  <2> QED
    BY <2>1, <2>2
<1>10. ~restored
  BY <1>5 DEF IndexSound
<1> QED
  BY <1>1, <1>6, <1>7, <1>8, <1>9, <1>10 DEF IndexSound

(* A rebuild writes what it scanned.                                         *)
LEMMA WriteSound ==
  ASSUME AI!Separate, IndexSound, NEW j \in Jobs, AI!WriteScanned(j)
  PROVE  IndexSound'
<1>1. /\ AI!TypeOK /\ (\A k \in Jobs : Undisturbed(k) /\ Prepared(k)) /\ job[j].pc = "scanning"
      /\ job[j].scanned = Len(SessionFiles) /\ job' = [job EXCEPT ![j].pc = "keeping"]
      /\ UNCHANGED <<stored, superseded, deleted, pending, recorded, restored>>
  BY DEF IndexSound, AI!WriteScanned
<1>2. \/ job[j].lines = {} /\ index' = index /\ torn' = torn
      \/ index' = job[j].lines /\ torn' = FALSE
  BY DEF AI!WriteScanned
<1>4. /\ job' \in [Jobs -> AI!JobStates]
      /\ job'[j].pc = "keeping" /\ job'[j].kept = job[j].kept /\ job'[j].lines = job[j].lines
      /\ job'[j].scanned = job[j].scanned /\ job'[j].alone = job[j].alone
      /\ \A k \in Jobs \ {j} : job'[k] = job[k]
  BY <1>1 DEF AI!TypeOK, AI!JobStates
<1>5. AI!Running' = AI!Running /\ j \in AI!Running
  BY <1>1, <1>4 DEF AI!Running
<1>6. AI!TypeOK'
  BY <1>1, <1>2, <1>4 DEF AI!TypeOK, AI!JobStates
<1>7. OneWriter' /\ Untorn'
  BY <1>1, <1>2, <1>4, <1>5 DEF OneWriter, Untorn, IndexSound
<1>8. Held'
  <2> SUFFICES ASSUME NEW i \in recorded, SessionOf[i] \notin deleted
               PROVE  \A k \in AI!Running : Carries(k, i)'
    BY <1>1, <1>5 DEF Held
  <2>1. \A k \in AI!Running : Carries(k, i)
    BY DEF Held, IndexSound
  <2>2. AI!Running = {j}
    BY <1>5 DEF OneWriter, IndexSound
  <2> QED
    BY <1>1, <1>4, <2>1, <2>2 DEF Carries
<1>9. ASSUME NEW k \in Jobs PROVE Undisturbed(k)' /\ Prepared(k)'
  <2>1. CASE k = j
    <3>1. Found(Len(SessionFiles))' = Found(Len(SessionFiles))
      BY <1>1 DEF Found
    <3>2. job[j].alone => index' = Found(Len(SessionFiles))
      BY <1>1, <1>2 DEF Undisturbed
    <3> QED
      BY <1>1, <1>4, <1>5, <2>1, <3>1, <3>2 DEF Undisturbed, Prepared
  <2>2. CASE k # j
    BY <1>1, <1>4, <1>5, <2>2 DEF Undisturbed, Prepared
  <2> QED
    BY <2>1, <2>2
<1>10. ~restored
  BY <1>5 DEF IndexSound
<1> QED
  BY <1>1, <1>6, <1>7, <1>8, <1>9, <1>10 DEF IndexSound

(* What ends with a rewrite.                                                 *)
LEMMA OverFields ==
  ASSUME AI!Separate, AI!TypeOK, NEW j \in Jobs, j \in AI!Running, AI!Over(j)
  PROVE  /\ job' \in [Jobs -> AI!JobStates] /\ AI!Running' = AI!Running \ {j}
         /\ job'[j].pc = "over" /\ job'[j].kept = {} /\ job'[j].alone = FALSE
         /\ \A k \in Jobs \ {j} : job'[k] = job[k]
<1> DEFINE q == [AI!NoJob EXCEPT !.pc = "over"]
<1>1. 0 \in 0..Len(SessionFiles)
  BY DEF AI!Separate
<1>2. q \in AI!JobStates /\ q.pc = "over" /\ q.kept = {} /\ q.alone = FALSE
  BY <1>1 DEF AI!NoJob, AI!JobStates
<1>3. job' = [job EXCEPT ![j] = q]
  BY DEF AI!Over
<1> HIDE DEF q
<1>4. /\ job' \in [Jobs -> AI!JobStates] /\ job'[j] = q
      /\ \A k \in Jobs \ {j} : job'[k] = job[k]
  BY <1>2, <1>3 DEF AI!TypeOK
<1> QED
  BY <1>2, <1>4 DEF AI!Running

(* A rewrite ends with the index whole.                                      *)
LEMMA OverSound ==
  ASSUME AI!Separate, IndexSound, NEW j \in Jobs, j \in AI!Running, AI!Over(j),
         index' \subseteq AI!Lines, torn' \in BOOLEAN, torn' => torn,
         UNCHANGED <<stored, superseded, deleted, pending, recorded>>,
         \A i \in recorded : SessionOf[i] \notin deleted /\ AI!Running = {j} => AI!Entry(i) \in index',
         restored' => AI!RebuildRestores'
  PROVE  IndexSound'
<1>1. AI!TypeOK /\ \A k \in Jobs : Undisturbed(k) /\ Prepared(k)
  BY DEF IndexSound
<1>2. /\ job' \in [Jobs -> AI!JobStates] /\ AI!Running' = AI!Running \ {j}
      /\ job'[j].pc = "over" /\ job'[j].kept = {} /\ job'[j].alone = FALSE
      /\ \A k \in Jobs \ {j} : job'[k] = job[k]
  BY <1>1, OverFields
<1>3. restored' = (job[j].pc = "keeping" /\ job[j].alone)
  BY DEF AI!Over
<1>4. AI!TypeOK'
  BY <1>1, <1>2, <1>3 DEF AI!TypeOK, AI!JobStates
<1>5. OneWriter' /\ Untorn'
  BY <1>2 DEF OneWriter, Untorn, IndexSound
<1>6. Held'
  <2> SUFFICES ASSUME NEW i \in recorded, SessionOf[i] \notin deleted
               PROVE  /\ AI!Running' = {} => AI!Entry(i) \in index'
                      /\ \A k \in AI!Running' : Carries(k, i)'
    BY DEF Held
  <2>1. AI!Running = {j}
    BY DEF OneWriter, IndexSound
  <2> QED
    BY <1>2, <2>1
<1>7. ASSUME NEW k \in Jobs PROVE Undisturbed(k)' /\ Prepared(k)'
  <2>1. CASE k = j
    BY <1>2, <2>1 DEF Undisturbed, Prepared
  <2>2. CASE k # j
    <3>1. ~job[k].alone
      BY <1>1, <2>2 DEF Undisturbed
    <3> QED
      BY <1>1, <1>2, <2>2, <3>1 DEF Undisturbed, Prepared
  <2> QED
    BY <2>1, <2>2
<1>8. restored' => AI!Running' = {}
  BY <1>1, <1>2, <1>3 DEF Undisturbed
<1>9. superseded' \subseteq stored'
  BY DEF IndexSound
<1> QED
  BY <1>4, <1>5, <1>6, <1>7, <1>8, <1>9 DEF IndexSound

(* A rebuild appends what it carried, and ends.                              *)
LEMMA AppendKeptSound ==
  ASSUME AI!Separate, IndexSound, NEW j \in Jobs, AI!AppendKept(j)
  PROVE  IndexSound'
<1>1. /\ AI!TypeOK /\ (\A k \in Jobs : Undisturbed(k) /\ Prepared(k)) /\ job[j].pc = "keeping" /\ ~torn
      /\ index' = index \cup job[j].kept /\ torn' = FALSE /\ AI!Over(j) /\ j \in AI!Running
      /\ UNCHANGED <<stored, superseded, deleted, pending, recorded>>
  BY DEF IndexSound, AI!AppendKept, Untorn, AI!Running
<1>2. index' \subseteq AI!Lines
  BY <1>1 DEF AI!TypeOK, AI!JobStates
<1>3. \A i \in recorded : SessionOf[i] \notin deleted => AI!Entry(i) \in index'
  BY <1>1 DEF IndexSound, Held, Carries
<1>4. ASSUME restored' PROVE AI!RebuildRestores'
  <2>1. job[j].alone
    BY <1>1, <1>4 DEF AI!Over
  <2>2. index = Found(Len(SessionFiles)) /\ job[j].kept \subseteq {AI!Entry(i) : i \in Records}
    BY <1>1, <2>1 DEF Undisturbed, Prepared
  <2>3. \A i \in AI!Items : \E m \in 1..Len(SessionFiles) : SessionOf[i] = SessionFiles[m]
    BY DEF AI!Separate, AI!SessionIds
  <2>4. stored \subseteq AI!Items /\ stored \cap Records = {} /\ superseded \subseteq stored
    BY <1>1 DEF AI!TypeOK, AI!Items, AI!Separate, IndexSound
  <2>5. index = {AI!Entry(i) : i \in stored} \cup {AI!Patch(i) : i \in superseded}
    BY <2>2, <2>3, <2>4 DEF Found
  <2>6. \A i \in AI!Items \ Records : AI!Entry(i) \in index' <=> i \in stored
    BY <1>1, <2>2, <2>5, LineFacts
  <2>7. \A i : AI!Patch(i) \in index' <=> i \in superseded
    BY <1>1, <2>2, <2>5, LineFacts
  <2>8. (AI!Listed \ Records = stored)'
    BY <1>1, <2>4, <2>6 DEF AI!Listed
  <2>9. (AI!ListedSuperseded = superseded)'
    BY <1>1, <2>4, <2>6, <2>7 DEF AI!ListedSuperseded, AI!Listed
  <2> QED
    BY <2>8, <2>9 DEF AI!RebuildRestores
<1> QED
  BY <1>1, <1>2, <1>3, <1>4, OverSound

(* A cleanup reads the lines of the other sessions.                          *)
LEMMA ReadSound ==
  ASSUME AI!Separate, IndexSound, NEW j \in Jobs, AI!ReadOthers(j)
  PROVE  IndexSound'
<1> DEFINE lines == {l \in index : AI!Of(l) # job[j].session}
<1>1. /\ AI!TypeOK /\ (\A k \in Jobs : Undisturbed(k) /\ Prepared(k)) /\ job[j].pc = "cleaning"
      /\ job' = [job EXCEPT ![j].pc = "dropping", ![j].lines = lines]
      /\ UNCHANGED <<stored, superseded, deleted, index, torn, pending, recorded, restored>>
  BY DEF IndexSound, AI!ReadOthers
<1>2. lines \subseteq AI!Lines
  BY <1>1 DEF AI!TypeOK
<1>3. \A i \in recorded : SessionOf[i] \notin deleted /\ AI!Entry(i) \in index => AI!Entry(i) \in lines
  BY <1>1, LineFacts DEF Prepared
<1> HIDE DEF lines
<1>4. /\ job' \in [Jobs -> AI!JobStates]
      /\ job'[j].pc = "dropping" /\ job'[j].kept = job[j].kept /\ job'[j].lines = lines
      /\ job'[j].scanned = job[j].scanned /\ job'[j].alone = job[j].alone
      /\ \A k \in Jobs \ {j} : job'[k] = job[k]
  <2> DEFINE q == [job[j] EXCEPT !.pc = "dropping", !.lines = lines]
  <2>1. q \in AI!JobStates
    BY <1>1, <1>2 DEF AI!TypeOK, AI!JobStates
  <2>2. job' = [k \in Jobs |-> IF k = j THEN q ELSE job[k]]
    BY <1>1 DEF AI!TypeOK
  <2>3. /\ job' \in [Jobs -> AI!JobStates] /\ job'[j] = q
        /\ \A k \in Jobs \ {j} : job'[k] = job[k]
    <3> HIDE DEF q
    <3> QED
      BY <1>1, <2>1, <2>2 DEF AI!TypeOK
  <2> QED
    BY <1>1, <2>3 DEF AI!TypeOK, AI!JobStates
<1>5. AI!Running' = AI!Running /\ j \in AI!Running
  BY <1>1, <1>4 DEF AI!Running
<1>6. AI!TypeOK'
  BY <1>1, <1>4 DEF AI!TypeOK
<1>7. OneWriter' /\ Untorn'
  BY <1>1, <1>4, <1>5 DEF OneWriter, Untorn, IndexSound
<1>8. Held'
  <2> SUFFICES ASSUME NEW i \in recorded, SessionOf[i] \notin deleted
               PROVE  \A k \in AI!Running : Carries(k, i)'
    BY <1>1, <1>5 DEF Held
  <2>1. \A k \in AI!Running : Carries(k, i)
    BY DEF Held, IndexSound
  <2>2. AI!Running = {j}
    BY <1>5 DEF OneWriter, IndexSound
  <2> QED
    BY <1>1, <1>3, <1>4, <2>1, <2>2 DEF Carries
<1>9. ASSUME NEW k \in Jobs PROVE Undisturbed(k)' /\ Prepared(k)'
  <2>1. CASE k = j
    BY <1>1, <1>4, <1>5, <2>1 DEF Undisturbed, Prepared
  <2>2. CASE k # j
    BY <1>1, <1>4, <1>5, <2>2 DEF Undisturbed, Prepared
  <2> QED
    BY <2>1, <2>2
<1>10. ~restored
  BY <1>5 DEF IndexSound
<1> QED
  BY <1>1, <1>6, <1>7, <1>8, <1>9, <1>10 DEF IndexSound

(* A cleanup writes them back, and ends.                                     *)
LEMMA DropSound ==
  ASSUME AI!Separate, IndexSound, NEW j \in Jobs, AI!WriteOthers(j)
  PROVE  IndexSound'
<1>1. /\ AI!TypeOK /\ job[j].pc = "dropping" /\ index' = job[j].lines /\ torn' = FALSE /\ AI!Over(j)
      /\ j \in AI!Running /\ UNCHANGED <<stored, superseded, deleted, pending, recorded>>
  BY DEF IndexSound, AI!WriteOthers, AI!Running
<1>2. index' \subseteq AI!Lines
  BY <1>1 DEF AI!TypeOK, AI!JobStates
<1>3. \A i \in recorded : SessionOf[i] \notin deleted => AI!Entry(i) \in index'
  BY <1>1 DEF IndexSound, Held, Carries
<1>4. ~restored'
  BY <1>1 DEF AI!Over
<1> QED
  BY <1>1, <1>2, <1>3, <1>4, OverSound

(* The program ends in the middle of whatever is under way.                  *)
LEMMA CrashSound == ASSUME AI!Separate, IndexSound, AI!Crash PROVE IndexSound'
<1> DEFINE q == [AI!NoJob EXCEPT !.pc = "over"]
<1>1. /\ AI!TypeOK /\ (\A k \in Jobs : Undisturbed(k) /\ Prepared(k)) /\ superseded \subseteq stored
      /\ pending' = {} /\ torn' \in {torn, TRUE} /\ restored' = FALSE
      /\ job' = [j \in Jobs |-> IF j \in AI!Running THEN q ELSE job[j]]
      /\ recorded' = (IF AI!Running # {} THEN {} ELSE recorded)
      /\ UNCHANGED <<stored, superseded, deleted, index>>
  BY DEF IndexSound, AI!Crash
<1>2. 0 \in 0..Len(SessionFiles)
  BY DEF AI!Separate
<1>3. q \in AI!JobStates /\ q.pc = "over" /\ q.kept = {} /\ q.alone = FALSE
  BY <1>2 DEF AI!NoJob, AI!JobStates
<1> HIDE DEF q
<1>4. job' \in [Jobs -> AI!JobStates]
  BY <1>1, <1>3 DEF AI!TypeOK
<1>5. AI!Running' = {}
  BY <1>1, <1>3 DEF AI!Running
<1>6. AI!TypeOK'
  BY <1>1, <1>4 DEF AI!TypeOK
<1>7. OneWriter' /\ Untorn'
  BY <1>5 DEF OneWriter, Untorn, AI!Running
<1>8. Held'
  BY <1>1, <1>5 DEF Held, IndexSound
<1>9. ASSUME NEW k \in Jobs PROVE Undisturbed(k)' /\ Prepared(k)'
  <2>1. CASE k \in AI!Running
    BY <1>1, <1>3, <2>1 DEF Undisturbed, Prepared
  <2>2. CASE k \notin AI!Running
    BY <1>1, <2>2 DEF Undisturbed, Prepared
  <2> QED
    BY <2>1, <2>2
<1> QED
  BY <1>1, <1>6, <1>7, <1>8, <1>9 DEF IndexSound

(* An empty index.                                                           *)
LEMMA IndexInit == AI!Separate /\ AI!Init => IndexSound
<1> SUFFICES ASSUME AI!Separate, AI!Init PROVE IndexSound
  OBVIOUS
<1>1. 0 \in 0..Len(SessionFiles)
  BY DEF AI!Separate
<1>2. /\ AI!NoJob \in AI!JobStates /\ AI!NoJob.pc = "idle" /\ AI!NoJob.kept = {}
      /\ AI!NoJob.alone = FALSE
  BY <1>1 DEF AI!NoJob, AI!JobStates
<1>3. AI!TypeOK
  BY <1>2 DEF AI!Init, AI!TypeOK
<1>4. \A j \in Jobs : Undisturbed(j) /\ Prepared(j)
  BY <1>2 DEF AI!Init, Undisturbed, Prepared
<1>5. OneWriter /\ Untorn /\ Held
  BY <1>2 DEF AI!Init, OneWriter, Untorn, Held
<1> QED
  BY <1>3, <1>4, <1>5 DEF AI!Init, IndexSound

(* Every step keeps the invariant of the index.                              *)
LEMMA IndexStep == ASSUME AI!Separate, IndexSound, [AI!Next]_(AI!vars) PROVE IndexSound'
<1>1. CASE UNCHANGED AI!vars
  <2>1. UNCHANGED <<stored, superseded, deleted, index, torn, pending, job, recorded, restored>>
    BY <1>1 DEF AI!vars
  <2>2. AI!TypeOK' /\ OneWriter' /\ Untorn' /\ Held'
    BY <2>1 DEF IndexSound, AI!TypeOK, OneWriter, Untorn, Held, Carries, AI!Running
  <2>3. \A j \in Jobs : Undisturbed(j)' /\ Prepared(j)'
    BY <2>1 DEF IndexSound, Undisturbed, Prepared, AI!Running, Found
  <2>4. (restored => AI!Running = {} /\ AI!RebuildRestores)'
    BY <2>1 DEF IndexSound, AI!RebuildRestores, AI!Running, AI!Listed, AI!ListedSuperseded
  <2>5. (superseded \subseteq stored)'
    BY <2>1 DEF IndexSound
  <2> QED
    BY <2>2, <2>3, <2>4, <2>5 DEF IndexSound
<1>2. CASE \E i \in AI!Items : AI!Capture(i) \/ AI!Supersede(i) \/ AI!Record(i)
  BY <1>2, CaptureSound, SupersedeSound, RecordSound
<1>3. CASE \E l \in pending, written \in BOOLEAN : AI!AppendLine(l, written)
  BY <1>3, AppendSound
<1>4. CASE \E j \in Jobs : AI!JobStep(j)
  BY <1>4, RebuildSound, KeepSound, RemoveSound, ScanSound, WriteSound, AppendKeptSound, ReadSound,
     DropSound, DeleteSound DEF AI!JobStep
<1>5. CASE AI!Crash
  BY <1>5, CrashSound
<1> QED
  BY <1>1, <1>2, <1>3, <1>4, <1>5 DEF AI!Next

(* What the invariant says in the words of the model-checked property.       *)
LEMMA IndexMeans == IndexSound => AI!ArtifactsKept
<1> SUFFICES ASSUME IndexSound, NEW i \in recorded, SessionOf[i] \notin deleted,
                    AI!Entry(i) \notin index
             PROVE  \E j \in AI!Running : AI!Entry(i) \in job[j].kept
  BY DEF AI!ArtifactsKept, AI!RecordsSurvive, IndexSound, AI!RebuildRestores
<1>1. PICK j \in AI!Running : Carries(j, i)
  BY DEF IndexSound, Held
<1> QED
  BY <1>1 DEF Carries

(* A rebuild that met no other writer restores the list of the transcripts   *)
(* and the media, whatever was lost before; and what the index alone records *)
(* survives every rewrite that overlaps no other and is not cut short        *)
(* (artifactsStorage.ts).                                                    *)
THEOREM ArtifactsCorrect == ASSUME AI!Separate PROVE AI!Spec => []AI!ArtifactsKept
<1>1. AI!Init => IndexSound
  BY IndexInit
<1>2. IndexSound /\ [AI!Next]_(AI!vars) => IndexSound'
  BY IndexStep
<1> QED
  BY <1>1, <1>2, IndexMeans, PTL DEF AI!Spec

-----------------------------------------------------------------------------
(* Commands. The calls share nothing but the stop, so one record is judged at*)
(* a time (CallSound): a successful answer is about a command whose output   *)
(* can grow no more, and every way to settle a bash call takes its shell     *)
(* along or finds it gone.                                                   *)

Whys == {"refused", "failed", "exit0", "exit1", "timeout", "aborted"}
Answers == [why : Whys, output : Nat, cut : BOOLEAN]
Call == [kind : TC!Kinds, pc : {"idle", "preparing", "running", "settled"}, listens : BOOLEAN,
         proc : {"none", "starting", "running", "exit0", "exit1", "gone"},
         held : BOOLEAN, written : Nat, seen : Nat, sent : Nat, reported : Nat,
         answer : Answers \cup {None}]

(* Output is read after it was written, progress is reported after it was    *)
(* made, and its end at once.                                                *)
Counted(r) ==
  /\ r.seen <= r.written /\ r.reported <= r.sent
  /\ r.sent = Whole => r.reported = Whole

(* How the call and its command stand to each other.                         *)
Attended(r) ==
  /\ r.pc = "preparing" => r.kind # "bash"
  /\ r.kind = "upload" => r.proc \notin {"exit0", "exit1"}
  /\ r.pc = "settled" /\ r.kind = "bash" => r.proc \notin {"starting", "running"}

(* An answer is that of a settled call, and a successful one has it all.     *)
Told(r, stop) ==
  /\ r.pc # "settled" => r.answer = None
  /\ r.pc = "settled" /\ r.answer.why = "aborted" => stop
  /\ r.pc = "settled" /\ r.answer.why = "exit0" =>
       IF r.kind = "upload" THEN r.sent = Whole
       ELSE /\ r.proc \in {"exit0", "exit1"} /\ r.held = FALSE /\ r.seen = r.written
            /\ r.answer.output = TC!Output(r) /\ r.answer.cut = TC!Cut(r)

CallSound(r, stop) == Counted(r) /\ Attended(r) /\ Told(r, stop)

CallsSound ==
  /\ stopped \in BOOLEAN
  /\ call \in [ToolCalls -> Call]
  /\ \A c \in ToolCalls : CallSound(call[c], stopped)

-----------------------------------------------------------------------------
(* How a call settles. *)

(* The record of a call that finishes.                                       *)
LEMMA Finished ==
  ASSUME TC!Amounts, NEW r \in Call, NEW why \in Whys, NEW q, q = TC!Finish(r, why)
  PROVE  /\ q \in Call /\ q.pc = "settled" /\ q.proc = r.proc
         /\ q.answer.why = why /\ q.answer.output = TC!Output(r) /\ q.answer.cut = TC!Cut(r)
         /\ q.kind = r.kind /\ q.held = r.held /\ q.seen = r.seen /\ q.written = r.written
         /\ q.sent = r.sent /\ q.reported = r.reported
<1> DEFINE a == [why |-> why, output |-> TC!Output(r), cut |-> TC!Cut(r)]
<1>1. a \in Answers /\ a.why = why /\ a.output = TC!Output(r) /\ a.cut = TC!Cut(r)
  BY DEF TC!Amounts, TC!Output, TC!Cut, Answers, Call
<1>2. q = [r EXCEPT !.pc = "settled", !.listens = FALSE, !.answer = a]
  BY DEF TC!Finish
<1> HIDE DEF a
<1>3. /\ q \in Call /\ q.pc = "settled" /\ q.answer = a /\ q.proc = r.proc
      /\ q.kind = r.kind /\ q.held = r.held /\ q.seen = r.seen /\ q.written = r.written
      /\ q.sent = r.sent /\ q.reported = r.reported
  BY <1>1, <1>2 DEF Call
<1> QED
  BY <1>1, <1>3

(* A call that finishes, its command as it is.                               *)
LEMMA Finishes ==
  ASSUME TC!Amounts, NEW r \in Call, NEW why \in Whys, NEW stop,
         CallSound(r, stop), r.kind = "bash" => r.proc \notin {"starting", "running"},
         why = "aborted" => stop,
         why = "exit0" => IF r.kind = "upload" THEN r.sent = Whole
                          ELSE r.proc \in {"exit0", "exit1"} /\ r.held = FALSE /\ r.seen = r.written
  PROVE  TC!Finish(r, why) \in Call /\ CallSound(TC!Finish(r, why), stop)
<1> DEFINE q == TC!Finish(r, why)
<1> HIDE DEF q
<1>1. /\ q \in Call /\ q.pc = "settled" /\ q.proc = r.proc
      /\ q.answer.why = why /\ q.answer.output = TC!Output(r) /\ q.answer.cut = TC!Cut(r)
      /\ q.kind = r.kind /\ q.held = r.held /\ q.seen = r.seen /\ q.written = r.written
      /\ q.sent = r.sent /\ q.reported = r.reported
  BY Finished DEF q
<1>2. Counted(q)
  BY <1>1 DEF CallSound, Counted
<1>3. Attended(q)
  BY <1>1 DEF CallSound, Attended
<1>4. TC!Output(q) = TC!Output(r) /\ TC!Cut(q) = TC!Cut(r)
  BY <1>1 DEF TC!Output, TC!Cut
<1>5. Told(q, stop)
  BY <1>1, <1>4 DEF Told
<1> QED
  BY <1>1, <1>2, <1>3, <1>5 DEF CallSound, q

(* A call that finishes, its command gone: it is no success, or an upload's. *)
LEMMA FinishesGone ==
  ASSUME TC!Amounts, NEW r \in Call, NEW why \in Whys, NEW stop,
         CallSound(r, stop), why = "aborted" => stop,
         why = "exit0" => r.kind = "upload" /\ r.sent = Whole
  PROVE  LET g == [TC!Finish(r, why) EXCEPT !.proc = "gone"] IN g \in Call /\ CallSound(g, stop)
<1> DEFINE q == TC!Finish(r, why)
<1> HIDE DEF q
<1>1. /\ q \in Call /\ q.pc = "settled"
      /\ q.answer.why = why /\ q.answer.output = TC!Output(r) /\ q.answer.cut = TC!Cut(r)
      /\ q.kind = r.kind /\ q.held = r.held /\ q.seen = r.seen /\ q.written = r.written
      /\ q.sent = r.sent /\ q.reported = r.reported
  BY Finished DEF q
<1> DEFINE g == [q EXCEPT !.proc = "gone"]
<1>2. /\ g \in Call /\ g.pc = "settled" /\ g.proc = "gone" /\ g.answer = q.answer
      /\ g.kind = r.kind /\ g.seen = r.seen /\ g.written = r.written
      /\ g.sent = r.sent /\ g.reported = r.reported
  BY <1>1 DEF Call
<1> HIDE DEF g
<1>3. Counted(g)
  BY <1>2 DEF CallSound, Counted
<1>4. Attended(g)
  BY <1>2 DEF Attended
<1>5. Told(g, stop)
  BY <1>1, <1>2 DEF Told
<1>6. CallSound(g, stop)
  BY <1>3, <1>4, <1>5 DEF CallSound
<1> QED
  BY <1>2, <1>6 DEF g, q

(* A timeout or the stop.                                                    *)
LEMMA Ceases ==
  ASSUME TC!Amounts, NEW r \in Call, NEW why \in {"timeout", "aborted"}, NEW stop,
         CallSound(r, stop), why = "aborted" => stop
  PROVE  TC!Cease(r, why) \in Call /\ CallSound(TC!Cease(r, why), stop)
<1>1. why \in Whys
  BY DEF Whys
<1>2. CASE r.kind = "bash"
  <2>1. TC!Cease(r, why) = [TC!Finish(r, why) EXCEPT !.proc = "gone"]
    BY <1>2 DEF TC!Cease
  <2> DEFINE g == [TC!Finish(r, why) EXCEPT !.proc = "gone"]
  <2>2. g \in Call /\ CallSound(g, stop)
    BY <1>1, FinishesGone
  <2> QED
    BY <2>1, <2>2
<1>3. CASE r.kind # "bash"
  <2> DEFINE q == TC!Finish(r, why)
  <2>1. q \in Call
    BY <1>1, Finished
  <2>2. TC!Cease(r, why) = [q EXCEPT !.proc = @]
    BY <1>3 DEF TC!Cease
  <2>3. CallSound(q, stop)
    BY <1>1, <1>3, Finishes
  <2> HIDE DEF q
  <2>4. [q EXCEPT !.proc = @] = q
    BY <2>1 DEF Call
  <2> QED
    BY <2>1, <2>2, <2>3, <2>4
<1> QED
  BY <1>2, <1>3

-----------------------------------------------------------------------------
(* One call at a time. *)

(* A call's step is a change of its record, and a sound one.                 *)
CallStep(c) ==
  \/ TC!Begin(c) \/ TC!Refuse(c) \/ TC!Connect(c) \/ TC!Starts(c) \/ TC!Fails(c)
  \/ TC!Writes(c) \/ TC!Data(c)
  \/ \E code \in {"exit0", "exit1"}, held \in BOOLEAN : TC!Exits(c, code, held)
  \/ TC!LetsGo(c) \/ TC!Closes(c) \/ TC!Uploaded(c) \/ TC!Timeout(c)
  \/ \E slow \in BOOLEAN : TC!Step(c, slow)

(* The new record of a call that takes a step is sound.                      *)
LEMMA CallStepSound ==
  ASSUME TC!Amounts, CallsSound, NEW c \in ToolCalls, CallStep(c)
  PROVE  \E q \in Call : call' = [call EXCEPT ![c] = q] /\ stopped' = stopped /\ CallSound(q, stopped)
<1> DEFINE r == call[c]
<1>0. r \in Call /\ CallSound(r, stopped) /\ stopped \in BOOLEAN
  BY DEF CallsSound
<1>a. ASSUME NEW q, TC!Set(c, q), UNCHANGED stopped, q \in Call, CallSound(q, stopped)
      PROVE  \E p \in Call : /\ call' = [call EXCEPT ![c] = p] /\ stopped' = stopped
                             /\ CallSound(p, stopped)
  BY <1>a DEF CallsSound, TC!Set
<1>1. ASSUME TC!Begin(c), r.kind = "bash"
      PROVE  LET q == [r EXCEPT !.pc = "running", !.proc = "starting", !.listens = ~stopped]
             IN  TC!Set(c, q) /\ UNCHANGED stopped /\ q \in Call /\ CallSound(q, stopped)
  BY <1>0, <1>1 DEF TC!Begin, TC!Is, CallSound, Counted, Attended, Told, Call
<1>2. ASSUME TC!Begin(c), r.kind # "bash"
      PROVE  LET q == [r EXCEPT !.pc = "preparing"]
             IN  TC!Set(c, q) /\ UNCHANGED stopped /\ q \in Call /\ CallSound(q, stopped)
  BY <1>0, <1>2 DEF TC!Begin, TC!Is, CallSound, Counted, Attended, Told, Call
<1>3. ASSUME TC!Refuse(c)
      PROVE  LET q == TC!Finish(r, "refused")
             IN  TC!Set(c, q) /\ UNCHANGED stopped /\ q \in Call /\ CallSound(q, stopped)
  <2>1. r.kind # "bash" /\ "refused" \in Whys
    BY <1>0, <1>3 DEF TC!Refuse, TC!Is, CallSound, Attended, Whys
  <2> QED
    BY <1>0, <1>3, <2>1, Finishes DEF TC!Refuse
<1>4. ASSUME TC!Connect(c)
      PROVE  LET q == [r EXCEPT !.pc = "running", !.proc = "starting", !.listens = ~stopped]
             IN  TC!Set(c, q) /\ UNCHANGED stopped /\ q \in Call /\ CallSound(q, stopped)
  BY <1>0, <1>4 DEF TC!Connect, TC!Is, CallSound, Counted, Attended, Told, Call
<1>5. ASSUME TC!Starts(c)
      PROVE  LET q == [r EXCEPT !.proc = "running"]
             IN  TC!Set(c, q) /\ UNCHANGED stopped /\ q \in Call /\ CallSound(q, stopped)
  BY <1>0, <1>5 DEF TC!Starts, TC!Is, CallSound, Counted, Attended, Told, Call
<1>6. ASSUME TC!Fails(c)
      PROVE  LET q == [TC!Finish(r, "failed") EXCEPT !.proc = "gone"]
             IN  TC!Set(c, q) /\ UNCHANGED stopped /\ q \in Call /\ CallSound(q, stopped)
  <2>1. "failed" \in Whys
    BY DEF Whys
  <2> QED
    BY <1>0, <1>6, <2>1, FinishesGone DEF TC!Fails
<1>7. ASSUME TC!Writes(c)
      PROVE  LET q == [r EXCEPT !.written = @ + 1]
             IN  TC!Set(c, q) /\ UNCHANGED stopped /\ q \in Call /\ CallSound(q, stopped)
  BY <1>0, <1>7 DEF TC!Writes, CallSound, Counted, Attended, Told, Call, TC!Output, TC!Cut
<1>8. ASSUME TC!Data(c)
      PROVE  LET q == [r EXCEPT !.seen = @ + 1]
             IN  TC!Set(c, q) /\ UNCHANGED stopped /\ q \in Call /\ CallSound(q, stopped)
  BY <1>0, <1>8 DEF TC!Data, CallSound, Counted, Attended, Told, Call, TC!Output, TC!Cut
<1>9. ASSUME NEW code \in {"exit0", "exit1"}, NEW held \in BOOLEAN, TC!Exits(c, code, held)
      PROVE  LET q == [r EXCEPT !.proc = code, !.held = held]
             IN  TC!Set(c, q) /\ UNCHANGED stopped /\ q \in Call /\ CallSound(q, stopped)
  BY <1>0, <1>9 DEF TC!Exits, CallSound, Counted, Attended, Told, Call, TC!Output, TC!Cut
<1>10. ASSUME TC!LetsGo(c)
      PROVE  LET q == [r EXCEPT !.held = FALSE]
             IN  TC!Set(c, q) /\ UNCHANGED stopped /\ q \in Call /\ CallSound(q, stopped)
  <2> DEFINE q == [r EXCEPT !.held = FALSE]
  <2>1. TC!Set(c, q) /\ UNCHANGED stopped
    BY <1>10 DEF TC!LetsGo
  <2>2. /\ q \in Call /\ q.held = FALSE /\ q.kind = r.kind /\ q.pc = r.pc /\ q.proc = r.proc
        /\ q.answer = r.answer /\ q.seen = r.seen /\ q.written = r.written
        /\ q.sent = r.sent /\ q.reported = r.reported
    BY <1>0 DEF Call
  <2> HIDE DEF q
  <2>3. CallSound(q, stopped)
    BY <1>0, <2>2 DEF CallSound, Counted, Attended, Told, TC!Output, TC!Cut
  <2> QED
    BY <2>1, <2>2, <2>3 DEF q
<1>11. ASSUME TC!Closes(c)
      PROVE  LET q == TC!Finish(r, r.proc)
             IN  TC!Set(c, q) /\ UNCHANGED stopped /\ q \in Call /\ CallSound(q, stopped)
  <2>1. /\ r.proc \in Whys /\ r.proc \in {"exit0", "exit1"} /\ r.seen = r.written
        /\ r.held = FALSE /\ r.kind # "upload"
    BY <1>0, <1>11 DEF TC!Closes, TC!Closed, Whys, Call, CallSound, Attended
  <2> QED
    BY <1>0, <1>11, <2>1, Finishes DEF TC!Closes
<1>12. ASSUME TC!Uploaded(c)
      PROVE  LET q == [TC!Finish(r, "exit0") EXCEPT !.proc = "gone"]
             IN  TC!Set(c, q) /\ UNCHANGED stopped /\ q \in Call /\ CallSound(q, stopped)
  <2>1. "exit0" \in Whys
    BY DEF Whys
  <2> QED
    BY <1>0, <1>12, <2>1, FinishesGone DEF TC!Uploaded
<1>13. ASSUME TC!Timeout(c)
      PROVE  LET q == TC!Cease(r, "timeout")
             IN  TC!Set(c, q) /\ UNCHANGED stopped /\ q \in Call /\ CallSound(q, stopped)
  BY <1>0, <1>13, Ceases DEF TC!Timeout
<1>14. ASSUME NEW slow \in BOOLEAN, TC!Step(c, slow)
      PROVE  \E q \in Call : TC!Set(c, q) /\ UNCHANGED stopped /\ CallSound(q, stopped)
  <2> DEFINE n == IF r.sent + 1 >= r.reported + 2 \/ slow \/ r.sent + 1 = Whole
                  THEN r.sent + 1 ELSE r.reported
  <2> DEFINE q == [r EXCEPT !.sent = r.sent + 1, !.reported = n]
  <2>1. TC!Set(c, q) /\ UNCHANGED stopped /\ r.sent < Whole /\ r.kind = "upload"
        /\ r.proc = "running"
    BY <1>14 DEF TC!Step
  <2>2. /\ n \in Nat /\ r.sent + 1 \in Nat /\ n <= r.sent + 1
        /\ r.sent + 1 = Whole => n = Whole
    BY <1>0 DEF Call, CallSound, Counted, TC!Amounts
  <2> HIDE DEF n
  <2>3. /\ q \in Call /\ q.sent = r.sent + 1 /\ q.reported = n
        /\ q.kind = r.kind /\ q.pc = r.pc /\ q.proc = r.proc /\ q.answer = r.answer
        /\ q.seen = r.seen /\ q.written = r.written /\ q.held = r.held
    BY <1>0, <2>2 DEF Call
  <2> HIDE DEF q
  <2>4. r.sent # Whole
    BY <1>0, <2>1 DEF Call, TC!Amounts
  <2>5. CallSound(q, stopped)
    BY <1>0, <2>1, <2>2, <2>3, <2>4 DEF CallSound, Counted, Attended, Told
  <2> HIDE DEF q
  <2> QED
    BY <2>1, <2>3, <2>5
<1> HIDE DEF r
<1> QED
  BY <1>a, <1>1, <1>2, <1>3, <1>4, <1>5, <1>6, <1>7, <1>8, <1>9, <1>10, <1>11, <1>12, <1>13, <1>14
     DEF CallStep

(* The stop settles those that listen and reaches no other.                  *)
LEMMA CallStopSound ==
  ASSUME TC!Amounts, CallsSound, TC!Stop
  PROVE  CallsSound'
<1>1. stopped' = TRUE
  BY DEF TC!Stop
<1>2. ASSUME NEW c \in ToolCalls PROVE call'[c] \in Call /\ CallSound(call'[c], TRUE)
  <2>1. call[c] \in Call /\ CallSound(call[c], TRUE)
    BY DEF CallsSound, CallSound, Told
  <2>2. call'[c] = IF call[c].listens THEN TC!Cease(call[c], "aborted") ELSE call[c]
    BY DEF TC!Stop
  <2>3. TC!Cease(call[c], "aborted") \in Call /\ CallSound(TC!Cease(call[c], "aborted"), TRUE)
    BY <2>1, Ceases
  <2> QED
    BY <2>1, <2>2, <2>3
<1>3. call' \in [ToolCalls -> Call]
  BY <1>2 DEF TC!Stop
<1> QED
  BY <1>1, <1>2, <1>3 DEF CallsSound

-----------------------------------------------------------------------------
(* The invariant. *)

(* Before the first call.                                                    *)
LEMMA CallsInit == ASSUME TC!Amounts, TC!Init PROVE CallsSound
<1>1. ASSUME NEW c \in ToolCalls
      PROVE  /\ call[c] \in Call
             /\ call[c].pc = "idle" /\ call[c].proc = "none" /\ call[c].answer = None
             /\ call[c].seen = 0 /\ call[c].written = 0 /\ call[c].sent = 0 /\ call[c].reported = 0
  <2> DEFINE First == [kind : TC!Kinds, pc : {"idle"}, listens : {FALSE}, proc : {"none"},
                       held : {FALSE}, written : {0}, seen : {0}, sent : {0},
                       reported : {0}, answer : {None}]
  <2>1. call[c] \in First
    BY DEF TC!Init
  <2>2. First \subseteq Call
    <3> SUFFICES ASSUME NEW r \in First PROVE r \in Call
      OBVIOUS
    <3>1. /\ r.listens = FALSE /\ r.held = FALSE /\ r.written = 0 /\ r.seen = 0 /\ r.sent = 0
          /\ r.reported = 0 /\ r.pc = "idle" /\ r.proc = "none" /\ r.kind \in TC!Kinds
          /\ r.answer \in Answers \cup {None}
      OBVIOUS
    <3>2. r = [kind |-> r.kind, pc |-> r.pc, listens |-> r.listens, proc |-> r.proc,
               held |-> r.held, written |-> r.written, seen |-> r.seen, sent |-> r.sent,
               reported |-> r.reported, answer |-> r.answer]
      OBVIOUS
    <3>3. r.listens \in BOOLEAN /\ r.held \in BOOLEAN
      BY <3>1
    <3>4. r.written \in Nat /\ r.seen \in Nat /\ r.sent \in Nat /\ r.reported \in Nat
      BY <3>1
    <3>5. /\ r.pc \in {"idle", "preparing", "running", "settled"}
          /\ r.proc \in {"none", "starting", "running", "exit0", "exit1", "gone"}
      BY <3>1
    <3> HIDE DEF First
    <3> QED
      BY <3>1, <3>2, <3>3, <3>4, <3>5, Zenon DEF Call
  <2>3. /\ call[c].pc = "idle" /\ call[c].proc = "none" /\ call[c].answer = None
        /\ call[c].seen = 0 /\ call[c].written = 0 /\ call[c].sent = 0 /\ call[c].reported = 0
    BY <2>1
  <2> QED
    BY <2>1, <2>2, <2>3
<1>2. call \in [ToolCalls -> Call]
  BY <1>1 DEF TC!Init
<1>3. ASSUME NEW c \in ToolCalls PROVE CallSound(call[c], stopped)
  <2>1. Counted(call[c])
    BY <1>1 DEF Counted
  <2>2. Attended(call[c]) /\ Told(call[c], stopped)
    BY <1>1 DEF Attended, Told
  <2> QED
    BY <2>1, <2>2 DEF CallSound
<1> QED
  BY <1>2, <1>3 DEF TC!Init, CallsSound

(* Every step keeps it.                                                      *)
LEMMA CallsKept == ASSUME TC!Amounts, CallsSound, [TC!Next]_(TC!vars) PROVE CallsSound'
<1>1. CASE TC!Stop
  BY <1>1, CallStopSound
<1>2. ASSUME NEW c \in ToolCalls, CallStep(c) PROVE CallsSound'
  <2>1. PICK q \in Call : /\ call' = [call EXCEPT ![c] = q] /\ stopped' = stopped
                          /\ CallSound(q, stopped)
    BY <1>2, CallStepSound
  <2> QED
    BY <2>1 DEF CallsSound
<1>3. CASE UNCHANGED TC!vars
  BY <1>3 DEF TC!vars, CallsSound
<1> QED
  BY <1>1, <1>2, <1>3 DEF TC!Next, CallStep

(* What it says in the words of the model-checked properties.                *)
LEMMA CallsMean == ASSUME TC!Amounts, CallsSound PROVE TC!TypeOK /\ TC!CommandsSound
<1>1. ASSUME NEW c \in ToolCalls
      PROVE  /\ call[c] \in Call /\ CallSound(call[c], stopped)
  BY DEF CallsSound
<1>2. TC!TypeOK
  BY <1>1 DEF TC!TypeOK, CallsSound, Call, CallSound, Counted
<1>3. ASSUME NEW c \in ToolCalls, call[c].answer # None, call[c].answer.why = "exit0"
      PROVE  IF call[c].kind = "upload" THEN call[c].reported = Whole
             ELSE \/ call[c].answer.output = call[c].written
                  \/ /\ call[c].answer.output = MaxOutput
                     /\ call[c].kind = "bash" => call[c].answer.cut
  <2> DEFINE r == call[c]
  <2>1. r \in Call /\ Counted(r) /\ r.pc = "settled"
    BY <1>1, <1>3 DEF CallSound, Told
  <2>2. IF r.kind = "upload" THEN r.sent = Whole
        ELSE /\ r.seen = r.written
             /\ r.answer.output = TC!Output(r) /\ r.answer.cut = TC!Cut(r)
    BY <1>1, <1>3, <2>1 DEF CallSound, Told
  <2>3. r.seen \in Nat /\ MaxOutput \in Nat
    BY <2>1 DEF Call, TC!Amounts
  <2> HIDE DEF r
  <2>4. CASE r.kind = "upload"
    BY <2>1, <2>2, <2>4 DEF Counted, r
  <2>5. CASE r.kind # "upload" /\ r.seen < MaxOutput
    <3>1. r.answer.output = r.written
      BY <2>2, <2>5 DEF TC!Output
    <3> QED
      BY <2>5, <3>1 DEF r
  <2>6. CASE r.kind # "upload" /\ ~(r.seen < MaxOutput)
    <3>1. r.answer.output = MaxOutput
      BY <2>2, <2>6 DEF TC!Output
    <3>2. ASSUME r.kind = "bash" PROVE r.answer.cut
      <4>1. r.seen >= MaxOutput
        BY <2>3, <2>6
      <4>2. TC!Cut(r)
        BY <3>2, <4>1 DEF TC!Cut
      <4>3. r.answer.cut = TC!Cut(r)
        BY <2>2, <2>6
      <4> QED
        BY <4>2, <4>3
    <3> QED
      BY <2>6, <3>1, <3>2 DEF r
  <2> QED
    BY <2>4, <2>5, <2>6
<1>4. TC!SuccessIsWhole
  BY <1>3 DEF TC!SuccessIsWhole
<1>5. TC!ShellsEnd
  BY <1>1 DEF TC!ShellsEnd, CallSound, Attended, Told
<1> QED
  BY <1>2, <1>4, <1>5 DEF TC!CommandsSound

-----------------------------------------------------------------------------
(* No call reads more than its command wrote, or reports an upload it did    *)
(* not make, in any reachable state.                                         *)
THEOREM CommandsTyped == ASSUME TC!Amounts PROVE TC!Spec => []TC!TypeOK
<1>1. TC!Init => CallsSound
  BY CallsInit
<1>2. CallsSound /\ [TC!Next]_(TC!vars) => CallsSound'
  BY CallsKept
<1>3. CallsSound => TC!TypeOK
  BY CallsMean
<1> QED
  BY <1>1, <1>2, <1>3, PTL DEF TC!Spec

(* However exit, output, timer and stop race, a success is the command's own *)
(* and answers with all it wrote, or admits the cut; and no answered bash    *)
(* call leaves its shell behind (bashTool.ts, sshTool.ts).                   *)
THEOREM CommandsCorrect == ASSUME TC!Amounts PROVE TC!Spec => []TC!CommandsSound
<1>1. TC!Init => CallsSound
  BY CallsInit
<1>2. CallsSound /\ [TC!Next]_(TC!vars) => CallsSound'
  BY CallsKept
<1>3. CallsSound => TC!CommandsSound
  BY CallsMean
<1> QED
  BY <1>1, <1>2, <1>3, PTL DEF TC!Spec

-----------------------------------------------------------------------------
(* Sub-agents. The records of a child are read by their places: one more is  *)
(* told, or none, and only the end and the tool calls are counted.           *)

ChildLoop ==
  [at : {"idle", "turns", "streams", "calls", "ends", "over"}, turn : Nat, said : Nat, n : Nat]
ChildFold ==
  [conclusion : Nat, digest : BOOLEAN, calls : Nat, phase : SA!Phases \cup {None},
   answer : {None} \cup [ok : BOOLEAN, text : Nat, digest : BOOLEAN]]
ChildRecords == [type : {"start", "tool"} \cup SA!Phases] \cup [type : {"end"}, calls : Nat]

(* Where a child's records are of a type.                                    *)
PlacesOf(s, type) == {i \in 1..Len(s) : s[i].type = type}

(* The answer of a loop that is over: a success is what the child said last. *)
AnswerIs(l, f) ==
  IF l.at = "over"
  THEN f.answer \in [ok : BOOLEAN, text : Nat, digest : BOOLEAN]
       /\ (f.answer.ok => f.answer.text = l.said /\ l.said > 0)
  ELSE f.answer = None

(* What a child's loop, the tool's locals and its records are to each other. *)
ChildSound(l, f, s) ==
  /\ l \in ChildLoop /\ f \in ChildFold /\ s \in Seq(ChildRecords)
  /\ f.conclusion = l.said
  /\ l.at = "streams" /\ f.phase # None => s # <<>> /\ s[Len(s)].type = f.phase
  /\ Cardinality(PlacesOf(s, "tool")) = f.calls
  /\ PlacesOf(s, "end") = {} \/ (l.at = "over" /\ PlacesOf(s, "end") = {Len(s)}
                                 /\ s # <<>> /\ s[Len(s)].calls = f.calls)
  /\ AnswerIs(l, f)

ChildrenFold ==
  /\ DOMAIN loop = SpawnCalls /\ DOMAIN fold = SpawnCalls /\ DOMAIN records = SpawnCalls
  /\ \A c \in SpawnCalls : ChildSound(loop[c], fold[c], records[c])

(* One record more.                                                          *)
LEMMA RecordTold ==
  ASSUME NEW s \in Seq(ChildRecords), NEW r \in ChildRecords
  PROVE  /\ Append(s, r) \in Seq(ChildRecords) /\ Append(s, r) # <<>> /\ Append(s, r)[Len(Append(s, r))] = r
         /\ r.type = "end" =>
              PlacesOf(Append(s, r), "end") = PlacesOf(s, "end") \cup {Len(Append(s, r))}
         /\ r.type # "end" => PlacesOf(Append(s, r), "end") = PlacesOf(s, "end")
         /\ r.type = "tool" =>
              Cardinality(PlacesOf(Append(s, r), "tool")) = Cardinality(PlacesOf(s, "tool")) + 1
         /\ r.type # "tool" =>
              Cardinality(PlacesOf(Append(s, r), "tool")) = Cardinality(PlacesOf(s, "tool"))
<1> DEFINE n == Len(s)
           sNew == Append(s, r)
<1>1. n \in Nat /\ Len(sNew) = n + 1 /\ sNew[n + 1] = r /\ \A i \in 1..n : sNew[i] = s[i]
  OBVIOUS
<1>2. sNew \in Seq(ChildRecords) /\ sNew # <<>>
  <2>1. sNew \in Seq(ChildRecords) /\ Len(sNew) = n + 1 /\ n \in Nat /\ Len(<<>>) = 0
    OBVIOUS
  <2> HIDE DEF n, sNew
  <2> QED
    BY <2>1
<1> HIDE DEF n, sNew
<1>3. 1..Len(sNew) = (1..n) \cup {n + 1} /\ n + 1 \notin 1..n
  BY <1>1
<1>4. ASSUME NEW type
      PROVE  /\ r.type = type => PlacesOf(sNew, type) = PlacesOf(s, type) \cup {Len(sNew)}
             /\ r.type # type => PlacesOf(sNew, type) = PlacesOf(s, type)
  <2>1. PlacesOf(s, type) = {i \in 1..n : s[i].type = type}
    BY DEF PlacesOf, n
  <2>2. PlacesOf(sNew, type) = {i \in (1..n) \cup {n + 1} : sNew[i].type = type}
    BY <1>3 DEF PlacesOf
  <2> QED
    BY <2>1, <2>2, <1>1, <1>3
<1>5. IsFiniteSet(PlacesOf(s, "tool")) /\ Len(sNew) \notin PlacesOf(s, "tool")
  <2>1. IsFiniteSet(1..n) /\ PlacesOf(s, "tool") \subseteq 1..n
    BY <1>1, FS_Interval DEF PlacesOf, n
  <2> QED
    BY <2>1, <1>1, <1>3, FS_Subset
<1>6. r.type = "tool" => Cardinality(PlacesOf(sNew, "tool")) = Cardinality(PlacesOf(s, "tool")) + 1
  BY <1>4, <1>5, FS_AddElement
<1>7. r.type # "tool" => Cardinality(PlacesOf(sNew, "tool")) = Cardinality(PlacesOf(s, "tool"))
  BY <1>4
<1> QED
  BY <1>1, <1>2, <1>4, <1>6, <1>7 DEF sNew

LEMMA ChildrenInit == SA!Init => ChildrenFold
<1> SUFFICES ASSUME SA!Init, NEW c \in SpawnCalls PROVE ChildSound(loop[c], fold[c], records[c])
  BY DEF SA!Init, ChildrenFold
<1>1. /\ loop[c] = [at |-> "idle", turn |-> 0, said |-> 0, n |-> 0] /\ records[c] = <<>>
      /\ fold[c] = [conclusion |-> 0, digest |-> FALSE, calls |-> 0, phase |-> None, answer |-> None]
  BY DEF SA!Init
<1>2. loop[c] \in ChildLoop /\ fold[c] \in ChildFold
  BY <1>1 DEF ChildLoop, ChildFold
<1>3. PlacesOf(<<>>, "end") = {} /\ PlacesOf(<<>>, "tool") = {}
  BY DEF PlacesOf
<1>4. Cardinality({}) = 0
  BY FS_EmptySet
<1>5. /\ loop[c].at = "idle" /\ loop[c].said = 0 /\ fold[c].conclusion = 0
      /\ fold[c].calls = 0 /\ fold[c].answer = None /\ <<>> \in Seq(ChildRecords)
  BY <1>1
<1> QED
  BY <1>1, <1>2, <1>3, <1>4, <1>5 DEF ChildSound, AnswerIs

(* A step of one child keeps what it was told.                               *)
LEMMA ChildStep ==
  ASSUME SA!Labelled, NEW c \in SpawnCalls, ChildrenFold,
         \/ SA!Begin(c) \/ SA!TurnStart(c) \/ SA!Silent(c) \/ SA!ToolUse(c) \/ SA!NextTurn(c)
         \/ SA!Digest(c) \/ SA!Throws(c)
         \/ \E phase \in SA!Phases, due \in BOOLEAN : SA!Delta(c, phase, due)
         \/ \E said \in 0..MaxTurns : SA!Message(c, said)
         \/ \E reason \in {"completed", "max_turns", "aborted"} : SA!Returns(c, reason)
  PROVE  ChildrenFold'
<1> DEFINE l == loop[c] f == fold[c] s == records[c]
           lNew == loop'[c] fNew == fold'[c] sNew == records'[c]
<1>1. ChildSound(l, f, s) /\ l \in ChildLoop /\ f \in ChildFold /\ s \in Seq(ChildRecords)
  BY DEF ChildrenFold, ChildSound
<1>2. /\ DOMAIN loop' = SpawnCalls /\ DOMAIN fold' = SpawnCalls /\ DOMAIN records' = SpawnCalls
      /\ \A d \in SpawnCalls \ {c} : loop'[d] = loop[d] /\ fold'[d] = fold[d] /\ records'[d] = records[d]
  BY DEF ChildrenFold, SA!Begin, SA!TurnStart, SA!Silent, SA!ToolUse, SA!NextTurn, SA!Digest,
         SA!Throws, SA!Delta, SA!Message, SA!Returns, SA!Record
<1> SUFFICES ChildSound(lNew, fNew, sNew)
  <2> SUFFICES ASSUME ChildSound(lNew, fNew, sNew), NEW d \in SpawnCalls
               PROVE  ChildSound(loop'[d], fold'[d], records'[d])
    BY <1>2 DEF ChildrenFold
  <2>1. CASE d = c
    BY <2>1
  <2>2. CASE d # c
    BY <2>2, <1>2 DEF ChildrenFold
  <2> QED
    BY <2>1, <2>2
<1>3. CASE SA!Begin(c)
  <2>1. lNew = [l EXCEPT !.at = "turns"] /\ fNew = f /\ sNew = Append(s, [type |-> "start"]) /\ l.at = "idle"
    BY <1>3 DEF ChildrenFold, SA!Begin, SA!Record
  <2> DEFINE e == [type |-> "start"]
  <2>2. e \in ChildRecords /\ e.type = "start" /\ sNew = Append(s, e)
    BY <2>1 DEF ChildRecords
  <2>3. lNew \in ChildLoop /\ lNew.at = "turns" /\ lNew.said = l.said
    BY <1>1, <2>1 DEF ChildLoop
  <2> HIDE DEF l, f, s, lNew, fNew, sNew, e
  <2>4. /\ sNew \in Seq(ChildRecords) /\ PlacesOf(sNew, "end") = PlacesOf(s, "end")
        /\ Cardinality(PlacesOf(sNew, "tool")) = Cardinality(PlacesOf(s, "tool"))
    BY <1>1, <2>2, RecordTold
  <2> QED
    BY <1>1, <2>1, <2>3, <2>4 DEF ChildSound, AnswerIs
<1>4. CASE SA!TurnStart(c)
  <2>1. /\ lNew = [l EXCEPT !.at = "streams", !.turn = @ + 1] /\ fNew = [f EXCEPT !.phase = None]
        /\ sNew = s /\ l.at = "turns"
    BY <1>4 DEF ChildrenFold, SA!TurnStart
  <2>2. lNew \in ChildLoop /\ lNew.at = "streams" /\ lNew.said = l.said
    <3> DEFINE n == l.turn + 1
    <3>1. n \in Nat
      BY <1>1 DEF ChildLoop
    <3>2. lNew = [l EXCEPT !.at = "streams", !.turn = n]
      BY <2>1
    <3> HIDE DEF n, lNew, l
    <3> QED
      BY <1>1, <3>1, <3>2 DEF ChildLoop
  <2>3. /\ fNew \in ChildFold /\ fNew.phase = None /\ fNew.conclusion = f.conclusion /\ fNew.calls = f.calls
        /\ fNew.answer = f.answer
    BY <1>1, <2>1 DEF ChildFold
  <2> HIDE DEF l, f, s, lNew, fNew, sNew
  <2> QED
    BY <1>1, <2>1, <2>2, <2>3 DEF ChildSound, AnswerIs
<1>5. CASE SA!Silent(c) \/ SA!NextTurn(c) \/ SA!Digest(c)
  <2>1. PICK at \in {"calls", "turns", "ends"} : lNew = [l EXCEPT !.at = at]
    BY <1>5 DEF ChildrenFold, SA!Silent, SA!NextTurn, SA!Digest
  <2>2. sNew = s /\ l.at # "over" /\ (fNew = f \/ fNew = [f EXCEPT !.digest = TRUE])
    BY <1>5 DEF ChildrenFold, SA!Silent, SA!NextTurn, SA!Digest
  <2>3. lNew \in ChildLoop /\ lNew.at \in {"calls", "turns", "ends"} /\ lNew.said = l.said
    BY <1>1, <2>1 DEF ChildLoop
  <2>4. fNew \in ChildFold /\ fNew.conclusion = f.conclusion /\ fNew.calls = f.calls /\ fNew.answer = f.answer
    BY <1>1, <2>2 DEF ChildFold
  <2> HIDE DEF l, f, s, lNew, fNew, sNew
  <2> QED
    BY <1>1, <2>2, <2>3, <2>4 DEF ChildSound, AnswerIs
<1>6. CASE SA!ToolUse(c)
  <2>1. /\ lNew = [l EXCEPT !.n = @ + 1] /\ fNew = [f EXCEPT !.calls = @ + 1, !.phase = None]
        /\ sNew = Append(s, [type |-> "tool"]) /\ l.at = "calls"
    BY <1>6 DEF ChildrenFold, SA!ToolUse, SA!Record
  <2> DEFINE e == [type |-> "tool"]
  <2>2. e \in ChildRecords /\ e.type = "tool" /\ sNew = Append(s, e)
    BY <2>1 DEF ChildRecords
  <2>3. lNew \in ChildLoop /\ lNew.at = "calls" /\ lNew.said = l.said
    BY <1>1, <2>1 DEF ChildLoop
  <2>4. /\ fNew \in ChildFold /\ fNew.phase = None /\ fNew.conclusion = f.conclusion
        /\ fNew.calls = f.calls + 1 /\ fNew.answer = f.answer
    <3> DEFINE n == f.calls + 1
    <3>1. n \in Nat
      BY <1>1 DEF ChildFold
    <3>2. fNew = [f EXCEPT !.calls = n, !.phase = None]
      BY <2>1
    <3> HIDE DEF n, fNew, f
    <3>3. fNew \in ChildFold /\ fNew.calls = n
      BY <1>1, <3>1, <3>2 DEF ChildFold
    <3> QED
      BY <1>1, <3>2, <3>3 DEF ChildFold, n
  <2> HIDE DEF l, f, s, lNew, fNew, sNew, e
  <2>5. /\ sNew \in Seq(ChildRecords) /\ PlacesOf(sNew, "end") = PlacesOf(s, "end")
        /\ Cardinality(PlacesOf(sNew, "tool")) = Cardinality(PlacesOf(s, "tool")) + 1
    BY <1>1, <2>2, RecordTold
  <2> QED
    BY <1>1, <2>1, <2>3, <2>4, <2>5 DEF ChildSound, AnswerIs
<1>7. CASE SA!Throws(c)
  <2>1. /\ lNew = [l EXCEPT !.at = "over"] /\ sNew = s /\ l.at = "streams"
        /\ fNew = [f EXCEPT !.answer = [ok |-> FALSE, text |-> 0, digest |-> FALSE]]
    BY <1>7 DEF ChildrenFold, SA!Throws
  <2>2. lNew \in ChildLoop /\ lNew.at = "over" /\ lNew.said = l.said
    BY <1>1, <2>1 DEF ChildLoop
  <2>3. /\ fNew \in ChildFold /\ fNew.conclusion = f.conclusion /\ fNew.calls = f.calls
        /\ fNew.answer = [ok |-> FALSE, text |-> 0, digest |-> FALSE]
    <3> DEFINE a == [ok |-> FALSE, text |-> 0, digest |-> FALSE]
    <3>1. a \in [ok : BOOLEAN, text : Nat, digest : BOOLEAN]
      OBVIOUS
    <3>2. fNew = [f EXCEPT !.answer = a]
      BY <2>1
    <3> HIDE DEF a, fNew, f
    <3>3. /\ fNew \in ChildFold /\ fNew.conclusion = f.conclusion /\ fNew.calls = f.calls
          /\ fNew.answer = a
      BY <1>1, <3>1, <3>2 DEF ChildFold
    <3> QED
      BY <3>3 DEF a
  <2> HIDE DEF l, f, s, lNew, fNew, sNew
  <2> QED
    BY <1>1, <2>1, <2>2, <2>3 DEF ChildSound, AnswerIs
<1>8. CASE \E phase \in SA!Phases, due \in BOOLEAN : SA!Delta(c, phase, due)
  <2>1. PICK phase \in SA!Phases, due \in BOOLEAN : SA!Delta(c, phase, due)
    BY <1>8
  <2>2. /\ lNew = [l EXCEPT !.n = @ + 1] /\ fNew = [f EXCEPT !.phase = phase] /\ l.at = "streams"
        /\ sNew = Append(s, [type |-> phase]) \/ (sNew = s /\ f.phase = phase)
    BY <2>1 DEF ChildrenFold, SA!Delta, SA!Reports, SA!Record
  <2> DEFINE e == [type |-> phase]
  <2>3. e \in ChildRecords /\ e.type = phase /\ phase \notin {"end", "tool"} /\ phase # None
    BY DEF ChildRecords, SA!Phases, SA!Labelled
  <2>4. lNew \in ChildLoop /\ lNew.at = "streams" /\ lNew.said = l.said
    BY <1>1, <2>2 DEF ChildLoop
  <2>5. /\ fNew \in ChildFold /\ fNew.phase = phase /\ fNew.conclusion = f.conclusion
        /\ fNew.calls = f.calls /\ fNew.answer = f.answer
    BY <1>1, <2>2 DEF ChildFold
  <2> HIDE DEF l, f, s, lNew, fNew, sNew
  <2>6. CASE sNew = s /\ f.phase = phase
    BY <1>1, <2>2, <2>3, <2>4, <2>5, <2>6 DEF ChildSound, AnswerIs
  <2>7. CASE sNew = Append(s, [type |-> phase])
    <3>2. sNew = Append(s, e)
      BY <2>7
    <3> HIDE DEF e
    <3>1. /\ sNew \in Seq(ChildRecords) /\ sNew # <<>> /\ sNew[Len(sNew)] = e
          /\ PlacesOf(sNew, "end") = PlacesOf(s, "end")
          /\ Cardinality(PlacesOf(sNew, "tool")) = Cardinality(PlacesOf(s, "tool"))
      BY <1>1, <2>3, <3>2, RecordTold
    <3> QED
      BY <1>1, <2>2, <2>3, <2>4, <2>5, <3>1 DEF ChildSound, AnswerIs
  <2> QED
    BY <2>2, <2>6, <2>7
<1>9. CASE \E said \in 0..MaxTurns : SA!Message(c, said)
  <2>1. PICK said \in 0..MaxTurns : SA!Message(c, said)
    BY <1>9
  <2>2. /\ lNew = [l EXCEPT !.at = "calls", !.said = said] /\ fNew = [f EXCEPT !.conclusion = said]
        /\ sNew = s /\ l.at = "streams" /\ said \in {0, l.turn}
    BY <2>1 DEF ChildrenFold, SA!Message
  <2>3. said \in Nat
    BY <1>1, <2>2 DEF ChildLoop
  <2>4. lNew \in ChildLoop /\ lNew.at = "calls" /\ lNew.said = said
    BY <1>1, <2>2, <2>3 DEF ChildLoop
  <2>5. /\ fNew \in ChildFold /\ fNew.conclusion = said /\ fNew.calls = f.calls /\ fNew.answer = f.answer
    BY <1>1, <2>2, <2>3 DEF ChildFold
  <2> HIDE DEF l, f, s, lNew, fNew, sNew
  <2> QED
    BY <1>1, <2>2, <2>4, <2>5 DEF ChildSound, AnswerIs
<1>10. CASE \E reason \in {"completed", "max_turns", "aborted"} : SA!Returns(c, reason)
  <2>1. PICK reason \in {"completed", "max_turns", "aborted"} : SA!Returns(c, reason)
    BY <1>10
  <2> DEFINE a == SA!Answer(reason, f)
             e == [type |-> "end", calls |-> f.calls]
  <2>2. /\ lNew = [l EXCEPT !.at = "over"] /\ fNew = [f EXCEPT !.answer = a]
        /\ sNew = Append(s, e) /\ l.at # "over"
    BY <2>1 DEF ChildrenFold, SA!Returns, SA!Record
  <2>3. e \in ChildRecords /\ e.type = "end" /\ e.calls = f.calls
    BY <1>1 DEF ChildRecords, ChildFold
  <2>4. /\ a \in [ok : BOOLEAN, text : Nat, digest : BOOLEAN]
        /\ a.ok => a.text = f.conclusion /\ f.conclusion > 0
    BY <1>1 DEF SA!Answer, ChildFold
  <2> HIDE DEF a
  <2>5. lNew \in ChildLoop /\ lNew.at = "over" /\ lNew.said = l.said
    BY <1>1, <2>2 DEF ChildLoop
  <2>6. /\ fNew \in ChildFold /\ fNew.conclusion = f.conclusion /\ fNew.calls = f.calls /\ fNew.answer = a
    BY <1>1, <2>2, <2>4 DEF ChildFold
  <2> HIDE DEF l, f, s, lNew, fNew, sNew, e
  <2>7. PlacesOf(s, "end") = {}
    BY <1>1, <2>2 DEF ChildSound
  <2>8. /\ sNew \in Seq(ChildRecords) /\ sNew # <<>> /\ sNew[Len(sNew)] = e /\ PlacesOf(sNew, "end") = {Len(sNew)}
        /\ Cardinality(PlacesOf(sNew, "tool")) = Cardinality(PlacesOf(s, "tool"))
    <3>1. PlacesOf(sNew, "end") = PlacesOf(s, "end") \cup {Len(sNew)}
      BY <1>1, <2>2, <2>3, RecordTold
    <3>2. /\ sNew \in Seq(ChildRecords) /\ sNew # <<>> /\ sNew[Len(sNew)] = e
          /\ Cardinality(PlacesOf(sNew, "tool")) = Cardinality(PlacesOf(s, "tool"))
      BY <1>1, <2>2, <2>3, RecordTold
    <3> QED
      BY <3>1, <3>2, <2>7
  <2> QED
    BY <1>1, <2>3, <2>4, <2>5, <2>6, <2>8 DEF ChildSound, AnswerIs
<1> QED
  BY <1>3, <1>4, <1>5, <1>6, <1>7, <1>8, <1>9, <1>10

LEMMA ChildrenKept == SA!Labelled /\ ChildrenFold /\ [SA!Next]_(SA!vars) => ChildrenFold'
<1> SUFFICES ASSUME SA!Labelled, ChildrenFold, [SA!Next]_(SA!vars) PROVE ChildrenFold'
  OBVIOUS
<1>1. CASE SA!Stop \/ UNCHANGED SA!vars
  BY <1>1 DEF SA!Stop, SA!vars, ChildrenFold
<1>2. CASE SA!Next /\ ~SA!Stop
  BY <1>2, ChildStep DEF SA!Next
<1> QED
  BY <1>1, <1>2

LEMMA ChildrenMean == ChildrenFold => SA!ChildrenSound
<1> SUFFICES ASSUME ChildrenFold, NEW c \in SpawnCalls
             PROVE  /\ loop[c].at = "streams" /\ fold[c].phase # None => SA!Last(c) = fold[c].phase
                    /\ SA!Count(c, "end") <= 1
                    /\ SA!Count(c, "end") = 1 =>
                         SA!Last(c) = "end" /\ records[c][Len(records[c])].calls = SA!Count(c, "tool")
                    /\ fold[c].answer # None /\ fold[c].answer.ok =>
                         fold[c].answer.text = loop[c].said /\ loop[c].said > 0
  BY DEF SA!ChildrenSound, SA!LabelFollows, SA!AnswersSound
<1> DEFINE l == loop[c] f == fold[c] s == records[c]
<1>1. ChildSound(l, f, s)
  BY DEF ChildrenFold
<1>2. /\ SA!Count(c, "end") = Cardinality(PlacesOf(s, "end"))
      /\ SA!Count(c, "tool") = Cardinality(PlacesOf(s, "tool"))
  <2>1. \A S : SA!Cardinality(S) = Cardinality(S)
    BY Zenon DEF SA!Cardinality, Cardinality
  <2> QED
    BY <2>1 DEF SA!Count, PlacesOf
<1>3. SA!Last(c) = s[Len(s)].type
  BY DEF SA!Last
<1> HIDE DEF l, f, s
<1>4. Cardinality({}) = 0 /\ Cardinality({Len(s)}) = 1
  BY FS_EmptySet, FS_Singleton
<1>5. SA!Count(c, "end") = 1 => PlacesOf(s, "end") # {}
  BY <1>2, <1>4
<1>6. PlacesOf(s, "end") # {} => /\ PlacesOf(s, "end") = {Len(s)} /\ s # <<>>
                                 /\ s[Len(s)].calls = f.calls
  BY <1>1 DEF ChildSound
<1>7. SA!Count(c, "end") <= 1
  <2>1. PlacesOf(s, "end") = {} \/ PlacesOf(s, "end") = {Len(s)}
    BY <1>6
  <2>2. SA!Count(c, "end") = 0 \/ SA!Count(c, "end") = 1
    BY <2>1, <1>2, <1>4
  <2> HIDE DEF SA!Count
  <2> QED
    BY <2>2
<1>8. PlacesOf(s, "end") = {Len(s)} => s[Len(s)].type = "end"
  BY DEF PlacesOf
<1>9. Cardinality(PlacesOf(s, "tool")) = f.calls
  BY <1>1 DEF ChildSound
<1>10. l.at = "streams" /\ f.phase # None => s[Len(s)].type = f.phase
  BY <1>1 DEF ChildSound
<1>11. f.answer # None /\ f.answer.ok => f.answer.text = l.said /\ l.said > 0
  BY <1>1 DEF ChildSound, AnswerIs
<1> QED
  BY <1>2, <1>3, <1>5, <1>6, <1>7, <1>8, <1>9, <1>10, <1>11 DEF l, f, s

-----------------------------------------------------------------------------
(* A child's records close once, with the calls they list; its label is its  *)
(* doing; and a success is the last text it said: for any number of children,*)
(* turns and deltas, wherever the stop is seen (spawnAgentTool.ts).          *)
THEOREM ChildrenCorrect == ASSUME SA!Labelled PROVE SA!Spec => []SA!ChildrenSound
<1>1. SA!Init => ChildrenFold
  BY ChildrenInit
<1>2. ChildrenFold /\ [SA!Next]_(SA!vars) => ChildrenFold'
  BY ChildrenKept
<1>3. ChildrenFold => SA!ChildrenSound
  BY ChildrenMean
<1> QED
  BY <1>1, <1>2, <1>3, PTL DEF SA!Spec

-----------------------------------------------------------------------------
(* Together.                                                                 *)

(* The service on stage takes all the steps there are, or none.              *)
LEMMA FocusKept ==
  ASSUME [Next]_vars
  PROVE  /\ focus' = focus
         /\ focus = "approvals" => [AP!Next]_(AP!vars)
         /\ focus = "servers" => [LS!Next]_(LS!vars)
         /\ focus = "artifacts" => [AI!Next]_(AI!vars)
         /\ focus = "hooks" => [HC!Next]_(HC!vars)
         /\ focus = "commands" => [TC!Next]_(TC!vars)
         /\ focus = "children" => [SA!Next]_(SA!vars)
         /\ focus = "models" => [SP!MR!Next]_(SP!MR!vars)
         /\ focus = "sources" => [SP!DS!Next]_(SP!DS!vars)
         /\ focus = "roots" => [SP!CR!Next]_(SP!CR!vars)
         /\ focus = "skills" => [SP!SK!Next]_(SP!SK!vars)
<1>1. CASE UNCHANGED vars
  <2>1. /\ focus' = focus /\ UNCHANGED approvalVars /\ UNCHANGED serverVars
        /\ UNCHANGED artifactVars /\ UNCHANGED hookVars /\ UNCHANGED commandVars
        /\ UNCHANGED childVars
        /\ UNCHANGED modelVars /\ UNCHANGED sourceVars /\ UNCHANGED rootVars /\ UNCHANGED skillVars
    BY <1>1 DEF vars
  <2>2. UNCHANGED AP!vars /\ UNCHANGED LS!vars
    BY <2>1 DEF approvalVars, serverVars, AP!vars, AP!storeVars, AP!historyVars, LS!vars
  <2>3. UNCHANGED AI!vars /\ UNCHANGED HC!vars /\ UNCHANGED TC!vars /\ UNCHANGED SA!vars
    BY <2>1 DEF artifactVars, hookVars, commandVars, childVars, AI!vars, HC!vars, TC!vars, SA!vars
  <2>4. UNCHANGED SP!MR!vars /\ UNCHANGED SP!DS!vars
    BY <2>1 DEF modelVars, sourceVars, SP!MR!vars, SP!DS!vars
  <2>5. UNCHANGED SP!CR!vars /\ UNCHANGED SP!SK!vars
    BY <2>1 DEF rootVars, skillVars, SP!CR!vars, SP!SK!vars
  <2> QED
    BY <2>1, <2>2, <2>3, <2>4, <2>5
<1>2. CASE Next
  BY <1>2 DEF Next
<1> QED
  BY <1>1, <1>2

(* approvals.json lets nothing through that nobody granted and keeps what    *)
(* was granted, and the artifacts index keeps what it alone records and is   *)
(* restored by a rebuild: for any sessions, patterns, artifacts, overlapping *)
(* saves and rewrites (approvalStore.ts, artifactsStorage.ts).               *)
THEOREM RecordsCorrect == Spec => []RecordsKept
<1> DEFINE Granting == focus = "approvals"
           Indexing == focus = "artifacts"
<1>1. AP!Distinct /\ AI!Separate
  BY MainProcessAssumption
<1>2. /\ Granting /\ [Next]_vars => Granting' /\ [AP!Next]_(AP!vars)
      /\ Indexing /\ [Next]_vars => Indexing' /\ [AI!Next]_(AI!vars)
      /\ ~Granting /\ [Next]_vars => ~Granting'
      /\ ~Indexing /\ [Next]_vars => ~Indexing'
  BY FocusKept
<1>3. Init => AP!Init /\ AI!Init
  BY DEF Init
<1>4. AP!Spec => []AP!GrantsKept
  BY <1>1, AP!GrantsCorrect
<1>5. AI!Spec => []AI!ArtifactsKept
  BY <1>1, ArtifactsCorrect
<1>6. /\ ~Granting /\ ~Indexing => RecordsKept
      /\ Granting /\ AP!GrantsKept => RecordsKept
      /\ Indexing /\ AI!ArtifactsKept => RecordsKept
  BY DEF RecordsKept
<1> HIDE DEF Granting, Indexing
<1>7. Granting /\ Spec => AP!Spec /\ []Granting
  BY <1>2, <1>3, PTL DEF Spec, AP!Spec
<1>8. Indexing /\ Spec => AI!Spec /\ []Indexing
  BY <1>2, <1>3, PTL DEF Spec, AI!Spec
<1>9. Spec => (~Granting => []~Granting) /\ (~Indexing => []~Indexing)
  BY <1>2, PTL DEF Spec
<1> QED
  BY <1>4, <1>5, <1>6, <1>7, <1>8, <1>9, PTL

(* Every language has one initialised server for those who wait for it, a    *)
(* command of a hook decides only by its own end, a streak is answered once, *)
(* a successful call answers with all its command wrote, and a sub-agent     *)
(* closes its records once and answers with the last text it said: for any   *)
(* number of calls, languages, files, hooks, children and amounts of output  *)
(* (languageServerManager.ts, userHooks.ts, bashTool.ts, sshTool.ts,         *)
(* spawnAgentTool.ts).                                                       *)
THEOREM ProcessesCorrect == Spec => []ProcessesSound
<1> DEFINE Serving == focus = "servers"
           Hooking == focus = "hooks"
           Commanding == focus = "commands"
           Spawning == focus = "children"
<1>1. LS!Consistent /\ HC!Registered /\ TC!Amounts /\ SA!Labelled
  BY MainProcessAssumption
<1>2. /\ Serving /\ [Next]_vars => Serving' /\ [LS!Next]_(LS!vars)
      /\ Hooking /\ [Next]_vars => Hooking' /\ [HC!Next]_(HC!vars)
      /\ Commanding /\ [Next]_vars => Commanding' /\ [TC!Next]_(TC!vars)
      /\ Spawning /\ [Next]_vars => Spawning' /\ [SA!Next]_(SA!vars)
      /\ ~Serving /\ [Next]_vars => ~Serving'
      /\ ~Hooking /\ [Next]_vars => ~Hooking'
      /\ ~Commanding /\ [Next]_vars => ~Commanding'
      /\ ~Spawning /\ [Next]_vars => ~Spawning'
  BY FocusKept
<1>3. Init => LS!Init /\ HC!Init /\ TC!Init /\ SA!Init
  BY DEF Init
<1>4. LS!Spec => []LS!ServersSound
  BY <1>1, LS!ServersCorrect
<1>5. HC!Spec => []HC!HooksSound
  BY <1>1, HooksCorrect
<1>6. TC!Spec => []TC!CommandsSound
  BY <1>1, CommandsCorrect
<1>7. SA!Spec => []SA!ChildrenSound
  BY <1>1, ChildrenCorrect
<1>8. /\ ~Serving /\ ~Hooking /\ ~Commanding /\ ~Spawning => ProcessesSound
      /\ Serving /\ LS!ServersSound => ProcessesSound
      /\ Hooking /\ HC!HooksSound => ProcessesSound
      /\ Commanding /\ TC!CommandsSound => ProcessesSound
      /\ Spawning /\ SA!ChildrenSound => ProcessesSound
  BY DEF ProcessesSound
<1>9. /\ Serving => ~Hooking /\ ~Commanding
      /\ Hooking => ~Serving /\ ~Commanding
      /\ Commanding => ~Serving /\ ~Hooking
      /\ focus \notin {"servers", "hooks", "commands"} => ~Serving /\ ~Hooking /\ ~Commanding
  OBVIOUS
<1>10. Spec => (Serving => LS!Fairness) /\ (Hooking => HC!Fairness) /\ (Commanding => TC!Fairness)
  BY <1>9, PTL DEF Spec, Fairness
<1> HIDE DEF Serving, Hooking, Commanding, Spawning
<1>11. Serving /\ Spec => LS!Spec /\ []Serving
  BY <1>2, <1>3, <1>10, PTL DEF Spec, LS!Spec
<1>12. Hooking /\ Spec => HC!Spec /\ []Hooking
  BY <1>2, <1>3, <1>10, PTL DEF Spec, HC!Spec
<1>13. Commanding /\ Spec => TC!Spec /\ []Commanding
  BY <1>2, <1>3, <1>10, PTL DEF Spec, TC!Spec
<1>14. Spawning /\ Spec => SA!Spec /\ []Spawning
  BY <1>2, <1>3, PTL DEF Spec, SA!Spec
<1>15. Spec => /\ ~Serving => []~Serving
               /\ ~Hooking => []~Hooking
               /\ ~Commanding => []~Commanding
               /\ ~Spawning => []~Spawning
  BY <1>2, PTL DEF Spec
<1> QED
  BY <1>4, <1>5, <1>6, <1>7, <1>8, <1>11, <1>12, <1>13, <1>14, <1>15, PTL

(* The stores keep what was saved, whatever is asked of them and in whatever *)
(* order: models and their keys, data sources and their secrets, code roots  *)
(* and their clones, skills and what mentions them (modelConfigStorage.ts,   *)
(* workspaceConfigStorage.ts, credentialStorage.ts, projectsStorage.ts,      *)
(* skillsStorage.ts).                                                        *)
THEOREM StoresCorrect == Spec => []StoresKeep
<1> DEFINE Modelling == focus = "models"
           Sourcing == focus = "sources"
           Rooted == focus = "roots"
           Skilled == focus = "skills"
<1>1. SP!MR!Sown /\ SP!DS!Shared /\ SP!CR!Scanned /\ SP!SK!Slugged
  BY MainProcessAssumption
<1>2. /\ Modelling /\ [Next]_vars => Modelling' /\ [SP!MR!Next]_(SP!MR!vars)
      /\ Sourcing /\ [Next]_vars => Sourcing' /\ [SP!DS!Next]_(SP!DS!vars)
      /\ Rooted /\ [Next]_vars => Rooted' /\ [SP!CR!Next]_(SP!CR!vars)
      /\ Skilled /\ [Next]_vars => Skilled' /\ [SP!SK!Next]_(SP!SK!vars)
      /\ ~Modelling /\ [Next]_vars => ~Modelling'
      /\ ~Sourcing /\ [Next]_vars => ~Sourcing'
      /\ ~Rooted /\ [Next]_vars => ~Rooted'
      /\ ~Skilled /\ [Next]_vars => ~Skilled'
  BY FocusKept
<1>3. Init => SP!MR!Init /\ SP!DS!Init /\ SP!CR!Init /\ SP!SK!Init
  BY DEF Init
<1>4. SP!MR!Spec => []SP!MR!RegistryKept
  BY <1>1, SP!RegistryCorrect
<1>5. SP!DS!Spec => []SP!DS!SourcesKept
  BY <1>1, SP!SourcesCorrect
<1>6. SP!CR!Spec => []SP!CR!RootsSound
  BY <1>1, SP!RootsCorrect
<1>7. SP!SK!Spec => []SP!SK!SkillsKept
  BY <1>1, SP!SkillsCorrect
<1>8. /\ ~Modelling /\ ~Sourcing /\ ~Rooted /\ ~Skilled => StoresKeep
      /\ Modelling /\ SP!MR!RegistryKept => StoresKeep
      /\ Sourcing /\ SP!DS!SourcesKept => StoresKeep
      /\ Rooted /\ SP!CR!RootsSound => StoresKeep
      /\ Skilled /\ SP!SK!SkillsKept => StoresKeep
  BY DEF StoresKeep
<1> HIDE DEF Modelling, Sourcing, Rooted, Skilled
<1>9. Modelling /\ Spec => SP!MR!Spec /\ []Modelling
  BY <1>2, <1>3, PTL DEF Spec, SP!MR!Spec
<1>10. Sourcing /\ Spec => SP!DS!Spec /\ []Sourcing
  BY <1>2, <1>3, PTL DEF Spec, SP!DS!Spec
<1>11. Rooted /\ Spec => SP!CR!Spec /\ []Rooted
  BY <1>2, <1>3, PTL DEF Spec, SP!CR!Spec
<1>12. Skilled /\ Spec => SP!SK!Spec /\ []Skilled
  BY <1>2, <1>3, PTL DEF Spec, SP!SK!Spec
<1>13. Spec => /\ ~Modelling => []~Modelling
               /\ ~Sourcing => []~Sourcing
               /\ ~Rooted => []~Rooted
               /\ ~Skilled => []~Skilled
  BY <1>2, PTL DEF Spec
<1> QED
  BY <1>4, <1>5, <1>6, <1>7, <1>8, <1>9, <1>10, <1>11, <1>12, <1>13, PTL
=============================================================================
