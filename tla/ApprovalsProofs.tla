-------------------------- MODULE ApprovalsProofs --------------------------
(***************************************************************************)
(* What holds of the permission gate and of approvals.json, for any        *)
(* sessions, tokens and saves.                                             *)
(*                                                                         *)
(* Backed follows each pattern to an answer: those of a session to one of  *)
(* its own, those in a file body, in a save or read by a run to one that   *)
(* was to be persisted.  It does not care how saves interleave.  Serial    *)
(* follows the one save under way of an undisturbed history, stage by      *)
(* stage, up to the rename that makes its text the project's.              *)
(***************************************************************************)
EXTENDS Approvals, TLAPS

Save == [pc : {"idle", "read", "merged", "opened", "written", "over"},
         add : SUBSET Patterns, remove : SUBSET Patterns,
         current : SUBSET Patterns, fd : Bodies \cup {None}]
Answer == [session : Sessions, call : Calls, project : BOOLEAN]

(* A session's pattern was granted in it.                                    *)
GrantedIn(s, p) == \E a \in answers : a.session = s /\ p \in DeriveGrant(a.call)

(* A pattern was to be persisted, and is of the namespace that may be.       *)
ToPersist(p) == p \in Persistable /\ \E a \in answers : a.project /\ p \in DeriveGrant(a.call)

SessionsBacked == \A s \in Sessions : \A p \in allowlist[s] : GrantedIn(s, p)
RunsBacked == \A s \in Sessions : \A p \in seeded[s] : ToPersist(p)
BodiesBacked ==
  \A b \in Bodies : inode[b] # Torn => \A p \in inode[b] \cap Persistable : ToPersist(p)
SavesBacked == \A w \in Saves : \A p \in save[w].add \cup save[w].current : ToPersist(p)
Backed == SessionsBacked /\ RunsBacked /\ BodiesBacked /\ SavesBacked

(* Where the only save under way is, and what is lasting by then.            *)
Stage(w) ==
  /\ save[w].pc = "read" => /\ tmp = None
                            /\ lasting = (ProjectAllowlist \cup save[w].add) \ save[w].remove
  /\ save[w].pc = "merged" => tmp = None /\ lasting = save[w].current
  /\ save[w].pc = "opened" => /\ tmp # None /\ save[w].fd = tmp /\ inode[tmp] = Torn
                              /\ lasting = save[w].current
  /\ save[w].pc = "written" => tmp # None /\ save[w].fd = tmp /\ inode[tmp] = lasting

Serial ==
  ~disturbed =>
    /\ lasting \subseteq Persistable
    /\ SavesUnderWay = {} => tmp = None /\ ProjectAllowlist = lasting
    /\ \A w \in SavesUnderWay : Stage(w) /\ SavesUnderWay = {w}

(* What a body holds is patterns, once it can be read.                       *)
LEMMA Contained ==
  ASSUME Distinct, NEW c \in Contents
  PROVE  c # Torn <=> c \in SUBSET Patterns
BY DEF Distinct, Contents

(* The namespaces of the patterns are apart.                                 *)
LEMMA Namespaces ==
  /\ \A t, u : Bash(t) # NoSandbox(u) /\ Bash(t) # EditPattern /\ NoSandbox(t) # EditPattern
  /\ \A t, u : (Bash(t) = Bash(u) => t = u) /\ (NoSandbox(t) = NoSandbox(u) => t = u)
  /\ Persistable \subseteq Patterns /\ EditPattern \in Patterns
  /\ \A t \in Tokens : Bash(t) \in Persistable /\ NoSandbox(t) \notin Persistable
  /\ EditPattern \notin Persistable
<1>1. \A t, u : Bash(t) # NoSandbox(u) /\ Bash(t) # EditPattern /\ NoSandbox(t) # EditPattern
  BY DEF Bash, NoSandbox, EditPattern
<1>2. \A t, u : (Bash(t) = Bash(u) => t = u) /\ (NoSandbox(t) = NoSandbox(u) => t = u)
  BY DEF Bash, NoSandbox
<1> QED
  BY <1>1, <1>2 DEF Persistable, Patterns

(* What "always" adds for a call says which tool it was, and which tokens.   *)
LEMMA GrantSays ==
  ASSUME NEW call \in Calls
  PROVE  /\ DeriveGrant(call) \subseteq Patterns
         /\ EditPattern \in DeriveGrant(call) => call.tool = "edit_file"
         /\ \A t : Bash(t) \in DeriveGrant(call) =>
              call.tool = "bash" /\ ~call.escape /\ t \in call.tokens
         /\ \A t : NoSandbox(t) \in DeriveGrant(call) =>
              call.tool = "bash" /\ call.escape /\ t \in call.tokens
<1>1. CASE call.tool = "edit_file"
  <2>1. DeriveGrant(call) = {EditPattern}
    BY <1>1 DEF DeriveGrant
  <2> QED
    BY <1>1, <2>1, Namespaces
<1>2. CASE call.tool = "bash"
  <2>1. call.tokens \subseteq Tokens /\ call.escape \in BOOLEAN
    BY <1>2 DEF Calls
  <2>2. CASE call.escape
    <3>1. DeriveGrant(call) = {NoSandbox(t) : t \in call.tokens}
      BY <1>2, <2>2 DEF DeriveGrant
    <3> QED
      BY <1>2, <2>1, <2>2, <3>1, Namespaces DEF Patterns
  <2>3. CASE ~call.escape
    <3>1. DeriveGrant(call) = {Bash(t) : t \in call.tokens}
      BY <1>2, <2>3 DEF DeriveGrant
    <3> QED
      BY <1>2, <2>1, <2>3, <3>1, Namespaces DEF Patterns
  <2> QED
    BY <2>2, <2>3
<1>3. CASE call.tool # "edit_file" /\ call.tool # "bash"
  <2>1. DeriveGrant(call) = {}
    BY <1>3 DEF DeriveGrant
  <2> QED
    BY <2>1
<1> QED
  BY <1>1, <1>2, <1>3

-----------------------------------------------------------------------------
(* Types. *)

(* What a call of StartSave leaves.                                          *)
Started(w, add, remove) ==
  /\ save[w].pc = "idle"
  /\ save' = [save EXCEPT ![w] = [@ EXCEPT !.pc = "read", !.add = add, !.remove = remove]]

(* The project's patterns are of the namespace that may be persisted.        *)
LEMMA ProjectTyped == ProjectAllowlist \subseteq Persistable /\ ProjectAllowlist \subseteq Patterns
BY Namespaces DEF ProjectAllowlist

(* A save that moves on is still a save.                                     *)
LEMMA SaveTyped ==
  ASSUME NEW r \in Save
  PROVE  /\ \A c \in SUBSET Patterns :
              /\ [r EXCEPT !.pc = "merged", !.current = c] \in Save
              /\ [r EXCEPT !.pc = "merged", !.current = c].pc = "merged"
              /\ [r EXCEPT !.pc = "merged", !.current = c].add = r.add
              /\ [r EXCEPT !.pc = "merged", !.current = c].current = c
         /\ \A b \in Bodies :
              /\ [r EXCEPT !.pc = "opened", !.fd = b] \in Save
              /\ [r EXCEPT !.pc = "opened", !.fd = b].pc = "opened"
              /\ [r EXCEPT !.pc = "opened", !.fd = b].add = r.add
              /\ [r EXCEPT !.pc = "opened", !.fd = b].current = r.current
              /\ [r EXCEPT !.pc = "opened", !.fd = b].fd = b
         /\ [r EXCEPT !.pc = "written"] \in Save
         /\ [r EXCEPT !.pc = "written"].pc = "written"
         /\ [r EXCEPT !.pc = "written"].add = r.add
         /\ [r EXCEPT !.pc = "written"].current = r.current
         /\ [r EXCEPT !.pc = "written"].fd = r.fd
BY DEF Save

(* So is one that rests, and one that is over.                               *)
LEMMA OverTyped ==
  /\ Idle \in Save /\ Idle.pc = "idle"
  /\ [Idle EXCEPT !.pc = "over"] \in Save
  /\ [Idle EXCEPT !.pc = "over"].pc = "over"
  /\ [Idle EXCEPT !.pc = "over"].add = {} /\ [Idle EXCEPT !.pc = "over"].current = {}
BY DEF Idle, Save

(* TypeOK in these words.                                                    *)
LEMMA TypeParts ==
  TypeOK <=> /\ allowlist \in [Sessions -> SUBSET Patterns]
             /\ seeded \in [Sessions -> SUBSET Patterns]
             /\ inode \in [Bodies -> Contents]
             /\ approvals \in Bodies \cup {None}
             /\ tmp \in Bodies \cup {None}
             /\ save \in [Saves -> Save]
             /\ answers \subseteq Answer
             /\ lasting \in SUBSET Patterns
             /\ disturbed \in BOOLEAN
BY DEF TypeOK, Save, Answer

(* The program starts inside its types.                                      *)
LEMMA TypeInit == Init => TypeOK
<1> SUFFICES ASSUME Init PROVE TypeOK
  OBVIOUS
<1>1. save \in [Saves -> Save]
  BY OverTyped DEF Init
<1> QED
  BY <1>1, TypeParts DEF Init, Bodies, Contents

(* A save that may start does so inside the types.                           *)
LEMMA StartTyped ==
  ASSUME TypeOK, NEW w \in Saves, NEW add \in SUBSET Patterns, NEW remove \in SUBSET Patterns,
         StartSave(w, add, remove)
  PROVE  /\ save' \in [Saves -> Save] /\ lasting' \in SUBSET Patterns /\ disturbed' \in BOOLEAN
         /\ save[w].pc = "idle"
         /\ save'[w].pc = "read" /\ save'[w].add = add /\ save'[w].remove = remove
         /\ save'[w].current = save[w].current
         /\ \A v \in Saves : v # w => save'[v] = save[v]
<1> USE TypeParts
<1>1. save \in [Saves -> Save] /\ save[w] \in Save /\ save[w].pc = "idle"
  BY DEF StartSave
<1>2. save' = [save EXCEPT ![w] = [@ EXCEPT !.pc = "read", !.add = add, !.remove = remove]]
  BY DEF StartSave
<1> DEFINE r == [save[w] EXCEPT !.pc = "read", !.add = add, !.remove = remove]
<1>3. /\ r \in Save /\ r.pc = "read" /\ r.add = add /\ r.remove = remove
      /\ r.current = save[w].current
  BY <1>1 DEF Save
<1> HIDE DEF r
<1>4. save' = [save EXCEPT ![w] = r]
  BY <1>2 DEF r
<1>5. save' \in [Saves -> Save] /\ save'[w] = r /\ \A v \in Saves : v # w => save'[v] = save[v]
  BY <1>1, <1>3, <1>4
<1>6. lasting' \in SUBSET Patterns
  BY DEF StartSave
<1>7. disturbed' \in BOOLEAN
  BY DEF StartSave
<1> QED
  BY <1>1, <1>3, <1>5, <1>6, <1>7

(* What a save is when it has merged,                                        *)
LEMMA MergedSave ==
  ASSUME TypeOK, NEW w \in Saves, NEW c \in SUBSET Patterns,
         save' = [save EXCEPT ![w] = [@ EXCEPT !.pc = "merged", !.current = c]]
  PROVE  /\ save'[w].pc = "merged"
         /\ save'[w].current = c
         /\ save'[w].add = save[w].add
         /\ save'[w].remove = save[w].remove
         /\ save'[w].fd = save[w].fd
         /\ \A v \in Saves : v # w => save'[v] = save[v]
BY TypeParts DEF Save

(* when it has opened the temporary file,                                    *)
LEMMA OpenedSave ==
  ASSUME TypeOK, NEW w \in Saves, NEW b \in Bodies,
         save' = [save EXCEPT ![w] = [@ EXCEPT !.pc = "opened", !.fd = b]]
  PROVE  /\ save'[w].pc = "opened"
         /\ save'[w].fd = b
         /\ save'[w].add = save[w].add
         /\ save'[w].remove = save[w].remove
         /\ save'[w].current = save[w].current
         /\ \A v \in Saves : v # w => save'[v] = save[v]
BY TypeParts DEF Save

(* and when it has written its text.                                         *)
LEMMA WrittenSave ==
  ASSUME TypeOK, NEW w \in Saves,
         save' = [save EXCEPT ![w] = [@ EXCEPT !.pc = "written"]]
  PROVE  /\ save'[w].pc = "written"
         /\ save'[w].add = save[w].add
         /\ save'[w].remove = save[w].remove
         /\ save'[w].current = save[w].current
         /\ save'[w].fd = save[w].fd
         /\ \A v \in Saves : v # w => save'[v] = save[v]
BY TypeParts DEF Save

(* Each step keeps the program inside its types.                             *)
LEMMA TypeStep == Distinct /\ TypeOK /\ [Next]_vars => TypeOK'
<1> SUFFICES ASSUME Distinct, TypeOK, [Next]_vars PROVE TypeOK'
  OBVIOUS
<1>0. /\ allowlist \in [Sessions -> SUBSET Patterns]
      /\ seeded \in [Sessions -> SUBSET Patterns]
      /\ inode \in [Bodies -> Contents]
      /\ approvals \in Bodies \cup {None}
      /\ tmp \in Bodies \cup {None}
      /\ save \in [Saves -> Save]
      /\ answers \subseteq Answer
      /\ lasting \in SUBSET Patterns
      /\ disturbed \in BOOLEAN
  BY TypeParts
<1> SUFFICES /\ allowlist' \in [Sessions -> SUBSET Patterns]
             /\ seeded' \in [Sessions -> SUBSET Patterns]
             /\ inode' \in [Bodies -> Contents]
             /\ approvals' \in Bodies \cup {None}
             /\ tmp' \in Bodies \cup {None}
             /\ save' \in [Saves -> Save]
             /\ answers' \subseteq Answer
             /\ lasting' \in SUBSET Patterns
             /\ disturbed' \in BOOLEAN
  BY DEF TypeOK, Save, Answer
<1>1. ASSUME NEW s \in Sessions, StartRun(s)
      PROVE  seeded' \in [Sessions -> SUBSET Patterns]
  BY <1>0, <1>1, ProjectTyped DEF StartRun
<1>2. ASSUME NEW s \in Sessions, NEW call \in Calls, NEW forProject \in BOOLEAN,
             Always(s, call, forProject)
      PROVE  /\ allowlist' \in [Sessions -> SUBSET Patterns] /\ answers' \subseteq Answer
             /\ save' \in [Saves -> Save] /\ lasting' \in SUBSET Patterns /\ disturbed' \in BOOLEAN
  <2>1. DeriveGrant(call) \subseteq Patterns
    BY GrantSays
  <2>2. allowlist' \in [Sessions -> SUBSET Patterns]
    BY <1>0, <1>2, <2>1 DEF Always
  <2>3. answers' \subseteq Answer
    BY <1>0, <1>2 DEF Always, Answer
  <2>4. CASE forProject
    <3>1. PICK w \in Saves : StartSave(w, DeriveGrant(call) \cap Persistable, {})
      BY <1>2, <2>4 DEF Always
    <3> QED
      BY <2>1, <2>2, <2>3, <3>1, StartTyped
  <2>5. CASE ~forProject
    BY <1>0, <1>2, <2>2, <2>3, <2>5 DEF Always
  <2> QED
    BY <2>4, <2>5
<1>3. ASSUME NEW w \in Saves, NEW pattern \in Persistable, Revoke(w, pattern)
      PROVE  save' \in [Saves -> Save] /\ lasting' \in SUBSET Patterns /\ disturbed' \in BOOLEAN
  BY <1>3, StartTyped, Namespaces DEF Revoke
<1>4. ASSUME NEW w \in Saves, ReadAndMerge(w)
      PROVE  save' \in [Saves -> Save]
  <2> DEFINE c == (ProjectAllowlist \cup save[w].add) \ save[w].remove
  <2>1. save[w] \in Save
    BY <1>0
  <2>2. c \in SUBSET Patterns
    BY <2>1, ProjectTyped DEF Save
  <2>3. [save[w] EXCEPT !.pc = "merged", !.current = c] \in Save
    BY <2>1, <2>2, SaveTyped
  <2> QED
    BY <1>0, <1>4, <2>3 DEF ReadAndMerge
<1>5. ASSUME NEW w \in Saves, OpenTmp(w)
      PROVE  /\ save' \in [Saves -> Save] /\ tmp' \in Bodies \cup {None}
             /\ inode' \in [Bodies -> Contents]
  <2>1. PICK body \in Bodies : body = IF tmp = None THEN w ELSE tmp
    BY <1>0 DEF Bodies
  <2>2. /\ tmp' = body /\ inode' = [inode EXCEPT ![body] = Torn]
        /\ save' = [save EXCEPT ![w] = [@ EXCEPT !.pc = "opened", !.fd = body]]
    BY <1>5, <2>1 DEF OpenTmp
  <2>3. [save[w] EXCEPT !.pc = "opened", !.fd = body] \in Save
    BY <1>0, SaveTyped
  <2> QED
    BY <1>0, <2>2, <2>3 DEF Contents
<1>6. ASSUME NEW w \in Saves, WriteTmp(w)
      PROVE  save' \in [Saves -> Save] /\ inode' \in [Bodies -> Contents]
  <2>1. save[w] \in Save
    BY <1>0
  <2>2. \E text \in Contents : inode' = [inode EXCEPT ![save[w].fd] = text]
    BY <1>6, <2>1 DEF WriteTmp, Contents, Save
  <2>3. [save[w] EXCEPT !.pc = "written"] \in Save
    BY <2>1, SaveTyped
  <2> QED
    BY <1>0, <1>6, <2>2, <2>3 DEF WriteTmp
<1>7. ASSUME NEW w \in Saves, Rename(w)
      PROVE  /\ save' \in [Saves -> Save] /\ approvals' \in Bodies \cup {None}
             /\ tmp' \in Bodies \cup {None}
  BY <1>0, <1>7, OverTyped DEF Rename
<1>8. ASSUME Crash
      PROVE  /\ allowlist' \in [Sessions -> SUBSET Patterns]
             /\ seeded' \in [Sessions -> SUBSET Patterns]
             /\ save' \in [Saves -> Save] /\ answers' \subseteq Answer /\ disturbed' \in BOOLEAN
  BY <1>0, <1>8, OverTyped DEF Crash
<1>9. ASSUME NEW pattern \in Smuggled, EditByHand(pattern)
      PROVE  inode' \in [Bodies -> Contents]
  <2>1. /\ approvals \in Bodies /\ inode[approvals] \in SUBSET Patterns
    BY <1>0, <1>9, Contained DEF EditByHand
  <2>2. inode[approvals] \cup {pattern} \in Contents
    BY <2>1 DEF Distinct, Contents
  <2> QED
    BY <1>0, <1>9, <2>2 DEF EditByHand
<1>10. CASE UNCHANGED vars
  BY <1>0, <1>10 DEF vars, storeVars, historyVars
<1> QED
  <2>1. ASSUME NEW s \in Sessions, StartRun(s)
        PROVE  UNCHANGED <<allowlist, storeVars, historyVars>>
    BY <2>1 DEF StartRun
  <2>2. ASSUME NEW s \in Sessions, NEW call \in Calls, NEW forProject \in BOOLEAN,
               Always(s, call, forProject)
        PROVE  UNCHANGED <<seeded, inode, approvals, tmp>>
    BY <2>2 DEF Always
  <2>3. ASSUME NEW w \in Saves, NEW pattern \in Persistable, Revoke(w, pattern)
        PROVE  UNCHANGED <<allowlist, seeded, inode, approvals, tmp, answers>>
    BY <2>3 DEF Revoke
  <2>4. ASSUME NEW w \in Saves, ReadAndMerge(w)
        PROVE  UNCHANGED <<allowlist, seeded, inode, approvals, tmp, historyVars>>
    BY <2>4 DEF ReadAndMerge
  <2>5. ASSUME NEW w \in Saves, OpenTmp(w)
        PROVE  UNCHANGED <<allowlist, seeded, approvals, historyVars>>
    BY <2>5 DEF OpenTmp
  <2>6. ASSUME NEW w \in Saves, WriteTmp(w)
        PROVE  UNCHANGED <<allowlist, seeded, approvals, tmp, historyVars>>
    BY <2>6 DEF WriteTmp
  <2>7. ASSUME NEW w \in Saves, Rename(w)
        PROVE  UNCHANGED <<allowlist, seeded, inode, historyVars>>
    BY <2>7 DEF Rename
  <2>8. ASSUME Crash
        PROVE  UNCHANGED <<inode, approvals, tmp, lasting>>
    BY <2>8 DEF Crash
  <2>9. ASSUME NEW pattern \in Smuggled, EditByHand(pattern)
        PROVE  UNCHANGED <<allowlist, seeded, approvals, tmp, save, historyVars>>
    BY <2>9 DEF EditByHand
  <2> USE <1>0 DEF storeVars, historyVars
  <2>11. CASE \E s \in Sessions : StartRun(s)
    BY <2>11, <1>1, <2>1
  <2>12. CASE \E s \in Sessions, call \in Calls, forProject \in BOOLEAN : Always(s, call, forProject)
    BY <2>12, <1>2, <2>2
  <2>13. CASE \E w \in Saves, pattern \in Persistable : Revoke(w, pattern)
    BY <2>13, <1>3, <2>3
  <2>14. CASE \E w \in Saves : ReadAndMerge(w)
    BY <2>14, <1>4, <2>4
  <2>15. CASE \E w \in Saves : OpenTmp(w)
    BY <2>15, <1>5, <2>5
  <2>16. CASE \E w \in Saves : WriteTmp(w)
    BY <2>16, <1>6, <2>6
  <2>17. CASE \E w \in Saves : Rename(w)
    BY <2>17, <1>7, <2>7
  <2>18. CASE Crash
    BY <2>18, <1>8, <2>8
  <2>19. CASE \E pattern \in Smuggled : EditByHand(pattern)
    BY <2>19, <1>9, <2>9
  <2> QED
    BY <1>10, <2>11, <2>12, <2>13, <2>14, <2>15, <2>16, <2>17, <2>18, <2>19 DEF Next

-----------------------------------------------------------------------------
(* Who asked for what. *)

(* What a save that starts adds was asked for, if its patterns were.         *)
LEMMA StartBacked ==
  ASSUME TypeOK, SavesBacked, NEW w \in Saves, NEW add \in SUBSET Patterns,
         NEW remove \in SUBSET Patterns, StartSave(w, add, remove),
         \A p : ToPersist(p) => ToPersist(p)', \A p \in add : ToPersist(p)'
  PROVE  SavesBacked'
<1> SUFFICES ASSUME NEW v \in Saves, NEW p \in save'[v].add \cup save'[v].current
             PROVE  ToPersist(p)'
  BY DEF SavesBacked
<1>1. CASE v = w
  <2>1. p \in add \/ p \in save[w].current
    BY <1>1, StartTyped
  <2> QED
    BY <2>1 DEF SavesBacked
<1>2. CASE v # w
  <2>1. save'[v] = save[v]
    BY <1>2, StartTyped
  <2> QED
    BY <2>1 DEF SavesBacked
<1> QED
  BY <1>1, <1>2

(* The project's patterns were to be persisted.                              *)
LEMMA ProjectBacked ==
  ASSUME TypeOK, BodiesBacked
  PROVE  \A p \in ProjectAllowlist : ToPersist(p)
BY DEF ProjectAllowlist, BodiesBacked, TypeOK

(* No step puts a pattern anywhere that nobody asked for there.              *)
LEMMA BackedStep == Distinct /\ TypeOK /\ Backed /\ [Next]_vars => Backed'
<1> SUFFICES ASSUME Distinct, TypeOK, Backed, [Next]_vars PROVE Backed'
  OBVIOUS
<1>0. SessionsBacked /\ RunsBacked /\ BodiesBacked /\ SavesBacked
  BY DEF Backed
<1>t. /\ allowlist \in [Sessions -> SUBSET Patterns]
      /\ seeded \in [Sessions -> SUBSET Patterns]
      /\ inode \in [Bodies -> Contents]
      /\ approvals \in Bodies \cup {None}
      /\ tmp \in Bodies \cup {None}
      /\ save \in [Saves -> Save]
  BY TypeParts
<1>1. ASSUME NEW s \in Sessions, StartRun(s) PROVE Backed'
  <2>1. UNCHANGED <<allowlist, inode, save, answers>>
    BY <1>1 DEF StartRun, storeVars, historyVars
  <2>2. RunsBacked'
    BY <1>0, <1>1, <1>t, <2>1, ProjectBacked DEF StartRun, RunsBacked, ToPersist
  <2>3. SessionsBacked' /\ BodiesBacked' /\ SavesBacked'
    BY <1>0, <2>1 DEF SessionsBacked, GrantedIn, BodiesBacked, SavesBacked, ToPersist
  <2> QED
    BY <2>2, <2>3 DEF Backed
<1>2. ASSUME NEW s \in Sessions, NEW call \in Calls, NEW forProject \in BOOLEAN,
             Always(s, call, forProject)
      PROVE  Backed'
  <2> DEFINE a == [session |-> s, call |-> call, project |-> forProject]
  <2>1. /\ allowlist' = [allowlist EXCEPT ![s] = @ \cup DeriveGrant(call)]
        /\ answers' = answers \cup {a} /\ UNCHANGED <<seeded, inode>>
    BY <1>2 DEF Always
  <2>2. \A p : ToPersist(p) => ToPersist(p)'
    BY <2>1 DEF ToPersist
  <2>3. SessionsBacked'
    <3> SUFFICES ASSUME NEW z \in Sessions, NEW p \in allowlist'[z] PROVE GrantedIn(z, p)'
      BY DEF SessionsBacked
    <3>1. CASE p \in allowlist[z]
      BY <1>0, <2>1, <3>1 DEF SessionsBacked, GrantedIn
    <3>2. CASE p \notin allowlist[z]
      <4>1. z = s /\ p \in DeriveGrant(call)
        BY <1>t, <2>1, <3>2
      <4>2. a \in answers' /\ a.session = s /\ a.call = call
        BY <2>1
      <4> QED
        BY <4>1, <4>2 DEF GrantedIn
    <3> QED
      BY <3>1, <3>2
  <2>4. RunsBacked' /\ BodiesBacked'
    BY <1>0, <2>1, <2>2 DEF RunsBacked, BodiesBacked
  <2>5. SavesBacked'
    <3>1. CASE forProject
      <4>1. PICK w \in Saves : StartSave(w, DeriveGrant(call) \cap Persistable, {})
        BY <1>2, <3>1 DEF Always
      <4>2. \A p \in DeriveGrant(call) \cap Persistable : ToPersist(p)'
        <5>1. a \in answers' /\ a.project /\ a.call = call
          BY <2>1, <3>1
        <5> QED
          BY <5>1 DEF ToPersist, Persistable
      <4>3. DeriveGrant(call) \cap Persistable \in SUBSET Patterns
        BY Namespaces
      <4> QED
        BY <1>0, <2>2, <4>1, <4>2, <4>3, StartBacked
    <3>2. CASE ~forProject
      <4>1. save' = save
        BY <1>2, <3>2 DEF Always
      <4> QED
        BY <1>0, <2>2, <4>1 DEF SavesBacked
    <3> QED
      BY <3>1, <3>2
  <2> QED
    BY <2>3, <2>4, <2>5 DEF Backed
<1>3. ASSUME NEW w \in Saves, NEW pattern \in Persistable, Revoke(w, pattern) PROVE Backed'
  <2>1. UNCHANGED <<allowlist, seeded, inode, answers>> /\ StartSave(w, {}, {pattern})
    BY <1>3 DEF Revoke
  <2>2. \A p : ToPersist(p) <=> ToPersist(p)'
    BY <2>1 DEF ToPersist
  <2>3. SavesBacked'
    BY <1>0, <2>1, <2>2, StartBacked, Namespaces
  <2>4. SessionsBacked' /\ RunsBacked' /\ BodiesBacked'
    BY <1>0, <2>1 DEF SessionsBacked, GrantedIn, RunsBacked, BodiesBacked, ToPersist
  <2> QED
    BY <2>3, <2>4 DEF Backed
<1>4. ASSUME NEW w \in Saves, ReadAndMerge(w) PROVE Backed'
  <2> DEFINE c == (ProjectAllowlist \cup save[w].add) \ save[w].remove
  <2>1. UNCHANGED <<allowlist, seeded, inode, answers>>
    BY <1>4 DEF ReadAndMerge, historyVars
  <2>2. save' = [save EXCEPT ![w] = [@ EXCEPT !.pc = "merged", !.current = c]]
    BY <1>4 DEF ReadAndMerge
  <2>3. c \in SUBSET Patterns
    BY <1>t, ProjectTyped DEF Save
  <2>4. save'[w].add = save[w].add /\ save'[w].current = c
    BY <2>2, <2>3, MergedSave
  <2>5. \A v \in Saves : v # w => save'[v] = save[v]
    BY <2>2, <2>3, MergedSave
  <2>6. \A p \in c : ToPersist(p)
    BY <1>0, ProjectBacked DEF SavesBacked
  <2>7. SavesBacked'
    BY <1>0, <2>1, <2>4, <2>5, <2>6 DEF SavesBacked, ToPersist
  <2>8. SessionsBacked' /\ RunsBacked' /\ BodiesBacked'
    BY <1>0, <2>1 DEF SessionsBacked, GrantedIn, RunsBacked, BodiesBacked, ToPersist
  <2> QED
    BY <2>7, <2>8 DEF Backed
<1>5. ASSUME NEW w \in Saves, OpenTmp(w) PROVE Backed'
  <2>1. UNCHANGED <<allowlist, seeded, answers>>
    BY <1>5 DEF OpenTmp, historyVars
  <2>2. PICK body \in Bodies : body = IF tmp = None THEN w ELSE tmp
    BY <1>t DEF Bodies
  <2>3. /\ inode' = [inode EXCEPT ![body] = Torn]
        /\ save' = [save EXCEPT ![w] = [@ EXCEPT !.pc = "opened", !.fd = body]]
    BY <1>5, <2>2 DEF OpenTmp
  <2>4. /\ save'[w].add = save[w].add /\ save'[w].current = save[w].current
        /\ \A v \in Saves : v # w => save'[v] = save[v]
    BY <2>3, OpenedSave
  <2>5. SavesBacked'
    BY <1>0, <2>1, <2>4 DEF SavesBacked, ToPersist
  <2>6. BodiesBacked'
    BY <1>0, <1>t, <2>1, <2>3 DEF BodiesBacked, ToPersist
  <2>7. SessionsBacked' /\ RunsBacked'
    BY <1>0, <2>1 DEF SessionsBacked, GrantedIn, RunsBacked, ToPersist
  <2> QED
    BY <2>5, <2>6, <2>7 DEF Backed
<1>6. ASSUME NEW w \in Saves, WriteTmp(w) PROVE Backed'
  <2>1. UNCHANGED <<allowlist, seeded, answers>>
    BY <1>6 DEF WriteTmp, historyVars
  <2>2. PICK text \in {save[w].current, Torn} : inode' = [inode EXCEPT ![save[w].fd] = text]
    BY <1>6 DEF WriteTmp
  <2>3. save' = [save EXCEPT ![w] = [@ EXCEPT !.pc = "written"]]
    BY <1>6 DEF WriteTmp
  <2>4. /\ save'[w].add = save[w].add /\ save'[w].current = save[w].current
        /\ \A v \in Saves : v # w => save'[v] = save[v]
    BY <2>3, WrittenSave
  <2>5. SavesBacked'
    BY <1>0, <2>1, <2>4 DEF SavesBacked, ToPersist
  <2>6. BodiesBacked'
    <3> SUFFICES ASSUME NEW b \in Bodies, inode'[b] # Torn, NEW p \in inode'[b] \cap Persistable
                 PROVE  ToPersist(p)'
      BY DEF BodiesBacked
    <3>1. inode'[b] = inode[b] \/ inode'[b] = save[w].current
      BY <1>t, <2>2
    <3>2. ToPersist(p)
      BY <1>0, <3>1 DEF BodiesBacked, SavesBacked
    <3> QED
      BY <2>1, <3>2 DEF ToPersist
  <2>7. SessionsBacked' /\ RunsBacked'
    BY <1>0, <2>1 DEF SessionsBacked, GrantedIn, RunsBacked, ToPersist
  <2> QED
    BY <2>5, <2>6, <2>7 DEF Backed
<1>7. ASSUME NEW w \in Saves, Rename(w) PROVE Backed'
  <2>1. UNCHANGED <<allowlist, seeded, inode, answers>>
    BY <1>7 DEF Rename, historyVars
  <2>2. save' = [save EXCEPT ![w] = [Idle EXCEPT !.pc = "over"]]
    BY <1>7 DEF Rename
  <2>3. /\ save'[w].add = {} /\ save'[w].current = {}
        /\ \A v \in Saves : v # w => save'[v] = save[v]
    BY <1>t, <2>2, OverTyped
  <2>4. SavesBacked'
    BY <1>0, <2>1, <2>3 DEF SavesBacked, ToPersist
  <2>5. SessionsBacked' /\ RunsBacked' /\ BodiesBacked'
    BY <1>0, <2>1 DEF SessionsBacked, GrantedIn, RunsBacked, BodiesBacked, ToPersist
  <2> QED
    BY <2>4, <2>5 DEF Backed
<1>8. ASSUME Crash PROVE Backed'
  <2>1. /\ allowlist' = [s \in Sessions |-> {}] /\ seeded' = [s \in Sessions |-> {}]
        /\ answers' = {a \in answers : a.project} /\ inode' = inode
    BY <1>8 DEF Crash
  <2>2. \A p : ToPersist(p) => ToPersist(p)'
    BY <2>1 DEF ToPersist
  <2>3. SessionsBacked' /\ RunsBacked'
    BY <2>1 DEF SessionsBacked, RunsBacked
  <2>4. BodiesBacked'
    BY <1>0, <2>1, <2>2 DEF BodiesBacked
  <2>5. \A w \in Saves : save'[w] = save[w] \/ (save'[w].add = {} /\ save'[w].current = {})
    BY <1>8, OverTyped DEF Crash
  <2>6. SavesBacked'
    BY <1>0, <2>2, <2>5 DEF SavesBacked
  <2> QED
    BY <2>3, <2>4, <2>6 DEF Backed
<1>9. ASSUME NEW pattern \in Smuggled, EditByHand(pattern) PROVE Backed'
  <2>1. UNCHANGED <<allowlist, seeded, save, answers>>
    BY <1>9 DEF EditByHand, historyVars
  <2>2. /\ approvals \in Bodies /\ inode[approvals] # Torn
        /\ inode' = [inode EXCEPT ![approvals] = @ \cup {pattern}]
    BY <1>9, <1>t DEF EditByHand
  <2>3. pattern \notin Persistable
    BY DEF Distinct
  <2>4. BodiesBacked'
    <3> SUFFICES ASSUME NEW b \in Bodies, inode'[b] # Torn, NEW p \in inode'[b] \cap Persistable
                 PROVE  ToPersist(p)'
      BY DEF BodiesBacked
    <3>1. inode[b] # Torn /\ p \in inode[b]
      BY <1>t, <2>2, <2>3
    <3>2. ToPersist(p)
      BY <1>0, <3>1 DEF BodiesBacked
    <3> QED
      BY <2>1, <3>2 DEF ToPersist
  <2>5. SessionsBacked' /\ RunsBacked' /\ SavesBacked'
    BY <1>0, <2>1 DEF SessionsBacked, GrantedIn, RunsBacked, SavesBacked, ToPersist
  <2> QED
    BY <2>4, <2>5 DEF Backed
<1>10. CASE UNCHANGED vars
  BY <1>0, <1>10 DEF vars, storeVars, historyVars, Backed, SessionsBacked, RunsBacked,
     BodiesBacked, SavesBacked, GrantedIn, ToPersist
<1> QED
  BY <1>1, <1>2, <1>3, <1>4, <1>5, <1>6, <1>7, <1>8, <1>9, <1>10 DEF Next

-----------------------------------------------------------------------------
(* One save at a time. *)

(* Which saves are under way after a step of one.                            *)
LEMMA UnderWay ==
  ASSUME NEW w \in Saves, SavesUnderWay \subseteq {w}, \A v \in Saves : v # w => save'[v] = save[v]
  PROVE  /\ save'[w].pc \notin {"idle", "over"} => SavesUnderWay' = {w}
         /\ save'[w].pc \in {"idle", "over"} => SavesUnderWay' = {}
BY DEF SavesUnderWay

(* What Serial says after a step of a save, put together.                    *)
LEMMA SerialAgain ==
  ASSUME lasting' \subseteq Persistable,
         \/ \E w \in Saves : SavesUnderWay' = {w} /\ Stage(w)'
         \/ SavesUnderWay' = {} /\ tmp' = None /\ ProjectAllowlist' = lasting'
  PROVE  Serial'
BY DEF Serial

(* A save that starts alone reads what is lasting.                           *)
LEMMA SerialStart ==
  ASSUME TypeOK, Serial, NEW w \in Saves, NEW add \in SUBSET Persistable,
         NEW remove \in SUBSET Patterns, StartSave(w, add, remove),
         UNCHANGED <<inode, approvals, tmp>>, ~disturbed'
  PROVE  Serial'
<1>1. ~disturbed /\ SavesUnderWay = {}
  BY DEF StartSave
<1>2. lasting \subseteq Persistable /\ tmp = None /\ ProjectAllowlist = lasting
  BY <1>1 DEF Serial
<1>3. add \in SUBSET Patterns
  BY Namespaces
<1>4. /\ save'[w].pc = "read" /\ save'[w].add = add /\ save'[w].remove = remove
      /\ \A v \in Saves : v # w => save'[v] = save[v]
  BY <1>3, StartTyped
<1>5. SavesUnderWay' = {w}
  BY <1>1, <1>4, UnderWay
<1>6. lasting' = (lasting \cup add) \ remove
  BY DEF StartSave
<1>7. ProjectAllowlist' = ProjectAllowlist
  BY DEF ProjectAllowlist
<1>8. Stage(w)'
  BY <1>2, <1>4, <1>6, <1>7 DEF Stage
<1>9. lasting' \subseteq Persistable
  BY <1>2, <1>6
<1> QED
  BY <1>5, <1>8, <1>9, SerialAgain

(* Saves that ran one at a time left what they should.                       *)
LEMMA SerialStep == Distinct /\ TypeOK /\ Serial /\ [Next]_vars => Serial'
<1> SUFFICES ASSUME Distinct, TypeOK, Serial, [Next]_vars, ~disturbed' PROVE Serial'
  BY DEF Serial
<1>t. /\ inode \in [Bodies -> Contents]
      /\ approvals \in Bodies \cup {None}
      /\ tmp \in Bodies \cup {None}
      /\ save \in [Saves -> Save]
      /\ disturbed \in BOOLEAN
  BY TypeParts
<1>m. ASSUME NEW w \in Saves, w \in SavesUnderWay, UNCHANGED historyVars
      PROVE  /\ SavesUnderWay = {w} /\ Stage(w) /\ lasting \subseteq Persistable
             /\ lasting' = lasting
  BY <1>m DEF Serial, historyVars
<1>1. ASSUME NEW s \in Sessions, StartRun(s) PROVE Serial'
  BY <1>1 DEF StartRun, storeVars, historyVars, Serial, SavesUnderWay, Stage, ProjectAllowlist
<1>2. ASSUME NEW s \in Sessions, NEW call \in Calls, NEW forProject \in BOOLEAN,
             Always(s, call, forProject)
      PROVE  Serial'
  <2>1. UNCHANGED <<inode, approvals, tmp>>
    BY <1>2 DEF Always
  <2>2. CASE forProject
    <3>1. PICK w \in Saves : StartSave(w, DeriveGrant(call) \cap Persistable, {})
      BY <1>2, <2>2 DEF Always
    <3> QED
      BY <2>1, <3>1, SerialStart
  <2>3. CASE ~forProject
    <3>1. UNCHANGED <<save, lasting, disturbed>>
      BY <1>2, <2>3 DEF Always
    <3> QED
      BY <2>1, <3>1 DEF Serial, SavesUnderWay, Stage, ProjectAllowlist
  <2> QED
    BY <2>2, <2>3
<1>3. ASSUME NEW w \in Saves, NEW pattern \in Persistable, Revoke(w, pattern) PROVE Serial'
  <2>1. StartSave(w, {}, {pattern}) /\ UNCHANGED <<inode, approvals, tmp>>
    BY <1>3 DEF Revoke
  <2> QED
    BY <2>1, SerialStart, Namespaces
<1>4. ASSUME NEW w \in Saves, ReadAndMerge(w) PROVE Serial'
  <2> DEFINE c == (ProjectAllowlist \cup save[w].add) \ save[w].remove
  <2>1. /\ save[w].pc = "read" /\ UNCHANGED <<inode, approvals, tmp, historyVars>>
        /\ save' = [save EXCEPT ![w] = [@ EXCEPT !.pc = "merged", !.current = c]]
    BY <1>4 DEF ReadAndMerge
  <2>2. c \in SUBSET Patterns
    BY <1>t, ProjectTyped DEF Save
  <2>3. /\ save'[w].pc = "merged" /\ save'[w].current = c
        /\ \A v \in Saves : v # w => save'[v] = save[v]
    BY <2>1, <2>2, MergedSave
  <2>4. SavesUnderWay = {w} /\ Stage(w) /\ lasting \subseteq Persistable /\ lasting' = lasting
    BY <1>m, <2>1 DEF SavesUnderWay
  <2>5. SavesUnderWay' = {w}
    BY <2>3, <2>4, UnderWay
  <2>6. tmp = None /\ lasting = c
    BY <2>1, <2>4 DEF Stage
  <2>7. Stage(w)'
    BY <2>1, <2>3, <2>4, <2>6 DEF Stage
  <2> QED
    BY <2>4, <2>5, <2>7, SerialAgain
<1>5. ASSUME NEW w \in Saves, OpenTmp(w) PROVE Serial'
  <2>1. /\ save[w].pc = "merged" /\ UNCHANGED <<approvals, historyVars>>
    BY <1>5 DEF OpenTmp
  <2>2. SavesUnderWay = {w} /\ Stage(w) /\ lasting \subseteq Persistable /\ lasting' = lasting
    BY <1>m, <2>1 DEF SavesUnderWay
  <2>3. tmp = None /\ lasting = save[w].current
    BY <2>1, <2>2 DEF Stage
  <2>4. /\ tmp' = w /\ inode' = [inode EXCEPT ![w] = Torn]
        /\ save' = [save EXCEPT ![w] = [@ EXCEPT !.pc = "opened", !.fd = w]]
    BY <1>5, <2>3 DEF OpenTmp
  <2>5. w \in Bodies /\ w # None
    BY DEF Bodies, Distinct
  <2>6. /\ save'[w].pc = "opened" /\ save'[w].fd = w /\ save'[w].current = save[w].current
        /\ \A v \in Saves : v # w => save'[v] = save[v]
    BY <2>4, <2>5, OpenedSave
  <2>7. SavesUnderWay' = {w}
    BY <2>2, <2>6, UnderWay
  <2>8. inode'[w] = Torn
    BY <1>t, <2>4, <2>5
  <2>9. Stage(w)'
    BY <2>2, <2>3, <2>4, <2>5, <2>6, <2>8 DEF Stage
  <2> QED
    BY <2>2, <2>7, <2>9, SerialAgain
<1>6. ASSUME NEW w \in Saves, WriteTmp(w) PROVE Serial'
  <2>1. /\ save[w].pc = "opened" /\ UNCHANGED <<approvals, tmp, historyVars>>
        /\ save' = [save EXCEPT ![w] = [@ EXCEPT !.pc = "written"]]
    BY <1>6 DEF WriteTmp
  <2>2. SavesUnderWay = {w} /\ Stage(w) /\ lasting \subseteq Persistable /\ lasting' = lasting
    BY <1>m, <2>1 DEF SavesUnderWay
  <2>3. /\ tmp # None /\ save[w].fd = tmp /\ inode[tmp] = Torn
        /\ lasting = save[w].current
    BY <2>1, <2>2 DEF Stage
  <2>4. inode' = [inode EXCEPT ![tmp] = save[w].current]
    BY <1>6, <2>3 DEF WriteTmp
  <2>5. /\ save'[w].pc = "written" /\ save'[w].fd = tmp
        /\ \A v \in Saves : v # w => save'[v] = save[v]
    BY <2>1, <2>3, WrittenSave
  <2>6. SavesUnderWay' = {w}
    BY <2>2, <2>5, UnderWay
  <2>7. inode'[tmp] = lasting
    BY <1>t, <2>3, <2>4
  <2>8. Stage(w)'
    BY <2>1, <2>2, <2>3, <2>5, <2>7 DEF Stage
  <2> QED
    BY <2>2, <2>6, <2>8, SerialAgain
<1>7. ASSUME NEW w \in Saves, Rename(w) PROVE Serial'
  <2>1. /\ save[w].pc = "written" /\ UNCHANGED <<inode, historyVars>>
        /\ save' = [save EXCEPT ![w] = [Idle EXCEPT !.pc = "over"]]
    BY <1>7 DEF Rename
  <2>2. SavesUnderWay = {w} /\ Stage(w) /\ lasting \subseteq Persistable /\ lasting' = lasting
    BY <1>m, <2>1 DEF SavesUnderWay
  <2>3. tmp # None /\ inode[tmp] = lasting
    BY <2>1, <2>2 DEF Stage
  <2>4. approvals' = tmp /\ tmp' = None
    BY <1>7, <2>3 DEF Rename
  <2>5. save'[w].pc = "over" /\ \A v \in Saves : v # w => save'[v] = save[v]
    BY <1>t, <2>1, OverTyped
  <2>6. SavesUnderWay' = {}
    BY <2>2, <2>5, UnderWay
  <2>7. lasting # Torn
    BY <2>2, Namespaces DEF Distinct
  <2>8. ProjectAllowlist' = lasting
    <3>1. approvals' # None /\ inode'[approvals'] = lasting
      BY <2>1, <2>3, <2>4
    <3>2. ProjectAllowlist' = inode'[approvals'] \cap Persistable
      BY <2>7, <3>1 DEF ProjectAllowlist
    <3> QED
      BY <2>2, <3>1, <3>2
  <2> QED
    BY <2>2, <2>4, <2>6, <2>8, SerialAgain
<1>8. ASSUME Crash PROVE Serial'
  <2>1. ~disturbed /\ SavesUnderWay = {} /\ UNCHANGED <<inode, approvals, tmp, lasting>>
    BY <1>8, <1>t DEF Crash
  <2>2. \A w \in Saves : save'[w] = save[w]
    BY <1>8, <2>1 DEF Crash
  <2>3. SavesUnderWay' = {}
    BY <2>1, <2>2 DEF SavesUnderWay
  <2>4. ProjectAllowlist' = ProjectAllowlist
    BY <2>1 DEF ProjectAllowlist
  <2> QED
    BY <2>1, <2>3, <2>4, SerialAgain DEF Serial
<1>9. ASSUME NEW pattern \in Smuggled, EditByHand(pattern) PROVE Serial'
  <2>1. /\ approvals # None /\ inode[approvals] # Torn /\ SavesUnderWay = {}
        /\ inode' = [inode EXCEPT ![approvals] = @ \cup {pattern}]
        /\ UNCHANGED <<approvals, tmp, save, lasting, disturbed>>
    BY <1>9 DEF EditByHand, historyVars
  <2>2. SavesUnderWay' = {}
    BY <2>1 DEF SavesUnderWay
  <2>3. pattern \in Patterns \ Persistable /\ inode[approvals] \in SUBSET Patterns
    BY <1>t, <2>1, Contained DEF Distinct
  <2>4. inode'[approvals] = inode[approvals] \cup {pattern} /\ inode'[approvals] # Torn
    BY <1>t, <2>1, <2>3 DEF Distinct
  <2>5. ProjectAllowlist' = ProjectAllowlist
    BY <2>1, <2>3, <2>4 DEF ProjectAllowlist
  <2> QED
    BY <2>1, <2>2, <2>5, SerialAgain DEF Serial
<1>10. CASE UNCHANGED vars
  BY <1>10 DEF vars, storeVars, historyVars, Serial, SavesUnderWay, Stage, ProjectAllowlist
<1> QED
  BY <1>1, <1>2, <1>3, <1>4, <1>5, <1>6, <1>7, <1>8, <1>9, <1>10 DEF Next

-----------------------------------------------------------------------------
(* What the gate lets through. *)

(* A call that matches was granted, sub-command by sub-command.              *)
LEMMA BackedGrants ==
  ASSUME TypeOK, Backed
  PROVE  UnattendedIsGranted /\ StoreNeverWider
<1>0. SessionsBacked /\ RunsBacked /\ BodiesBacked
  BY DEF Backed
<1>a. \A a \in answers : a.call \in Calls
  BY DEF TypeOK
<1>1. ASSUME NEW s \in Sessions, NEW t \in Tokens, Bash(t) \in allowlist[s] \cup seeded[s]
      PROVE  SaidAlways(s, t, FALSE)
  <2>1. \E a \in answers : (a.session = s \/ a.project) /\ Bash(t) \in DeriveGrant(a.call)
    BY <1>0, <1>1 DEF SessionsBacked, RunsBacked, GrantedIn, ToPersist
  <2> QED
    BY <1>a, <2>1, GrantSays DEF SaidAlways
<1>2. ASSUME NEW s \in Sessions, NEW t \in Tokens, NoSandbox(t) \in allowlist[s] \cup seeded[s],
             NEW escape \in BOOLEAN
      PROVE  SaidAlways(s, t, escape)
  <2>1. NoSandbox(t) \notin seeded[s]
    BY <1>0, Namespaces DEF RunsBacked, ToPersist
  <2>2. \E a \in answers : a.session = s /\ NoSandbox(t) \in DeriveGrant(a.call)
    BY <1>0, <1>2, <2>1 DEF SessionsBacked, GrantedIn
  <2> QED
    BY <1>a, <2>2, GrantSays DEF SaidAlways
<1>3. ASSUME NEW s \in Sessions, EditPattern \in allowlist[s] \cup seeded[s]
      PROVE  \E a \in answers : a.session = s /\ a.call.tool = "edit_file"
  <2>1. EditPattern \notin seeded[s]
    BY <1>0, Namespaces DEF RunsBacked, ToPersist
  <2>2. \E a \in answers : a.session = s /\ EditPattern \in DeriveGrant(a.call)
    BY <1>0, <1>3, <2>1 DEF SessionsBacked, GrantedIn
  <2> QED
    BY <1>a, <2>2, GrantSays
<1>4. ASSUME NEW s \in Sessions, NEW call \in Calls, Unattended(s, call)
      PROVE  \/ /\ call.tool = "bash" /\ call.tokens # {}
                /\ \A t \in call.tokens : SaidAlways(s, t, call.escape)
             \/ /\ call.tool = "edit_file"
                /\ \E a \in answers : a.session = s /\ a.call.tool = "edit_file"
  <2> DEFINE patterns == allowlist[s] \cup seeded[s]
  <2>0. MatchesAllowlist(call, patterns)
    BY <1>4 DEF Unattended
  <2>1. CASE call.tool = "edit_file"
    BY <1>3, <2>0, <2>1 DEF MatchesAllowlist
  <2>2. CASE call.tool = "bash"
    <3>1. /\ call.tokens # {}
          /\ \A t \in call.tokens : \/ NoSandbox(t) \in patterns
                                    \/ ~call.escape /\ Bash(t) \in patterns
      BY <2>0, <2>2 DEF MatchesAllowlist
    <3>2. call.tokens \subseteq Tokens /\ call.escape \in BOOLEAN
      BY <2>2 DEF Calls
    <3>3. ASSUME NEW t \in call.tokens PROVE SaidAlways(s, t, call.escape)
      <4>1. t \in Tokens
        BY <3>2
      <4>2. CASE NoSandbox(t) \in patterns
        BY <1>2, <3>2, <4>1, <4>2
      <4>3. CASE ~call.escape /\ Bash(t) \in patterns
        <5>1. SaidAlways(s, t, FALSE)
          BY <1>1, <4>1, <4>3
        <5> QED
          BY <4>3, <5>1 DEF SaidAlways
      <4> QED
        BY <3>1, <4>2, <4>3
    <3> QED
      BY <2>2, <3>1, <3>3
  <2>3. call.tool = "edit_file" \/ call.tool = "bash"
    BY <2>0 DEF MatchesAllowlist
  <2> QED
    BY <2>1, <2>2, <2>3
<1>5. UnattendedIsGranted
  BY <1>4 DEF UnattendedIsGranted
<1>6. StoreNeverWider
  <2> SUFFICES ASSUME NEW t \in Tokens, Bash(t) \in ProjectAllowlist
               PROVE  \E a \in answers : a.project /\ ~a.call.escape /\ t \in a.call.tokens
    BY DEF StoreNeverWider
  <2>1. \E a \in answers : a.project /\ Bash(t) \in DeriveGrant(a.call)
    BY <1>0, ProjectBacked DEF ToPersist
  <2> QED
    BY <1>a, <2>1, GrantSays
<1> QED
  BY <1>5, <1>6

(* The program starts with nothing granted.                                  *)
LEMMA GrantsInit == Distinct /\ Init => TypeOK /\ Backed /\ Serial
<1> SUFFICES ASSUME Distinct, Init PROVE TypeOK /\ Backed /\ Serial
  OBVIOUS
<1>1. SessionsBacked /\ RunsBacked /\ BodiesBacked
  BY DEF Init, SessionsBacked, RunsBacked, BodiesBacked
<1>2. \A w \in Saves : save[w].pc = "idle" /\ save[w].add = {} /\ save[w].current = {}
  BY DEF Init, Idle
<1>3. SavesBacked
  BY <1>2 DEF SavesBacked
<1>4. SavesUnderWay = {}
  BY <1>2 DEF SavesUnderWay
<1>5. ProjectAllowlist = {}
  BY DEF Init, ProjectAllowlist
<1>6. Serial
  BY <1>4, <1>5 DEF Init, Serial
<1> QED
  BY <1>1, <1>3, <1>6, TypeInit DEF Backed

(* The types hold in every reachable state.                                  *)
THEOREM TypeCorrect == ASSUME Distinct PROVE Spec => []TypeOK
<1>1. TypeOK /\ [Next]_vars => TypeOK'
  BY TypeStep
<1> QED
  BY <1>1, TypeInit, PTL DEF Spec

(* A call that runs without being asked was granted by the user, sub-command *)
(* by sub-command, whatever overlapping saves, crashes and hands did to the  *)
(* file; saves taken one at a time leave what was granted and not revoked;   *)
(* and the file never lets more through than somebody asked to persist       *)
(* (permission.ts, approvalAllowlist.ts, approvalStore.ts).                  *)
THEOREM GrantsCorrect == ASSUME Distinct PROVE Spec => []GrantsKept
<1> DEFINE IInv == TypeOK /\ Backed /\ Serial
<1>1. Init => IInv
  BY GrantsInit
<1>2. IInv /\ [Next]_vars => IInv'
  BY TypeStep, BackedStep, SerialStep
<1>3. IInv => GrantsKept
  <2> SUFFICES ASSUME IInv PROVE GrantsKept
    OBVIOUS
  <2>1. UnattendedIsGranted /\ StoreNeverWider
    BY BackedGrants
  <2>2. SerialSavesKeep
    BY DEF Serial, SerialSavesKeep
  <2> QED
    BY <2>1, <2>2 DEF GrantsKept
<1> QED
  BY <1>1, <1>2, <1>3, PTL DEF Spec
=============================================================================
