----------------------- MODULE LanguageServersProofs -----------------------
(***************************************************************************)
(* What holds of the language servers of a run, for any calls, languages,  *)
(* files, retries and number of processes.                                 *)
(*                                                                         *)
(* A call's record is judged against the processes and their open files    *)
(* (CallSound): a call waits only for a process that is starting, works    *)
(* with one that has started, and asks about a file only once it is in the *)
(* open set of that very connection.  ServersSettled is about the map and  *)
(* the connections, OpensOnce about who reads which file: between the look *)
(* at the open set and the entry into it two calls may pass.               *)
(***************************************************************************)
EXTENDS LanguageServers, TLAPS, SequenceTheorems

Tails == {SubSeq(Languages, i, Len(Languages)) : i \in 1..Len(Languages) + 1}
           \cup {<<>>} \cup {<<l>> : l \in Tongues}
Call == [pc : {"idle", "ensure", "wait", "open", "reading", "ask", "asked", "slice", "answered"},
         langs : Tails, hint : Files \cup {None}, srv : Children \cup {None},
         stage : {"file", "workspace", "body"}, file : Files \cup {None}, tries : 0..Retries]

(* A call with the server it works with.                                     *)
Working == {"open", "reading", "ask", "asked", "slice"}

CallSound(r, kids, opened) ==
  /\ r.pc = "ensure" => r.langs # <<>>
  /\ r.pc \in Working \cup {"wait"} => r.srv \in Children
  /\ r.pc = "wait" => kids[r.srv] = "starting"
  /\ r.pc \in Working => kids[r.srv] \notin {"unused", "starting"}
  /\ r.pc = "asked" => kids[r.srv] = "ready"
  /\ r.pc \in {"open", "reading"} => r.file \in Files
  /\ r.pc \in {"ask", "asked"} /\ r.stage # "workspace" =>
       r.file \in Files /\ r.file \in opened[r.srv]

CallsSound == \A c \in Calls : CallSound(call[c], child, open)

ServersSettled ==
  /\ LiveIsMapped
  /\ \A l \in Tongues : servers[l] # None => child[servers[l]] # "unused"
  /\ \A s \in Children : open[s] # {} => child[s] \notin {"unused", "starting"}
  /\ \A s \in Children, f \in Files : f \in open[s] /\ child[s] = "ready" => sent[s][f] > 0

(* Call c reads file f for the connection of process s.                      *)
Reads(c, s, f) == call[c].pc = "reading" /\ call[c].srv = s /\ call[c].file = f

OpensOnce ==
  \A s \in Children, f \in Files :
    /\ sent[s][f] > 0 => f \in open[s]
    /\ sent[s][f] > 1 => <<s, f>> \in raced
    /\ \A c, d \in Calls : Reads(c, s, f) /\ Reads(d, s, f) /\ c # d => <<s, f>> \in raced
    /\ \A c \in Calls : Reads(c, s, f) /\ f \in open[s] => <<s, f>> \in raced

-----------------------------------------------------------------------------
(* Languages and records. *)

(* The languages a call still has to try.                                    *)
LEMMA LanguagesLeft ==
  ASSUME Consistent, NEW ls \in Tails
  PROVE  /\ ls # <<>> => Head(ls) \in Tongues
         /\ Len(ls) > 1 => Tail(ls) \in Tails /\ Tail(ls) # <<>>
<1> DEFINE n == Len(Languages)
<1>0. Languages \in Seq(Tongues) /\ n \in Nat
  BY DEF Consistent
<1>1. CASE ls = <<>>
  BY <1>1
<1>2. ASSUME NEW l \in Tongues, ls = <<l>> PROVE Head(ls) \in Tongues /\ ~(Len(ls) > 1)
  BY <1>2
<1>3. ASSUME NEW i \in 1..n + 1, ls = SubSeq(Languages, i, n)
      PROVE  /\ ls # <<>> => Head(ls) \in Tongues
             /\ Len(ls) > 1 => Tail(ls) \in Tails /\ Tail(ls) # <<>>
  <2>1. CASE i = n + 1
    <3>1. ls = <<>>
      BY <1>0, <1>3, <2>1, SubSeqEmpty
    <3> QED
      BY <3>1
  <2>2. CASE i \in 1..n
    <3>1. Head(ls) = Languages[i] /\ Tail(ls) = SubSeq(Languages, i + 1, n)
      BY <1>0, <1>3, <2>2, HeadTailOfSubSeq
    <3>2. Head(ls) \in Tongues
      BY <1>0, <2>2, <3>1
    <3>3. Tail(ls) \in Tails
      <4>1. i + 1 \in 1..n + 1
        BY <1>0, <2>2
      <4> QED
        BY <3>1, <4>1 DEF Tails
    <3>4. Len(ls) = n - i + 1
      BY <1>0, <1>3, <2>2, SubSeqProperties
    <3>5. Len(ls) > 1 => Tail(ls) # <<>>
      <4> SUFFICES ASSUME Len(ls) > 1 PROVE Len(Tail(ls)) > 0
        OBVIOUS
      <4>1. i + 1 \in 1..n
        BY <1>0, <2>2, <3>4
      <4>2. Len(SubSeq(Languages, i + 1, n)) = n - (i + 1) + 1
        BY <1>0, <4>1, SubSeqProperties
      <4> QED
        BY <1>0, <3>1, <4>1, <4>2
    <3> QED
      BY <3>2, <3>3, <3>5
  <2> QED
    BY <1>0, <2>1, <2>2
<1> QED
  BY <1>1, <1>2, <1>3 DEF Tails

(* Constants of the right types.                                             *)
LEMMA Idles ==
  ASSUME Consistent
  PROVE  Idle \in Call /\ Idle.pc = "idle" /\ \A r : Answered(r) \in Call /\ Answered(r).pc = "answered"
<1>1. <<>> \in Tails /\ 0 \in 0..Retries
  BY DEF Consistent, Tails
<1>2. Idle \in Call /\ Idle.pc = "idle"
  BY <1>1 DEF Idle, Call
<1> QED
  BY <1>2 DEF Answered, Call

(* A call that begins has languages to try.                                  *)
LEMMA Begins ==
  ASSUME Consistent, NEW r \in Call, NEW hint \in Files \cup {None}
  PROVE  LET q == [r EXCEPT !.pc = "ensure", !.hint = hint,
                            !.langs = IF hint = None THEN Languages ELSE <<LanguageOf[hint]>>]
         IN  q \in Call /\ q.pc = "ensure" /\ q.langs # <<>>
<1> DEFINE ls == IF hint = None THEN Languages ELSE <<LanguageOf[hint]>>
<1>1. ls \in Tails /\ ls # <<>>
  <2>1. CASE hint = None
    <3>1. Languages = SubSeq(Languages, 1, Len(Languages)) /\ Len(Languages) \in Nat
      BY SubSeqFull DEF Consistent
    <3>2. 1 \in 1..Len(Languages) + 1
      BY <3>1
    <3> QED
      BY <2>1, <3>1, <3>2 DEF Tails, Consistent
  <2>2. CASE hint # None
    <3>1. LanguageOf[hint] \in Tongues
      BY <2>2 DEF Consistent
    <3> QED
      BY <2>2, <3>1 DEF Tails
  <2> QED
    BY <2>1, <2>2
<1> HIDE DEF ls
<1>2. LET q == [r EXCEPT !.pc = "ensure", !.hint = hint, !.langs = ls]
      IN  q \in Call /\ q.pc = "ensure" /\ q.langs # <<>>
  BY <1>1 DEF Call
<1> QED
  BY <1>2 DEF ls

(* A call that has its server.                                               *)
LEMMA Served ==
  ASSUME Consistent, NEW r \in Call
  PROVE  /\ WithServer(r) \in Call /\ WithServer(r).srv = r.srv
         /\ \/ WithServer(r).pc = "ask" /\ WithServer(r).stage = "workspace"
            \/ WithServer(r).pc = "open" /\ WithServer(r).file \in Files
<1>0. 0 \in 0..Retries
  BY DEF Consistent
<1>1. CASE r.hint = None
  <2>1. WithServer(r) = [r EXCEPT !.pc = "ask", !.stage = "workspace", !.tries = 0]
    BY <1>1 DEF WithServer
  <2> QED
    BY <1>0, <2>1 DEF Call
<1>2. CASE r.hint # None
  <2>1. r.hint \in Files
    BY <1>2 DEF Call
  <2> QED
    BY <1>2, <2>1 DEF WithServer, Call
<1> QED
  BY <1>1, <1>2

(* A call whose language yielded nothing.                                    *)
LEMMA Goes ==
  ASSUME Consistent, NEW r \in Call
  PROVE  /\ NextLanguage(r) \in Call
         /\ \/ NextLanguage(r).pc = "ensure" /\ NextLanguage(r).langs # <<>>
            \/ NextLanguage(r).pc = "answered"
<1>1. CASE r.hint = None /\ Len(r.langs) > 1
  <2>1. Tail(r.langs) \in Tails /\ Tail(r.langs) # <<>>
    BY <1>1, LanguagesLeft DEF Call
  <2> DEFINE ls == Tail(r.langs)
  <2> HIDE DEF ls
  <2>2. LET q == [r EXCEPT !.pc = "ensure", !.langs = ls, !.srv = None]
        IN  ls \in Tails => q \in Call /\ q.pc = "ensure" /\ q.langs = ls
    BY DEF Call
  <2>3. NextLanguage(r) = [r EXCEPT !.pc = "ensure", !.langs = ls, !.srv = None]
    BY <1>1 DEF NextLanguage, ls
  <2> QED
    BY <2>1, <2>2, <2>3 DEF ls
<1>2. CASE ~(r.hint = None /\ Len(r.langs) > 1)
  <2>1. NextLanguage(r) = Answered(r)
    BY <1>2 DEF NextLanguage
  <2> QED
    BY <2>1, Idles
<1> QED
  BY <1>1, <1>2

(* A call that changes its stage of waiting, and nothing else.               *)
LEMMA Moves ==
  ASSUME Consistent, NEW r \in Call
  PROVE  /\ LET q == [r EXCEPT !.pc = "asked"]
            IN  q \in Call /\ q.pc = "asked" /\ q.srv = r.srv /\ q.stage = r.stage /\ q.file = r.file
         /\ LET q == [r EXCEPT !.pc = "reading"]
            IN  q \in Call /\ q.pc = "reading" /\ q.srv = r.srv /\ q.file = r.file
         /\ LET q == [r EXCEPT !.pc = "ask"]
            IN  q \in Call /\ q.pc = "ask" /\ q.srv = r.srv /\ q.file = r.file
         /\ LET q == [r EXCEPT !.pc = "ask", !.tries = 0]
            IN  q \in Call /\ q.pc = "ask" /\ q.srv = r.srv /\ q.file = r.file
         /\ r.tries < Retries =>
              LET q == [r EXCEPT !.pc = "ask", !.tries = @ + 1]
              IN  q \in Call /\ q.pc = "ask" /\ q.srv = r.srv /\ q.stage = r.stage /\ q.file = r.file
<1>0. 0 \in 0..Retries /\ (r.tries < Retries => r.tries + 1 \in 0..Retries)
  BY DEF Call, Consistent
<1>3. LET q == [r EXCEPT !.pc = "asked"]
      IN  q \in Call /\ q.pc = "asked" /\ q.srv = r.srv /\ q.stage = r.stage /\ q.file = r.file
  BY <1>0 DEF Call
<1>4. LET q == [r EXCEPT !.pc = "reading"]
      IN  q \in Call /\ q.pc = "reading" /\ q.srv = r.srv /\ q.file = r.file
  BY <1>0 DEF Call
<1>5. LET q == [r EXCEPT !.pc = "ask"]
      IN  q \in Call /\ q.pc = "ask" /\ q.srv = r.srv /\ q.file = r.file
  BY <1>0 DEF Call
<1>6. LET q == [r EXCEPT !.pc = "ask", !.tries = 0]
      IN  q \in Call /\ q.pc = "ask" /\ q.srv = r.srv /\ q.file = r.file
  BY <1>0 DEF Call
<1>7. r.tries < Retries =>
        LET q == [r EXCEPT !.pc = "ask", !.tries = @ + 1]
        IN  q \in Call /\ q.pc = "ask" /\ q.srv = r.srv /\ q.stage = r.stage /\ q.file = r.file
  BY <1>0 DEF Call
<1> QED
  BY <1>3, <1>4, <1>5, <1>6, <1>7

(* Where an answer leads.                                                    *)
LEMMA Leads ==
  ASSUME Consistent, NEW r \in Call
  PROVE  /\ \A f \in Files : /\ Found(r, f) \in Call /\ Found(r, f).srv = r.srv
                             /\ \/ Found(r, f).pc = "open" /\ Found(r, f).file = f
                                \/ Found(r, f).pc = "slice"
         /\ Missed(r) \in Call
         /\ \/ Missed(r).pc = "ask" /\ Missed(r).stage = "workspace" /\ Missed(r).srv = r.srv
            \/ Missed(r).pc = "ensure" /\ Missed(r).langs # <<>>
            \/ Missed(r).pc = "answered"
            \/ Missed(r).pc = "slice" /\ Missed(r).srv = r.srv
<1>1. ASSUME NEW f \in Files
      PROVE  /\ Found(r, f) \in Call /\ Found(r, f).srv = r.srv
             /\ \/ Found(r, f).pc = "open" /\ Found(r, f).file = f
                \/ Found(r, f).pc = "slice"
  BY DEF Found, Call
<1>2. CASE r.stage = "file"
  <2>1. Missed(r) = [r EXCEPT !.pc = "ask", !.stage = "workspace", !.tries = 0]
    BY <1>2 DEF Missed
  <2>2. 0 \in 0..Retries
    BY DEF Consistent
  <2>3. /\ Missed(r) \in Call
        /\ Missed(r).pc = "ask" /\ Missed(r).stage = "workspace" /\ Missed(r).srv = r.srv
    BY <2>1, <2>2 DEF Call
  <2> QED
    BY <1>1, <2>3
<1>3. CASE r.stage = "workspace"
  <2>1. Missed(r) = NextLanguage(r)
    BY <1>3 DEF Missed
  <2> QED
    BY <1>1, <2>1, Goes
<1>4. CASE r.stage = "body"
  <2>1. Missed(r) = [r EXCEPT !.pc = "slice"]
    BY <1>4 DEF Missed
  <2> QED
    BY <1>1, <2>1 DEF Call
<1> QED
  BY <1>2, <1>3, <1>4 DEF Call

-----------------------------------------------------------------------------
(* One call at a time. *)

(* TypeOK in these words.                                                    *)
LEMMA TypeParts ==
  TypeOK <=> /\ servers \in [Tongues -> Children \cup {None}]
             /\ child \in [Children -> {"unused", "starting", "ready", "dead", "killed"}]
             /\ open \in [Children -> SUBSET Files]
             /\ call \in [Calls -> Call]
             /\ over \in BOOLEAN
             /\ sent \in [Children -> [Files -> Nat]]
             /\ raced \subseteq Children \X Files
BY DEF TypeOK, Call, Tails

(* A call that is idle, done or about to look for a server waits on nothing. *)
LEMMA FreeSound ==
  ASSUME NEW r, NEW kids, NEW opened,
         r.pc \in {"idle", "answered"} \/ (r.pc = "ensure" /\ r.langs # <<>>)
  PROVE  CallSound(r, kids, opened)
BY DEF CallSound, Working

(* The code's own step of a call, an answer and an error: the call changes,  *)
(* soundly, and only OpenFile makes it a reader.                             *)
LEMMA CallMoves ==
  ASSUME Consistent, TypeOK, CallsSound, ServersSettled, NEW c \in Calls,
         CallStep(c) \/ Fails(c) \/ AnswerArrives(c) \/ \E hint \in Files \cup {None} : Read(c, hint)
  PROVE  \E q \in Call : /\ call' = [call EXCEPT ![c] = q]
                         /\ CallSound(q, child', open')
                         /\ q.pc = "reading" => OpenFile(c)
<1>0. /\ servers \in [Tongues -> Children \cup {None}]
      /\ child \in [Children -> {"unused", "starting", "ready", "dead", "killed"}]
      /\ open \in [Children -> SUBSET Files]
      /\ call[c] \in Call
      /\ CallSound(call[c], child, open)
  BY TypeParts DEF CallsSound
<1> DEFINE r == call[c]
<1>1. ASSUME NEW hint \in Files \cup {None}, Read(c, hint)
      PROVE  \E q \in Call : /\ call' = [call EXCEPT ![c] = q] /\ q.pc # "reading"
                             /\ CallSound(q, child', open')
  <2> DEFINE q == [r EXCEPT !.pc = "ensure", !.hint = hint,
                            !.langs = IF hint = None THEN Languages ELSE <<LanguageOf[hint]>>]
  <2>1. call' = [call EXCEPT ![c] = q]
    BY <1>1 DEF Read
  <2>2. q \in Call /\ q.pc = "ensure" /\ q.langs # <<>>
    BY <1>0, Begins
  <2> HIDE DEF q
  <2> QED
    BY <2>1, <2>2, FreeSound
<1>2. ASSUME StartServer(c)
      PROVE  \E q \in Call : /\ call' = [call EXCEPT ![c] = q] /\ q.pc # "reading"
                             /\ CallSound(q, child', open')
  <2>1. PICK s \in Children : /\ child[s] = "unused" /\ child' = [child EXCEPT ![s] = "starting"]
                              /\ call' = [call EXCEPT ![c] = [@ EXCEPT !.pc = "wait", !.srv = s]]
    BY <1>2 DEF StartServer
  <2> DEFINE q == [r EXCEPT !.pc = "wait", !.srv = s]
  <2>2. q \in Call /\ q.pc = "wait" /\ q.srv = s
    BY <1>0 DEF Call
  <2>3. call' = [call EXCEPT ![c] = q]
    BY <2>1
  <2> HIDE DEF q
  <2>4. child'[s] = "starting"
    BY <1>0, <2>1
  <2>5. CallSound(q, child', open')
    BY <2>2, <2>4 DEF CallSound, Working
  <2> QED
    BY <2>2, <2>3, <2>5
<1>3. ASSUME NoServer(c)
      PROVE  \E q \in Call : /\ call' = [call EXCEPT ![c] = q] /\ q.pc # "reading"
                             /\ CallSound(q, child', open')
  <2>1. call' = [call EXCEPT ![c] = NextLanguage(r)]
    BY <1>3 DEF NoServer
  <2> QED
    BY <1>0, <2>1, Goes, FreeSound
<1>4. ASSUME JoinServer(c)
      PROVE  \E q \in Call : /\ call' = [call EXCEPT ![c] = q] /\ q.pc # "reading"
                             /\ CallSound(q, child', open')
  <2>1. r.pc = "ensure" /\ servers[Head(r.langs)] # None /\ child' = child /\ open' = open
    BY <1>4 DEF JoinServer
  <2>2. Head(r.langs) \in Tongues
    BY <1>0, <2>1, LanguagesLeft DEF CallSound, Call
  <2>3. PICK s \in Children : s = servers[Head(r.langs)]
    BY <1>0, <2>1, <2>2
  <2>4. child[s] # "unused"
    BY <2>1, <2>2, <2>3 DEF ServersSettled
  <2>5. CASE child[s] = "starting"
    <3> DEFINE q == [r EXCEPT !.pc = "wait", !.srv = s]
    <3>1. q \in Call /\ q.pc = "wait" /\ q.srv = s
      BY <1>0 DEF Call
    <3>2. call' = [call EXCEPT ![c] = q]
      BY <1>4, <2>3, <2>5 DEF JoinServer
    <3> HIDE DEF q
    <3>3. CallSound(q, child', open')
      BY <2>1, <2>5, <3>1 DEF CallSound, Working
    <3> QED
      BY <3>1, <3>2, <3>3
  <2>6. CASE child[s] # "starting"
    <3> DEFINE p == [r EXCEPT !.srv = s]
    <3>1. p \in Call /\ p.srv = s
      BY <1>0 DEF Call
    <3>2. call' = [call EXCEPT ![c] = WithServer(p)]
      BY <1>4, <2>3, <2>6 DEF JoinServer
    <3> HIDE DEF p
    <3>3. /\ WithServer(p) \in Call /\ WithServer(p).srv = s
          /\ \/ WithServer(p).pc = "ask" /\ WithServer(p).stage = "workspace"
             \/ WithServer(p).pc = "open" /\ WithServer(p).file \in Files
      BY <3>1, Served
    <3>4. CallSound(WithServer(p), child', open')
      BY <2>1, <2>4, <2>6, <3>3 DEF CallSound, Working
    <3> QED
      BY <3>2, <3>3, <3>4
  <2> QED
    BY <2>5, <2>6
<1>5. ASSUME OpenFile(c)
      PROVE  \E q \in Call : call' = [call EXCEPT ![c] = q] /\ CallSound(q, child', open')
  <2>1. r.pc = "open" /\ child' = child /\ open' = open
    BY <1>5 DEF OpenFile
  <2>2. r.srv \in Children /\ r.file \in Files /\ child[r.srv] \notin {"unused", "starting"}
    BY <1>0, <2>1 DEF CallSound, Working
  <2>3. CASE r.file \in open[r.srv]
    <3> DEFINE q == [r EXCEPT !.pc = "ask"]
    <3>1. q \in Call /\ q.pc = "ask" /\ q.srv = r.srv /\ q.file = r.file
      BY <1>0, Moves
    <3>2. call' = [call EXCEPT ![c] = q]
      BY <1>5, <2>3 DEF OpenFile
    <3> HIDE DEF q
    <3>3. CallSound(q, child', open')
      BY <2>1, <2>2, <2>3, <3>1 DEF CallSound, Working
    <3> QED
      BY <3>1, <3>2, <3>3
  <2>4. CASE r.file \notin open[r.srv]
    <3> DEFINE q == [r EXCEPT !.pc = "reading"]
    <3>1. q \in Call /\ q.pc = "reading" /\ q.srv = r.srv /\ q.file = r.file
      BY <1>0, Moves
    <3>2. call' = [call EXCEPT ![c] = q]
      BY <1>5, <2>4 DEF OpenFile
    <3> HIDE DEF q
    <3>3. CallSound(q, child', open')
      BY <2>1, <2>2, <3>1 DEF CallSound, Working
    <3> QED
      BY <3>1, <3>2, <3>3
  <2> QED
    BY <2>3, <2>4
<1>6. ASSUME FileRead(c)
      PROVE  \E q \in Call : /\ call' = [call EXCEPT ![c] = q] /\ q.pc # "reading"
                             /\ CallSound(q, child', open')
  <2>1. /\ r.pc = "reading" /\ child' = child
        /\ open' = [open EXCEPT ![r.srv] = @ \cup {r.file}]
    BY <1>6 DEF FileRead
  <2>2. r.srv \in Children /\ r.file \in Files /\ child[r.srv] \notin {"unused", "starting"}
    BY <1>0, <2>1 DEF CallSound, Working
  <2> DEFINE q == [r EXCEPT !.pc = "ask", !.tries = 0]
  <2>3. q \in Call /\ q.pc = "ask" /\ q.srv = r.srv /\ q.file = r.file
    BY <1>0, Moves
  <2>4. call' = [call EXCEPT ![c] = q]
    BY <1>6 DEF FileRead
  <2> HIDE DEF q
  <2>5. r.file \in open'[r.srv]
    BY <1>0, <2>1, <2>2
  <2>6. CallSound(q, child', open')
    BY <2>1, <2>2, <2>3, <2>5 DEF CallSound, Working
  <2> QED
    BY <2>3, <2>4, <2>6
<1>7. ASSUME Fails(c) \/ Slice(c)
      PROVE  \E q \in Call : /\ call' = [call EXCEPT ![c] = q] /\ q.pc # "reading"
                             /\ CallSound(q, child', open')
  <2>1. call' = [call EXCEPT ![c] = Answered(r)]
    BY <1>7 DEF Fails, Slice
  <2> QED
    BY <2>1, Idles, FreeSound
<1>8. ASSUME SendRequest(c)
      PROVE  \E q \in Call : /\ call' = [call EXCEPT ![c] = q] /\ q.pc # "reading"
                             /\ CallSound(q, child', open')
  <2>1. r.pc = "ask" /\ child' = child /\ open' = open
    BY <1>8 DEF SendRequest
  <2>2. CASE child[r.srv] = "ready"
    <3> DEFINE q == [r EXCEPT !.pc = "asked"]
    <3>1. q \in Call /\ q.pc = "asked" /\ q.srv = r.srv /\ q.stage = r.stage /\ q.file = r.file
      BY <1>0, Moves
    <3>2. call' = [call EXCEPT ![c] = q]
      BY <1>8, <2>2 DEF SendRequest
    <3> HIDE DEF q
    <3>3. CallSound(q, child', open')
      BY <1>0, <2>1, <2>2, <3>1 DEF CallSound, Working
    <3> QED
      BY <3>1, <3>2, <3>3
  <2>3. CASE child[r.srv] # "ready"
    <3>1. call' = [call EXCEPT ![c] = Answered(r)]
      BY <1>8, <2>3 DEF SendRequest
    <3> QED
      BY <3>1, Idles, FreeSound
  <2> QED
    BY <2>2, <2>3
<1>9. ASSUME AnswerArrives(c)
      PROVE  \E q \in Call : /\ call' = [call EXCEPT ![c] = q] /\ q.pc # "reading"
                             /\ CallSound(q, child', open')
  <2>1. r.pc = "asked" /\ child' = child /\ open' = open
    BY <1>9 DEF AnswerArrives
  <2>2. r.srv \in Children /\ child[r.srv] = "ready"
    BY <1>0, <2>1 DEF CallSound, Working
  <2>3. ASSUME NEW f \in Files, call' = [call EXCEPT ![c] = Found(r, f)]
        PROVE  \E q \in Call : /\ call' = [call EXCEPT ![c] = q] /\ q.pc # "reading"
                               /\ CallSound(q, child', open')
    <3>1. /\ Found(r, f) \in Call /\ Found(r, f).srv = r.srv
          /\ \/ Found(r, f).pc = "open" /\ Found(r, f).file = f
             \/ Found(r, f).pc = "slice"
      BY <1>0, Leads
    <3>2. CallSound(Found(r, f), child', open')
      BY <2>1, <2>2, <3>1 DEF CallSound, Working
    <3> QED
      BY <2>3, <3>1, <3>2
  <2>4. ASSUME call' = [call EXCEPT ![c] = Missed(r)]
        PROVE  \E q \in Call : /\ call' = [call EXCEPT ![c] = q] /\ q.pc # "reading"
                               /\ CallSound(q, child', open')
    <3>1. /\ Missed(r) \in Call
          /\ \/ Missed(r).pc = "ask" /\ Missed(r).stage = "workspace" /\ Missed(r).srv = r.srv
             \/ Missed(r).pc = "ensure" /\ Missed(r).langs # <<>>
             \/ Missed(r).pc = "answered"
             \/ Missed(r).pc = "slice" /\ Missed(r).srv = r.srv
      BY <1>0, Leads
    <3>2. CallSound(Missed(r), child', open')
      BY <2>1, <2>2, <3>1 DEF CallSound, Working
    <3> QED
      BY <2>4, <3>1, <3>2
  <2>5. ASSUME r.tries < Retries, call' = [call EXCEPT ![c] = [r EXCEPT !.pc = "ask", !.tries = @ + 1]]
        PROVE  \E q \in Call : /\ call' = [call EXCEPT ![c] = q] /\ q.pc # "reading"
                               /\ CallSound(q, child', open')
    <3> DEFINE q == [r EXCEPT !.pc = "ask", !.tries = @ + 1]
    <3>1. q \in Call /\ q.pc = "ask" /\ q.srv = r.srv /\ q.stage = r.stage /\ q.file = r.file
      BY <1>0, <2>5, Moves
    <3>2. call' = [call EXCEPT ![c] = q]
      BY <2>5
    <3> HIDE DEF q
    <3>3. CallSound(q, child', open')
      BY <1>0, <2>1, <2>2, <3>1 DEF CallSound, Working
    <3> QED
      BY <3>1, <3>2, <3>3
  <2> QED
    BY <1>9, <2>3, <2>4, <2>5 DEF AnswerArrives
<1> QED
  BY <1>1, <1>2, <1>3, <1>4, <1>5, <1>6, <1>7, <1>8, <1>9 DEF CallStep

(* A record stays sound as long as only unused processes change and open     *)
(* sets only grow.                                                           *)
LEMMA FrameSound ==
  ASSUME NEW r, NEW kids, NEW kids2, NEW opened, NEW opened2, CallSound(r, kids, opened),
         \A s \in Children : kids[s] # "unused" => kids2[s] = kids[s],
         \A s \in Children : opened[s] \subseteq opened2[s]
  PROVE  CallSound(r, kids2, opened2)
BY DEF CallSound, Working

(* What the step of one call does to the processes, their open sets and the  *)
(* map.                                                                      *)
LEMMA CallLeaves ==
  ASSUME TypeOK, NEW c \in Calls,
         CallStep(c) \/ Fails(c) \/ AnswerArrives(c) \/ \E hint \in Files \cup {None} : Read(c, hint)
  PROVE  /\ \A s \in Children : child[s] # "unused" => child'[s] = child[s]
         /\ \A s \in Children : open[s] \subseteq open'[s]
         /\ over' = over
         /\ StartServer(c) \/ (child' = child /\ servers' = servers)
         /\ FileRead(c) \/ (open' = open /\ sent' = sent)
         /\ OpenFile(c) \/ raced' = raced
<1>0. /\ child \in [Children -> {"unused", "starting", "ready", "dead", "killed"}]
      /\ open \in [Children -> SUBSET Files]
  BY TypeParts
<1>1. CASE StartServer(c)
  BY <1>0, <1>1 DEF StartServer
<1>2. CASE FileRead(c)
  BY <1>0, <1>2 DEF FileRead
<1>3. CASE OpenFile(c)
  BY <1>3 DEF OpenFile
<1>4. CASE NoServer(c) \/ JoinServer(c) \/ SendRequest(c) \/ Slice(c) \/ Fails(c) \/ AnswerArrives(c)
  BY <1>4 DEF NoServer, JoinServer, SendRequest, Slice, Fails, AnswerArrives
<1>5. CASE \E hint \in Files \cup {None} : Read(c, hint)
  BY <1>5 DEF Read
<1> QED
  BY <1>1, <1>2, <1>3, <1>4, <1>5 DEF CallStep

-----------------------------------------------------------------------------
(* The inductive invariant, part by part and step by step. *)

Settled == TypeOK /\ CallsSound /\ ServersSettled /\ OpensOnce

(* The steps by who takes them: one call, or the processes and the run.      *)
LEMMA NextSplits ==
  ASSUME Next
  PROVE  \/ \E c \in Calls : \/ CallStep(c) \/ Fails(c) \/ AnswerArrives(c)
                             \/ \E hint \in Files \cup {None} : Read(c, hint)
         \/ \E s \in Children : \/ Initialized(s) \/ ServerDies(s)
                                \/ \E end \in {"killed", "dead"} : InitFails(s, end)
         \/ Dispose
BY DEF Next

(* The manager that a run creates is settled.                                *)
LEMMA InitSettled == ASSUME Consistent, Init PROVE Settled
<1>1. TypeOK
  <2>1. servers \in [Tongues -> Children \cup {None}] /\ over \in BOOLEAN /\ raced \subseteq Children \X Files
    BY DEF Init
  <2>2. child \in [Children -> {"unused", "starting", "ready", "dead", "killed"}]
    BY DEF Init
  <2>3. open \in [Children -> SUBSET Files]
    BY DEF Init
  <2>4. call \in [Calls -> Call]
    BY Idles DEF Init
  <2>5. sent \in [Children -> [Files -> Nat]]
    BY DEF Init
  <2> QED
    BY <2>1, <2>2, <2>3, <2>4, <2>5, TypeParts
<1>2. CallsSound
  <2>1. \A c \in Calls : call[c].pc = "idle"
    BY Idles DEF Init
  <2> QED
    BY <2>1, FreeSound DEF CallsSound
<1>3. ServersSettled
  BY DEF Init, ServersSettled, LiveIsMapped, Alive
<1>4. OpensOnce
  <2>1. \A c \in Calls, s \in Children, f \in Files : ~Reads(c, s, f)
    BY Idles DEF Init, Reads
  <2>2. \A s \in Children, f \in Files : sent[s][f] = 0
    BY DEF Init
  <2> QED
    BY <2>1, <2>2 DEF OpensOnce
<1> QED
  BY <1>1, <1>2, <1>3, <1>4 DEF Settled

(* Every step keeps the types: a call's record stays one, however long its   *)
(* list of languages was.                                                    *)
LEMMA TypeKept == ASSUME Consistent, Settled, Next PROVE TypeOK'
<1>0. /\ servers \in [Tongues -> Children \cup {None}]
      /\ child \in [Children -> {"unused", "starting", "ready", "dead", "killed"}]
      /\ open \in [Children -> SUBSET Files]
      /\ call \in [Calls -> Call]
      /\ over \in BOOLEAN
      /\ sent \in [Children -> [Files -> Nat]]
      /\ raced \subseteq Children \X Files
      /\ TypeOK /\ CallsSound /\ ServersSettled
  BY TypeParts DEF Settled
<1> SUFFICES /\ servers' \in [Tongues -> Children \cup {None}]
             /\ child' \in [Children -> {"unused", "starting", "ready", "dead", "killed"}]
             /\ open' \in [Children -> SUBSET Files]
             /\ call' \in [Calls -> Call]
             /\ over' \in BOOLEAN
             /\ sent' \in [Children -> [Files -> Nat]]
             /\ raced' \subseteq Children \X Files
  BY DEF TypeOK, Call, Tails
<1>1. ASSUME NEW c \in Calls,
             CallStep(c) \/ Fails(c) \/ AnswerArrives(c) \/ \E hint \in Files \cup {None} : Read(c, hint)
      PROVE  /\ servers' \in [Tongues -> Children \cup {None}]
             /\ child' \in [Children -> {"unused", "starting", "ready", "dead", "killed"}]
             /\ open' \in [Children -> SUBSET Files]
             /\ call' \in [Calls -> Call]
             /\ over' \in BOOLEAN
             /\ sent' \in [Children -> [Files -> Nat]]
             /\ raced' \subseteq Children \X Files
  <2>1. PICK q \in Call : call' = [call EXCEPT ![c] = q]
    BY <1>0, <1>1, CallMoves
  <2>2. call' \in [Calls -> Call]
    BY <1>0, <2>1
  <2>3. over' = over /\ (StartServer(c) \/ (child' = child /\ servers' = servers))
        /\ (FileRead(c) \/ (open' = open /\ sent' = sent)) /\ (OpenFile(c) \/ raced' = raced)
    BY <1>0, <1>1, CallLeaves
  <2>4. ASSUME StartServer(c)
        PROVE  /\ servers' \in [Tongues -> Children \cup {None}]
               /\ child' \in [Children -> {"unused", "starting", "ready", "dead", "killed"}]
    <3>1. PICK s \in Children : /\ child' = [child EXCEPT ![s] = "starting"]
                                /\ servers' = [servers EXCEPT ![Head(call[c].langs)] = s]
      BY <2>4 DEF StartServer
    <3> QED
      BY <1>0, <3>1
  <2>5. ASSUME FileRead(c) \/ OpenFile(c) PROVE call[c].srv \in Children /\ call[c].file \in Files
    BY <1>0, <2>5 DEF FileRead, OpenFile, CallsSound, CallSound, Working
  <2>6. ASSUME FileRead(c) PROVE open' \in [Children -> SUBSET Files] /\ sent' \in [Children -> [Files -> Nat]]
    <3> DEFINE s == call[c].srv
    <3> DEFINE f == call[c].file
    <3>1. s \in Children /\ f \in Files
      BY <2>5, <2>6
    <3>2. open' = [open EXCEPT ![s] = @ \cup {f}]
      BY <2>6 DEF FileRead
    <3>3. sent' = sent \/ sent' = [sent EXCEPT ![s] = [sent[s] EXCEPT ![f] = @ + 1]]
      BY <1>0, <2>6, <3>1 DEF FileRead
    <3> HIDE DEF s, f
    <3>4. sent[s][f] + 1 \in Nat /\ sent[s] \in [Files -> Nat]
      BY <1>0, <3>1
    <3>5. [sent[s] EXCEPT ![f] = @ + 1] \in [Files -> Nat]
      BY <3>1, <3>4
    <3> QED
      BY <1>0, <3>1, <3>2, <3>3, <3>5
  <2>7. ASSUME OpenFile(c) PROVE raced' \subseteq Children \X Files
    BY <1>0, <2>5, <2>7 DEF OpenFile
  <2> QED
    BY <1>0, <2>2, <2>3, <2>4, <2>6, <2>7
<1>2. ASSUME NEW s \in Children, Initialized(s)
      PROVE  call' \in [Calls -> Call] /\ child' \in [Children -> {"unused", "starting", "ready", "dead", "killed"}]
             /\ UNCHANGED <<servers, open, over, sent, raced>>
  <2>1. \A c \in Calls : WithServer(call[c]) \in Call /\ call[c] \in Call
    BY <1>0, Served
  <2> QED
    BY <1>0, <1>2, <2>1 DEF Initialized
<1>3. ASSUME NEW s \in Children, NEW end \in {"killed", "dead"}, InitFails(s, end)
      PROVE  /\ call' \in [Calls -> Call] /\ servers' \in [Tongues -> Children \cup {None}]
             /\ child' \in [Children -> {"unused", "starting", "ready", "dead", "killed"}]
             /\ UNCHANGED <<open, over, sent, raced>>
  <2>1. \A c \in Calls : NextLanguage(call[c]) \in Call /\ call[c] \in Call
    BY <1>0, Goes
  <2> QED
    BY <1>0, <1>3, <2>1 DEF InitFails
<1>4. ASSUME NEW s \in Children, ServerDies(s)
      PROVE  call' \in [Calls -> Call] /\ child' \in [Children -> {"unused", "starting", "ready", "dead", "killed"}]
             /\ UNCHANGED <<servers, open, over, sent, raced>>
  <2>1. \A c \in Calls : Answered(call[c]) \in Call /\ call[c] \in Call
    BY <1>0, Idles
  <2> QED
    BY <1>0, <1>4, <2>1 DEF ServerDies
<1>5. ASSUME Dispose
      PROVE  /\ servers' \in [Tongues -> Children \cup {None}] /\ over' \in BOOLEAN
             /\ child' \in [Children -> {"unused", "starting", "ready", "dead", "killed"}]
             /\ UNCHANGED <<open, call, sent, raced>>
  BY <1>0, <1>5 DEF Dispose
<1> QED
  BY <1>0, <1>1, <1>2, <1>3, <1>4, <1>5, NextSplits

(* Every step keeps the calls sound: a handshake that ends takes all who     *)
(* wait for it along, a process that dies answers what it owes.              *)
LEMMA CallsKept == ASSUME Consistent, Settled, Next PROVE CallsSound'
<1>0. /\ child \in [Children -> {"unused", "starting", "ready", "dead", "killed"}]
      /\ open \in [Children -> SUBSET Files]
      /\ call \in [Calls -> Call]
      /\ TypeOK /\ CallsSound /\ ServersSettled
      /\ \A c \in Calls : CallSound(call[c], child, open)
  BY TypeParts DEF Settled, CallsSound
<1> SUFFICES ASSUME NEW d \in Calls PROVE CallSound(call'[d], child', open')
  BY DEF CallsSound
<1>1. ASSUME NEW c \in Calls,
             CallStep(c) \/ Fails(c) \/ AnswerArrives(c) \/ \E hint \in Files \cup {None} : Read(c, hint)
      PROVE  CallSound(call'[d], child', open')
  <2>1. PICK q \in Call : call' = [call EXCEPT ![c] = q] /\ CallSound(q, child', open')
    BY <1>0, <1>1, CallMoves
  <2>2. CASE d = c
    BY <1>0, <2>1, <2>2
  <2>3. CASE d # c
    <3>1. call'[d] = call[d]
      BY <1>0, <2>1, <2>3
    <3>2. CallSound(call[d], child', open')
      BY <1>0, <1>1, CallLeaves, FrameSound
    <3> QED
      BY <3>1, <3>2
  <2> QED
    BY <2>2, <2>3
<1>2. ASSUME NEW s \in Children, Initialized(s) PROVE CallSound(call'[d], child', open')
  <2>1. /\ child[s] = "starting" /\ open' = open
        /\ child'[s] = "ready" /\ \A t \in Children : t # s => child'[t] = child[t]
    BY <1>0, <1>2 DEF Initialized
  <2>2. CASE d \in Waiting(s)
    <3>1. call'[d] = WithServer(call[d]) /\ call[d].srv = s
      BY <1>2, <2>2 DEF Initialized, Waiting
    <3>2. /\ WithServer(call[d]).srv = s
          /\ \/ WithServer(call[d]).pc = "ask" /\ WithServer(call[d]).stage = "workspace"
             \/ WithServer(call[d]).pc = "open" /\ WithServer(call[d]).file \in Files
      BY <1>0, <3>1, Served
    <3> QED
      BY <2>1, <3>1, <3>2 DEF CallSound, Working
  <2>3. CASE d \notin Waiting(s)
    <3>1. call'[d] = call[d] /\ (call[d].pc = "wait" => call[d].srv # s)
      BY <1>2, <2>3 DEF Initialized, Waiting
    <3> QED
      BY <1>0, <2>1, <3>1 DEF CallSound, Working
  <2> QED
    BY <2>2, <2>3
<1>3. ASSUME NEW s \in Children, NEW end \in {"killed", "dead"}, InitFails(s, end)
      PROVE  CallSound(call'[d], child', open')
  <2>1. /\ child[s] = "starting" /\ open' = open
        /\ child'[s] = end /\ \A t \in Children : t # s => child'[t] = child[t]
    BY <1>0, <1>3 DEF InitFails
  <2>2. CASE d \in Waiting(s)
    <3>1. call'[d] = NextLanguage(call[d])
      BY <1>3, <2>2 DEF InitFails
    <3> QED
      BY <1>0, <3>1, Goes, FreeSound
  <2>3. CASE d \notin Waiting(s)
    <3>1. call'[d] = call[d] /\ (call[d].pc = "wait" => call[d].srv # s)
      BY <1>3, <2>3 DEF InitFails, Waiting
    <3> QED
      BY <1>0, <2>1, <3>1 DEF CallSound, Working
  <2> QED
    BY <2>2, <2>3
<1>4. ASSUME NEW s \in Children, ServerDies(s) PROVE CallSound(call'[d], child', open')
  <2>1. /\ child[s] = "ready" /\ open' = open
        /\ child'[s] = "dead" /\ \A t \in Children : t # s => child'[t] = child[t]
    BY <1>0, <1>4 DEF ServerDies
  <2>2. CASE call[d].pc = "asked" /\ call[d].srv = s
    <3>1. call'[d] = Answered(call[d])
      BY <1>4, <2>2 DEF ServerDies
    <3> QED
      BY <3>1, Idles, FreeSound
  <2>3. CASE ~(call[d].pc = "asked" /\ call[d].srv = s)
    <3>1. call'[d] = call[d]
      BY <1>4, <2>3 DEF ServerDies
    <3> QED
      BY <1>0, <2>1, <2>3, <3>1 DEF CallSound, Working
  <2> QED
    BY <2>2, <2>3
<1>5. ASSUME Dispose PROVE CallSound(call'[d], child', open')
  <2>1. call' = call /\ call[d].pc \in {"idle", "answered"}
    BY <1>5 DEF Dispose
  <2> QED
    BY <2>1, FreeSound
<1> QED
  BY <1>1, <1>2, <1>3, <1>4, <1>5, NextSplits

(* Every step keeps map and connections settled: a process that lives is in  *)
(* the map, and a running one was sent every file in its open set.           *)
LEMMA ServersKept == ASSUME Consistent, Settled, Next PROVE ServersSettled'
<1>0. /\ servers \in [Tongues -> Children \cup {None}]
      /\ child \in [Children -> {"unused", "starting", "ready", "dead", "killed"}]
      /\ open \in [Children -> SUBSET Files]
      /\ call \in [Calls -> Call]
      /\ sent \in [Children -> [Files -> Nat]]
      /\ None \notin Children
      /\ TypeOK /\ CallsSound /\ ServersSettled
  BY TypeParts DEF Settled, Consistent
<1>a. /\ \A s \in Children : child[s] \in {"starting", "ready"} => \E l \in Tongues : servers[l] = s
      /\ \A l \in Tongues : servers[l] # None => child[servers[l]] # "unused"
      /\ \A s \in Children : open[s] # {} => child[s] \notin {"unused", "starting"}
      /\ \A s \in Children, f \in Files : f \in open[s] /\ child[s] = "ready" => sent[s][f] > 0
  BY <1>0 DEF ServersSettled, LiveIsMapped, Alive
<1> SUFFICES
      /\ \A s \in Children : child'[s] \in {"starting", "ready"} => \E l \in Tongues : servers'[l] = s
      /\ \A l \in Tongues : servers'[l] # None => child'[servers'[l]] # "unused"
      /\ \A s \in Children : open'[s] # {} => child'[s] \notin {"unused", "starting"}
      /\ \A s \in Children, f \in Files : f \in open'[s] /\ child'[s] = "ready" => sent'[s][f] > 0
  BY DEF ServersSettled, LiveIsMapped, Alive
<1>1. ASSUME NEW c \in Calls, StartServer(c)
      PROVE  /\ \A s \in Children : child'[s] \in {"starting", "ready"} => \E l \in Tongues : servers'[l] = s
             /\ \A l \in Tongues : servers'[l] # None => child'[servers'[l]] # "unused"
             /\ \A s \in Children : open'[s] # {} => child'[s] \notin {"unused", "starting"}
             /\ \A s \in Children, f \in Files : f \in open'[s] /\ child'[s] = "ready" => sent'[s][f] > 0
  <2> DEFINE k == Head(call[c].langs)
  <2>1. PICK n \in Children : /\ child[n] = "unused" /\ child' = [child EXCEPT ![n] = "starting"]
                              /\ servers' = [servers EXCEPT ![k] = n]
    BY <1>1 DEF StartServer
  <2>2. servers[k] = None /\ open' = open /\ sent' = sent
    BY <1>1 DEF StartServer
  <2>3. k \in Tongues
    BY <1>0, <1>1, LanguagesLeft DEF StartServer, CallsSound, CallSound, Call
  <2> HIDE DEF k
  <2>4. /\ \A l \in Tongues : servers'[l] = IF l = k THEN n ELSE servers[l]
        /\ \A s \in Children : child'[s] = IF s = n THEN "starting" ELSE child[s]
    BY <1>0, <2>1, <2>3
  <2>5. ASSUME NEW s \in Children, child'[s] \in {"starting", "ready"}
        PROVE  \E l \in Tongues : servers'[l] = s
    <3>1. CASE s = n
      BY <2>3, <2>4, <3>1
    <3>2. CASE s # n
      <4>1. PICK l \in Tongues : servers[l] = s
        BY <1>a, <2>4, <2>5, <3>2
      <4>2. l # k
        BY <1>0, <2>2, <4>1
      <4> QED
        BY <2>4, <4>1, <4>2
    <3> QED
      BY <3>1, <3>2
  <2>6. \A l \in Tongues : servers'[l] # None => child'[servers'[l]] # "unused"
    BY <1>0, <1>a, <2>4
  <2>7. \A s \in Children : open'[s] # {} => child'[s] \notin {"unused", "starting"}
    BY <1>a, <2>1, <2>2, <2>4
  <2>8. \A s \in Children, f \in Files : f \in open'[s] /\ child'[s] = "ready" => sent'[s][f] > 0
    BY <1>a, <2>2, <2>4
  <2> QED
    BY <2>5, <2>6, <2>7, <2>8
<1>2. ASSUME NEW c \in Calls, FileRead(c)
      PROVE  /\ \A s \in Children : open'[s] # {} => child'[s] \notin {"unused", "starting"}
             /\ \A s \in Children, f \in Files : f \in open'[s] /\ child'[s] = "ready" => sent'[s][f] > 0
             /\ child' = child /\ servers' = servers
  <2> DEFINE m == call[c].srv
  <2> DEFINE g == call[c].file
  <2>1. m \in Children /\ g \in Files /\ child[m] \notin {"unused", "starting"}
    BY <1>0, <1>2 DEF FileRead, CallsSound, CallSound, Working
  <2>2. /\ child' = child /\ servers' = servers
        /\ open' = [open EXCEPT ![m] = @ \cup {g}]
        /\ sent' = IF child[m] = "ready" THEN [sent EXCEPT ![m][g] = @ + 1] ELSE sent
    BY <1>2 DEF FileRead
  <2> HIDE DEF m, g
  <2>3. /\ \A s \in Children : open'[s] = IF s = m THEN open[s] \cup {g} ELSE open[s]
        /\ \A s \in Children, f \in Files :
             sent'[s][f] = IF s = m /\ f = g /\ child[m] = "ready" THEN sent[s][f] + 1 ELSE sent[s][f]
    BY <1>0, <2>1, <2>2
  <2>4. \A s \in Children, f \in Files : sent[s][f] \in Nat
    BY <1>0
  <2> QED
    BY <1>a, <2>1, <2>2, <2>3, <2>4
<1>3. ASSUME NEW c \in Calls,
             CallStep(c) \/ Fails(c) \/ AnswerArrives(c) \/ \E hint \in Files \cup {None} : Read(c, hint),
             ~StartServer(c), ~FileRead(c)
      PROVE  child' = child /\ servers' = servers /\ open' = open /\ sent' = sent
  BY <1>0, <1>3, CallLeaves
<1>4. ASSUME NEW s \in Children, Initialized(s)
      PROVE  /\ child[s] = "starting" /\ \A t \in Children : child'[t] = IF t = s THEN "ready" ELSE child[t]
             /\ servers' = servers /\ open' = open /\ sent' = sent
  BY <1>0, <1>4 DEF Initialized
<1>5. ASSUME NEW s \in Children, NEW end \in {"killed", "dead"}, InitFails(s, end)
      PROVE  /\ \A t \in Children : child'[t] = IF t = s THEN end ELSE child[t]
             /\ \A l \in Tongues : servers'[l] = IF servers[l] = s THEN None ELSE servers[l]
             /\ open' = open /\ sent' = sent
  BY <1>0, <1>5 DEF InitFails
<1>6. ASSUME NEW s \in Children, ServerDies(s)
      PROVE  /\ child[s] = "ready" /\ \A t \in Children : child'[t] = IF t = s THEN "dead" ELSE child[t]
             /\ servers' = servers /\ open' = open /\ sent' = sent
  BY <1>0, <1>6 DEF ServerDies
<1>7. ASSUME Dispose
      PROVE  /\ \A t \in Children : child'[t] = IF \E l \in Tongues : servers[l] = t THEN "killed" ELSE child[t]
             /\ \A l \in Tongues : servers'[l] = None
             /\ open' = open /\ sent' = sent
  BY <1>0, <1>7 DEF Dispose
<1>8. ASSUME NEW c \in Calls,
             CallStep(c) \/ Fails(c) \/ AnswerArrives(c) \/ \E hint \in Files \cup {None} : Read(c, hint)
      PROVE  /\ \A s \in Children : child'[s] \in {"starting", "ready"} => \E l \in Tongues : servers'[l] = s
             /\ \A l \in Tongues : servers'[l] # None => child'[servers'[l]] # "unused"
             /\ \A s \in Children : open'[s] # {} => child'[s] \notin {"unused", "starting"}
             /\ \A s \in Children, f \in Files : f \in open'[s] /\ child'[s] = "ready" => sent'[s][f] > 0
  <2>1. CASE StartServer(c)
    BY <1>1, <2>1
  <2>2. CASE FileRead(c)
    BY <1>a, <1>2, <2>2
  <2>3. CASE ~StartServer(c) /\ ~FileRead(c)
    BY <1>a, <1>3, <1>8, <2>3
  <2> QED
    BY <2>1, <2>2, <2>3
<1>9. ASSUME NEW s \in Children, Initialized(s)
      PROVE  /\ \A t \in Children : child'[t] \in {"starting", "ready"} => \E l \in Tongues : servers'[l] = t
             /\ \A l \in Tongues : servers'[l] # None => child'[servers'[l]] # "unused"
             /\ \A t \in Children : open'[t] # {} => child'[t] \notin {"unused", "starting"}
             /\ \A t \in Children, f \in Files : f \in open'[t] /\ child'[t] = "ready" => sent'[t][f] > 0
  BY <1>0, <1>a, <1>4, <1>9
<1>10. ASSUME NEW s \in Children, NEW end \in {"killed", "dead"}, InitFails(s, end)
      PROVE  /\ \A t \in Children : child'[t] \in {"starting", "ready"} => \E l \in Tongues : servers'[l] = t
             /\ \A l \in Tongues : servers'[l] # None => child'[servers'[l]] # "unused"
             /\ \A t \in Children : open'[t] # {} => child'[t] \notin {"unused", "starting"}
             /\ \A t \in Children, f \in Files : f \in open'[t] /\ child'[t] = "ready" => sent'[t][f] > 0
  <2>1. /\ \A t \in Children : child'[t] = IF t = s THEN end ELSE child[t]
        /\ \A l \in Tongues : servers'[l] = IF servers[l] = s THEN None ELSE servers[l]
        /\ open' = open /\ sent' = sent
    BY <1>5, <1>10
  <2>2. \A t \in Children : child'[t] \in {"starting", "ready"} => \E l \in Tongues : servers'[l] = t
    BY <1>a, <2>1
  <2>3. \A l \in Tongues : servers'[l] # None => child'[servers'[l]] # "unused"
    BY <1>0, <1>a, <2>1
  <2>4. \A t \in Children : open'[t] # {} => child'[t] \notin {"unused", "starting"}
    BY <1>a, <2>1
  <2>5. \A t \in Children, f \in Files : f \in open'[t] /\ child'[t] = "ready" => sent'[t][f] > 0
    BY <1>a, <2>1
  <2> QED
    BY <2>2, <2>3, <2>4, <2>5
<1>11. ASSUME NEW s \in Children, ServerDies(s)
      PROVE  /\ \A t \in Children : child'[t] \in {"starting", "ready"} => \E l \in Tongues : servers'[l] = t
             /\ \A l \in Tongues : servers'[l] # None => child'[servers'[l]] # "unused"
             /\ \A t \in Children : open'[t] # {} => child'[t] \notin {"unused", "starting"}
             /\ \A t \in Children, f \in Files : f \in open'[t] /\ child'[t] = "ready" => sent'[t][f] > 0
  BY <1>0, <1>a, <1>6, <1>11
<1>12. ASSUME Dispose
      PROVE  /\ \A t \in Children : child'[t] \in {"starting", "ready"} => \E l \in Tongues : servers'[l] = t
             /\ \A l \in Tongues : servers'[l] # None => child'[servers'[l]] # "unused"
             /\ \A t \in Children : open'[t] # {} => child'[t] \notin {"unused", "starting"}
             /\ \A t \in Children, f \in Files : f \in open'[t] /\ child'[t] = "ready" => sent'[t][f] > 0
  BY <1>0, <1>a, <1>7, <1>12
<1> QED
  BY <1>8, <1>9, <1>10, <1>11, <1>12, NextSplits

(* Who reads which file changes only with OpenFile and FileRead.             *)
LEMMA ReadersLeft ==
  ASSUME Consistent, Settled, Next, \A c \in Calls : ~OpenFile(c) /\ ~FileRead(c)
  PROVE  /\ open' = open /\ sent' = sent /\ raced' = raced
         /\ \A c \in Calls, s \in Children, f \in Files : Reads(c, s, f)' => Reads(c, s, f)
<1>0. TypeOK /\ CallsSound /\ ServersSettled /\ call \in [Calls -> Call]
  BY TypeParts DEF Settled
<1>1. ASSUME NEW c \in Calls,
             CallStep(c) \/ Fails(c) \/ AnswerArrives(c) \/ \E hint \in Files \cup {None} : Read(c, hint)
      PROVE  /\ open' = open /\ sent' = sent /\ raced' = raced
             /\ \A d \in Calls : call'[d] = call[d] \/ call'[d].pc # "reading"
  <2>1. open' = open /\ sent' = sent /\ raced' = raced
    BY <1>0, <1>1, CallLeaves
  <2>2. PICK q \in Call : call' = [call EXCEPT ![c] = q] /\ (q.pc = "reading" => OpenFile(c))
    BY <1>0, <1>1, CallMoves
  <2> QED
    BY <1>0, <2>1, <2>2
<1>2. ASSUME NEW s \in Children, Initialized(s)
      PROVE  /\ open' = open /\ sent' = sent /\ raced' = raced
             /\ \A d \in Calls : call'[d] = call[d] \/ call'[d].pc # "reading"
  <2>1. \A d \in Calls : WithServer(call[d]).pc # "reading"
    BY <1>0, Served
  <2> QED
    BY <1>2, <2>1 DEF Initialized
<1>3. ASSUME NEW s \in Children, NEW end \in {"killed", "dead"}, InitFails(s, end)
      PROVE  /\ open' = open /\ sent' = sent /\ raced' = raced
             /\ \A d \in Calls : call'[d] = call[d] \/ call'[d].pc # "reading"
  <2>1. \A d \in Calls : NextLanguage(call[d]).pc # "reading"
    BY <1>0, Goes
  <2> QED
    BY <1>3, <2>1 DEF InitFails
<1>4. ASSUME NEW s \in Children, ServerDies(s)
      PROVE  /\ open' = open /\ sent' = sent /\ raced' = raced
             /\ \A d \in Calls : call'[d] = call[d] \/ call'[d].pc # "reading"
  <2>1. \A d \in Calls : Answered(call[d]).pc # "reading"
    BY Idles
  <2> QED
    BY <1>4, <2>1 DEF ServerDies
<1>5. ASSUME Dispose
      PROVE  /\ open' = open /\ sent' = sent /\ raced' = raced
             /\ \A d \in Calls : call'[d] = call[d] \/ call'[d].pc # "reading"
  BY <1>5 DEF Dispose
<1>6. /\ open' = open /\ sent' = sent /\ raced' = raced
      /\ \A d \in Calls : call'[d] = call[d] \/ call'[d].pc # "reading"
  BY <1>1, <1>2, <1>3, <1>4, <1>5, NextSplits
<1> QED
  BY <1>6 DEF Reads

(* Every step keeps the count of announcements: the second one of a file     *)
(* takes a second reader, and two readers at a time are on record.           *)
LEMMA OpensKept == ASSUME Consistent, Settled, Next PROVE OpensOnce'
<1>0. /\ open \in [Children -> SUBSET Files]
      /\ call \in [Calls -> Call]
      /\ sent \in [Children -> [Files -> Nat]]
      /\ TypeOK /\ CallsSound /\ ServersSettled /\ OpensOnce
  BY TypeParts DEF Settled
<1> SUFFICES ASSUME NEW s \in Children, NEW f \in Files
             PROVE  /\ sent'[s][f] > 0 => f \in open'[s]
                    /\ sent'[s][f] > 1 => <<s, f>> \in raced'
                    /\ \A c, d \in Calls : Reads(c, s, f)' /\ Reads(d, s, f)' /\ c # d => <<s, f>> \in raced'
                    /\ \A c \in Calls : Reads(c, s, f)' /\ f \in open'[s] => <<s, f>> \in raced'
  BY DEF OpensOnce
<1>a. /\ sent[s][f] > 0 => f \in open[s]
      /\ sent[s][f] > 1 => <<s, f>> \in raced
      /\ \A c, d \in Calls : Reads(c, s, f) /\ Reads(d, s, f) /\ c # d => <<s, f>> \in raced
      /\ \A c \in Calls : Reads(c, s, f) /\ f \in open[s] => <<s, f>> \in raced
      /\ sent[s][f] \in Nat
  BY <1>0 DEF OpensOnce
<1>1. CASE \A c \in Calls : ~OpenFile(c) /\ ~FileRead(c)
  <2>1. /\ open' = open /\ sent' = sent /\ raced' = raced
        /\ \A c \in Calls : Reads(c, s, f)' => Reads(c, s, f)
    BY <1>1, ReadersLeft
  <2> QED
    BY <1>a, <2>1
<1>2. ASSUME NEW c \in Calls, OpenFile(c)
      PROVE  /\ sent'[s][f] > 0 => f \in open'[s]
             /\ sent'[s][f] > 1 => <<s, f>> \in raced'
             /\ \A a, b \in Calls : Reads(a, s, f)' /\ Reads(b, s, f)' /\ a # b => <<s, f>> \in raced'
             /\ \A a \in Calls : Reads(a, s, f)' /\ f \in open'[s] => <<s, f>> \in raced'
  <2>1. open' = open /\ sent' = sent /\ raced \subseteq raced'
    BY <1>2 DEF OpenFile
  <2>2. \A d \in Calls : d # c => call'[d] = call[d]
    BY <1>0, <1>2 DEF OpenFile
  <2>3. \A d \in Calls : d # c => (Reads(d, s, f)' <=> Reads(d, s, f))
    BY <2>2 DEF Reads
  <2>4. ASSUME Reads(c, s, f)' PROVE call[c].srv = s /\ call[c].file = f /\ f \notin open[s]
    <3>1. call'[c] = [call[c] EXCEPT !.pc = IF call[c].file \in open[call[c].srv] THEN "ask" ELSE "reading"]
      BY <1>0, <1>2 DEF OpenFile
    <3>2. call'[c].pc = "reading" /\ call'[c].srv = s /\ call'[c].file = f
      BY <2>4 DEF Reads
    <3>3. call[c] \in Call
      BY <1>0
    <3>4. call'[c].srv = call[c].srv /\ call'[c].file = call[c].file
      BY <3>1, <3>3 DEF Call
    <3>5. call'[c].pc = IF call[c].file \in open[call[c].srv] THEN "ask" ELSE "reading"
      BY <3>1, <3>3 DEF Call
    <3> QED
      BY <3>2, <3>4, <3>5
  <2>5. ASSUME NEW d \in Calls, d # c, Reads(c, s, f)', Reads(d, s, f) PROVE <<s, f>> \in raced'
    <3>1. call[c].srv = s /\ call[c].file = f
      BY <2>4, <2>5
    <3>2. d \in {e \in Calls \ {c} : /\ call[e].pc = "reading"
                                     /\ call[e].srv = call[c].srv /\ call[e].file = call[c].file}
      BY <2>5, <3>1 DEF Reads
    <3>3. <<call[c].srv, call[c].file>> \in raced'
      BY <1>2, <3>2 DEF OpenFile
    <3> QED
      BY <3>1, <3>3
  <2>6. \A a, b \in Calls : Reads(a, s, f)' /\ Reads(b, s, f)' /\ a # b => <<s, f>> \in raced'
    BY <1>a, <2>1, <2>3, <2>5
  <2>7. \A a \in Calls : Reads(a, s, f)' /\ f \in open'[s] => <<s, f>> \in raced'
    BY <1>a, <2>1, <2>3, <2>4
  <2> QED
    BY <1>a, <2>1, <2>6, <2>7
<1>3. ASSUME NEW c \in Calls, FileRead(c)
      PROVE  /\ sent'[s][f] > 0 => f \in open'[s]
             /\ sent'[s][f] > 1 => <<s, f>> \in raced'
             /\ \A a, b \in Calls : Reads(a, s, f)' /\ Reads(b, s, f)' /\ a # b => <<s, f>> \in raced'
             /\ \A a \in Calls : Reads(a, s, f)' /\ f \in open'[s] => <<s, f>> \in raced'
  <2> DEFINE m == call[c].srv
  <2> DEFINE g == call[c].file
  <2>1. m \in Children /\ g \in Files /\ Reads(c, m, g)
    BY <1>0, <1>3 DEF FileRead, CallsSound, CallSound, Working, Reads
  <2>2. /\ raced' = raced
        /\ open' = [open EXCEPT ![m] = @ \cup {g}]
        /\ sent' = IF child[m] = "ready" THEN [sent EXCEPT ![m][g] = @ + 1] ELSE sent
    BY <1>3 DEF FileRead
  <2>3. \A d \in Calls : d # c => (Reads(d, s, f)' <=> Reads(d, s, f))
    <3>1. \A d \in Calls : d # c => call'[d] = call[d]
      BY <1>0, <1>3 DEF FileRead
    <3> QED
      BY <3>1 DEF Reads
  <2>4. ~Reads(c, s, f)'
    <3>1. call'[c] = [call[c] EXCEPT !.pc = "ask", !.tries = 0]
      BY <1>0, <1>3 DEF FileRead
    <3>2. call[c] \in Call
      BY <1>0
    <3>3. call'[c].pc = "ask"
      BY <3>1, <3>2 DEF Call
    <3> QED
      BY <3>3 DEF Reads
  <2> HIDE DEF m, g
  <2>5. /\ open'[s] = IF s = m THEN open[s] \cup {g} ELSE open[s]
        /\ sent'[s][f] = IF s = m /\ f = g /\ child[m] = "ready" THEN sent[s][f] + 1 ELSE sent[s][f]
    BY <1>0, <2>1, <2>2
  <2>6. CASE s = m /\ f = g
    <3>1. Reads(c, s, f) /\ f \in open'[s]
      BY <2>1, <2>5, <2>6
    <3>2. sent'[s][f] > 1 => <<s, f>> \in raced'
      <4> SUFFICES ASSUME sent'[s][f] > 1 PROVE <<s, f>> \in raced
        BY <2>2
      <4>1. sent[s][f] > 0
        BY <1>a, <2>5
      <4> QED
        BY <1>a, <3>1, <4>1
    <3>3. \A a \in Calls : Reads(a, s, f)' => <<s, f>> \in raced'
      BY <1>a, <2>2, <2>3, <2>4, <3>1
    <3> QED
      BY <3>1, <3>2, <3>3
  <2>7. CASE ~(s = m /\ f = g)
    <3>1. sent'[s][f] = sent[s][f] /\ (f \in open'[s] <=> f \in open[s])
      BY <2>5, <2>7
    <3> QED
      BY <1>a, <2>2, <2>3, <2>4, <3>1
  <2> QED
    BY <2>6, <2>7
<1> QED
  BY <1>1, <1>2, <1>3

(* A step of the specification keeps all of it.                              *)
LEMMA SettledKept == ASSUME Consistent, Settled, [Next]_vars PROVE Settled'
<1>1. CASE Next
  BY <1>1, TypeKept, CallsKept, ServersKept, OpensKept DEF Settled
<1>2. CASE UNCHANGED vars
  BY <1>2 DEF vars, Settled, TypeOK, CallsSound, ServersSettled, LiveIsMapped, Alive, OpensOnce, Reads
<1> QED
  BY <1>1, <1>2

(* What the invariant says in the words of the model-checked property.       *)
LEMMA SettledIsSound == ASSUME Consistent, Settled PROVE ServersSound
<1>1. LiveIsMapped
  BY DEF Settled, ServersSettled
<1>2. WaitsOnLive
  <2> SUFFICES ASSUME NEW c \in Calls
               PROVE  /\ call[c].pc = "wait" => child[call[c].srv] = "starting"
                      /\ call[c].pc = "asked" => child[call[c].srv] = "ready"
                      /\ call[c].pc = "asked" /\ call[c].stage # "workspace" =>
                           call[c].file \in open[call[c].srv] /\ sent[call[c].srv][call[c].file] > 0
    BY DEF WaitsOnLive
  <2>1. CallSound(call[c], child, open)
    BY DEF Settled, CallsSound
  <2>2. ASSUME call[c].pc = "asked", call[c].stage # "workspace"
        PROVE  call[c].file \in open[call[c].srv] /\ sent[call[c].srv][call[c].file] > 0
    <3>1. /\ call[c].srv \in Children /\ call[c].file \in Files
          /\ child[call[c].srv] = "ready" /\ call[c].file \in open[call[c].srv]
      BY <2>1, <2>2 DEF CallSound, Working
    <3> QED
      BY <3>1 DEF Settled, ServersSettled
  <2> QED
    BY <2>1, <2>2 DEF CallSound
<1>3. DoubleOpenOnlyRaced
  BY DEF Settled, OpensOnce, DoubleOpenOnlyRaced
<1> QED
  BY <1>1, <1>2, <1>3 DEF ServersSound

-----------------------------------------------------------------------------
(* Every reachable state of the manager has the types of TypeOK: no call     *)
(* works with a server, a file or a list of languages that there is not.     *)
THEOREM TypeCorrect == ASSUME Consistent PROVE Spec => []TypeOK
<1>1. Init => Settled
  BY InitSettled
<1>2. Settled /\ [Next]_vars => Settled'
  BY SettledKept
<1>3. Settled => TypeOK
  BY DEF Settled
<1> QED
  BY <1>1, <1>2, <1>3, PTL DEF Spec

(* However starts, failed handshakes, deaths and parallel calls interleave,  *)
(* ensureServer's map names every live process, nobody waits on a process    *)
(* that cannot answer, a request about a file follows its didOpen on that    *)
(* connection, and only calls that read a file at a time announce it twice.  *)
THEOREM ServersCorrect == ASSUME Consistent PROVE Spec => []ServersSound
<1>1. Init => Settled
  BY InitSettled
<1>2. Settled /\ [Next]_vars => Settled'
  BY SettledKept
<1>3. Settled => ServersSound
  BY SettledIsSound
<1> QED
  BY <1>1, <1>2, <1>3, PTL DEF Spec
=============================================================================
