-------------------------- MODULE SessionLogProofs --------------------------
(***************************************************************************)
(* What holds of the log of a session for any number of requests and of    *)
(* mishaps.  The invariants build on each other:                           *)
(*                                                                         *)
(*   Order     types; runs start in the order of their numbers, a run      *)
(*             waits for exactly one job, a freeze is of a run that is     *)
(*             over.  Spec => []TypeOK.                                    *)
(*   Erased    a delete is asked for after the first run has begun, so no  *)
(*             header follows it, and what is appended later never loads.  *)
(*   History   what a reply or a resend in the queue or the file says of   *)
(*             the runs behind it; a file without a last newline is torn.  *)
(*   Answers   a reply is queued only after its question is logged.        *)
(*   Once      no message is queued or logged twice.                       *)
(*   Paid      a message that the fold has lost, and the one at risk while *)
(*             the file has no last newline, are paid for by torn appends. *)
(*   Frozen    what spends a freeze, the tombstone or the fold of another  *)
(*             freeze, stays behind it in the queue or the file.           *)
(*   Titles    the title that the file will end up with, once the queue    *)
(*             has drained, is the one the window shows.                   *)
(*   Ahead     so are the freeze, the pin and the messages, and            *)
(*             WindowMatchesLog is what is left of it with an empty queue. *)
(*                                                                         *)
(* Steps move the queue by Shift: at most the head leaves, what stays      *)
(* stems from what was there, and what is new is a NewJob at the end.      *)
(***************************************************************************)
EXTENDS SessionLog, TLAPS, FiniteSetTheorems, SequenceTheorems

(* The jobs a queue holds, with those whose first appends have landed. *)
StartJobs ==
  {Job("start", 1, s) : s \in {<<Header, Say("user", 1), Titled("query")>>,
                               <<Say("user", 1), Titled("query")>>, <<Titled("query")>>}}
SendJobs ==
  {Job("send", r, <<Say("user", r), Status>>) : r \in Run} \cup {Job("send", r, <<Status>>) : r \in Run}
ResumeJobs == {Job("resume", r, <<Status>>) : r \in Run}
PersistJobs == {Persist(r, Status) : r \in Run} \cup {Persist(r, Paused(r)) : r \in Run}
PatchJobs ==
  {Patch(Titled(t)) : t \in Title} \cup {Patch(Pinned(b)) : b \in BOOLEAN}
    \cup {Patch(Paused(r)) : r \in Run \cup {0}} \cup {Patch(Status)}
DeleteJob == Job("delete", 0, <<Remove>>)
Jobs == StartJobs \cup SendJobs \cup ResumeJobs \cup PersistJobs \cup PatchJobs \cup {DeleteJob}

Holds(job, e) == \E i \in DOMAIN job.entries : job.entries[i] = e
Final(job) == job.entries[Len(job.entries)]

-----------------------------------------------------------------------------
(* Entries, jobs and lines. *)

(* The kinds tell the entries apart. *)
LEMMA Kinds ==
  /\ Header.kind = "session" /\ Status.kind = "status" /\ Remove.kind = "remove"
  /\ Garbage.kind = "garbage" /\ Tombstone.kind = "paused" /\ Tombstone.run = 0
  /\ \A role, r : /\ Say(role, r).kind = "message"
                  /\ Say(role, r).role = role /\ Say(role, r).run = r
  /\ \A t : Titled(t).kind = "title" /\ Titled(t).title = t
  /\ \A b : Pinned(b).kind = "pinned" /\ Pinned(b).pinned = b
  /\ \A r : Paused(r).kind = "paused" /\ Paused(r).run = r
BY DEF Header, Status, Remove, Garbage, Tombstone, Say, Titled, Pinned, Paused

(* What an entry is by its kind. *)
LEMMA EntryKinds ==
  /\ \A e \in Message : e.kind = "message" /\ e = Say(e.role, e.run) /\ e.run \in Run
                        /\ (e.role = "user" \/ e.role = "assistant")
  /\ \A e \in Entry : e # Remove /\ e # Garbage
  /\ \A e \in Line : e.kind = "message" => e \in Message
  /\ \A e \in Line : e.kind = "title" => \E t \in Title : e = Titled(t)
  /\ \A e \in Line : e.kind = "pinned" => \E b \in BOOLEAN : e = Pinned(b)
  /\ \A e \in Line : e.kind = "paused" => \E r \in Run \cup {0} : e = Paused(r)
  /\ \A e \in Line : e.kind = "session" => e = Header
BY Kinds DEF Entry, Line, Message, Header, Status, Garbage, Remove, Say, Titled, Pinned, Paused

(* Every entry that a job carries is an entry of the log, and every entry is a line. *)
LEMMA Entries ==
  /\ Header \in Entry /\ Status \in Entry /\ Tombstone \in Entry
  /\ \A r \in Run : Say("user", r) \in Message /\ Say("assistant", r) \in Message
  /\ \A r \in Run : Paused(r) \in Entry
  /\ \A t \in Title : Titled(t) \in Entry
  /\ \A b \in BOOLEAN : Pinned(b) \in Entry
  /\ Message \subseteq Entry /\ Entry \subseteq Line /\ Garbage \in Line
BY DEF Header, Status, Tombstone, Say, Paused, Titled, Pinned, Entry, Message, Line

(* The shapes of a job: what it is for, and what it has left to append. *)
LEMMA JobShapes ==
  ASSUME NEW job \in Jobs
  PROVE  \/ /\ job.op = "start" /\ job.run = 1
            /\ \/ job.entries = <<Header, Say("user", 1), Titled("query")>>
               \/ job.entries = <<Say("user", 1), Titled("query")>>
               \/ job.entries = <<Titled("query")>>
         \/ /\ job.op = "send" /\ job.run \in Run
            /\ \/ job.entries = <<Say("user", job.run), Status>>
               \/ job.entries = <<Status>>
         \/ job.op = "resume" /\ job.run \in Run /\ job.entries = <<Status>>
         \/ /\ job.op = "patch" /\ job.run = 0
            /\ \E r \in Run : \/ job.entries = <<Say("assistant", r), Status>>
                              \/ job.entries = <<Say("assistant", r), Paused(r)>>
         \/ /\ job.op = "patch" /\ job.run = 0
            /\ \/ \E t \in Title : job.entries = <<Titled(t)>>
               \/ \E b \in BOOLEAN : job.entries = <<Pinned(b)>>
               \/ \E r \in Run \cup {0} : job.entries = <<Paused(r)>>
               \/ job.entries = <<Status>>
         \/ job.op = "delete" /\ job.run = 0 /\ job.entries = <<Remove>>
<1>1. CASE job \in StartJobs
  BY <1>1 DEF StartJobs, Job
<1>2. CASE job \in SendJobs
  BY <1>2 DEF SendJobs, Job
<1>3. CASE job \in ResumeJobs
  BY <1>3 DEF ResumeJobs, Job
<1>4. CASE job \in PersistJobs
  BY <1>4 DEF PersistJobs, Persist, Job
<1>5. CASE job \in PatchJobs
  BY <1>5 DEF PatchJobs, Patch, Job
<1>6. CASE job = DeleteJob
  BY <1>6 DEF DeleteJob, Job
<1> QED
  BY <1>1, <1>2, <1>3, <1>4, <1>5, <1>6 DEF Jobs

(* The jobs the program enqueues. *)
LEMMA NewJobs ==
  /\ 1 \in Run => Job("start", 1, <<Header, Say("user", 1), Titled("query")>>) \in Jobs
  /\ \A r \in Run : /\ Job("send", r, <<Say("user", r), Status>>) \in Jobs
                    /\ Job("resume", r, <<Status>>) \in Jobs
                    /\ Persist(r, Status) \in Jobs /\ Persist(r, Paused(r)) \in Jobs
  /\ \A t \in Title : Patch(Titled(t)) \in Jobs
  /\ \A b \in BOOLEAN : Patch(Pinned(b)) \in Jobs
  /\ Patch(Tombstone) \in Jobs
  /\ Job("delete", 0, <<Remove>>) \in Jobs
BY DEF Jobs, StartJobs, SendJobs, ResumeJobs, PersistJobs, PatchJobs, DeleteJob, Tombstone

(* Lengths as numbers. *)
LEMMA LenCases ==
  ASSUME NEW S, NEW s \in Seq(S)
  PROVE  /\ Len(s) > 1 <=> Len(s) # 1 /\ s # <<>>
         /\ Len(s) = 0 <=> s = <<>>
<1> DEFINE n == Len(s)
<1>1. n \in Nat /\ (n = 0 <=> s = <<>>)
  BY LenProperties, EmptySeq
<1> HIDE DEF n
<1>2. n > 1 <=> n # 1 /\ s # <<>>
  BY <1>1
<1> QED
  BY <1>1, <1>2 DEF n

(* Tuples, element by element. *)
LEMMA One ==
  ASSUME NEW a, NEW s, s = <<a>>
  PROVE  Len(s) = 1 /\ DOMAIN s = 1..1 /\ s[1] = a /\ s # <<>>
OBVIOUS

(* The parts of a sequence of two entries. *)
LEMMA Two ==
  ASSUME NEW a, NEW b, NEW s, s = <<a, b>>
  PROVE  Len(s) = 2 /\ DOMAIN s = 1..2 /\ s[1] = a /\ s[2] = b /\ Tail(s) = <<b>> /\ s # <<>>
OBVIOUS

(* The parts of a sequence of three entries. *)
LEMMA Three ==
  ASSUME NEW a, NEW b, NEW c, NEW s, s = <<a, b, c>>
  PROVE  /\ Len(s) = 3 /\ DOMAIN s = 1..3 /\ s[1] = a /\ s[2] = b /\ s[3] = c
         /\ Tail(s) = <<b, c>> /\ s # <<>>
OBVIOUS

(* The same shapes, element by element. *)
Startwise(e) ==
  \/ Len(e) = 3 /\ e[1] = Header /\ e[2] = Say("user", 1) /\ e[3] = Titled("query")
  \/ Len(e) = 2 /\ e[1] = Say("user", 1) /\ e[2] = Titled("query")
  \/ Len(e) = 1 /\ e[1] = Titled("query")
Sendwise(e, r) ==
  \/ Len(e) = 2 /\ e[1] = Say("user", r) /\ e[2] = Status
  \/ Len(e) = 1 /\ e[1] = Status
Persistwise(e) ==
  \E r \in Run : Len(e) = 2 /\ e[1] = Say("assistant", r) /\ (e[2] = Status \/ e[2] = Paused(r))
Patchwise(e) ==
  /\ Len(e) = 1
  /\ \/ \E t \in Title : e[1] = Titled(t)
     \/ \E b \in BOOLEAN : e[1] = Pinned(b)
     \/ \E r \in Run \cup {0} : e[1] = Paused(r)
     \/ e[1] = Status

(* What a queued job carries, element by element, by its operation. *)
LEMMA JobParts ==
  ASSUME NEW job \in Jobs
  PROVE  /\ DOMAIN job.entries = 1..Len(job.entries)
         /\ Len(job.entries) \in 1..3
         /\ job.entries # <<>>
         /\ \/ job.op = "start" /\ job.run = 1 /\ Startwise(job.entries)
            \/ job.op = "send" /\ job.run \in Run /\ Sendwise(job.entries, job.run)
            \/ job.op = "resume" /\ job.run \in Run /\ Len(job.entries) = 1 /\ job.entries[1] = Status
            \/ job.op = "patch" /\ job.run = 0 /\ (Persistwise(job.entries) \/ Patchwise(job.entries))
            \/ job.op = "delete" /\ job.run = 0 /\ Len(job.entries) = 1 /\ job.entries[1] = Remove
<1>1. CASE job.op = "start"
  <2>1. \/ job.entries = <<Header, Say("user", 1), Titled("query")>>
        \/ job.entries = <<Say("user", 1), Titled("query")>>
        \/ job.entries = <<Titled("query")>>
    BY <1>1, JobShapes
  <2>2. job.run = 1
    BY <1>1, JobShapes
  <2>3. CASE job.entries = <<Header, Say("user", 1), Titled("query")>>
    <3>1. /\ Len(job.entries) = 3 /\ job.entries[1] = Header /\ job.entries[2] = Say("user", 1)
          /\ job.entries[3] = Titled("query")
          /\ DOMAIN job.entries = 1..3 /\ job.entries # <<>>
      BY <2>3, Three
    <3> QED
      BY <1>1, <2>2, <3>1 DEF Startwise
  <2>4. CASE job.entries = <<Say("user", 1), Titled("query")>>
    <3>1. /\ Len(job.entries) = 2 /\ job.entries[1] = Say("user", 1)
          /\ job.entries[2] = Titled("query")
          /\ DOMAIN job.entries = 1..2 /\ job.entries # <<>>
      BY <2>4, Two
    <3> QED
      BY <1>1, <2>2, <3>1 DEF Startwise
  <2>5. CASE job.entries = <<Titled("query")>>
    <3>1. /\ Len(job.entries) = 1 /\ job.entries[1] = Titled("query")
          /\ DOMAIN job.entries = 1..1 /\ job.entries # <<>>
      BY <2>5, One
    <3> QED
      BY <1>1, <2>2, <3>1 DEF Startwise
  <2> QED
    BY <2>1, <2>3, <2>4, <2>5
<1>2. CASE job.op = "send"
  <2>1. job.entries = <<Say("user", job.run), Status>> \/ job.entries = <<Status>>
    BY <1>2, JobShapes
  <2>2. job.run \in Run
    BY <1>2, JobShapes
  <2>3. CASE job.entries = <<Say("user", job.run), Status>>
    <3>1. /\ Len(job.entries) = 2 /\ job.entries[1] = Say("user", job.run)
          /\ job.entries[2] = Status
          /\ DOMAIN job.entries = 1..2 /\ job.entries # <<>>
      BY <2>3, Two
    <3> QED
      BY <1>2, <2>2, <3>1 DEF Sendwise
  <2>4. CASE job.entries = <<Status>>
    <3>1. /\ Len(job.entries) = 1 /\ job.entries[1] = Status
          /\ DOMAIN job.entries = 1..1 /\ job.entries # <<>>
      BY <2>4, One
    <3> QED
      BY <1>2, <2>2, <3>1 DEF Sendwise
  <2> QED
    BY <2>1, <2>3, <2>4
<1>3. CASE job.op = "resume"
  <2>1. job.entries = <<Status>> /\ job.run \in Run
    BY <1>3, JobShapes
  <2> QED
    BY <1>3, <2>1, One
<1>4. CASE job.op = "patch"
  <2>0. job.run = 0
    BY <1>4, JobShapes
  <2>1. ASSUME NEW r \in Run,
               \/ job.entries = <<Say("assistant", r), Status>>
               \/ job.entries = <<Say("assistant", r), Paused(r)>>
        PROVE  /\ DOMAIN job.entries = 1..Len(job.entries) /\ Len(job.entries) \in 1..3
               /\ job.entries # <<>> /\ Persistwise(job.entries)
    <3>1. /\ Len(job.entries) = 2 /\ job.entries[1] = Say("assistant", r)
          /\ job.entries[2] = Status \/ job.entries[2] = Paused(r)
          /\ DOMAIN job.entries = 1..2 /\ job.entries # <<>>
      <4>1. ASSUME NEW b, job.entries = <<Say("assistant", r), b>>
            PROVE  /\ Len(job.entries) = 2 /\ job.entries[1] = Say("assistant", r)
                   /\ job.entries[2] = b
                   /\ DOMAIN job.entries = 1..2 /\ job.entries # <<>>
        BY <4>1, Two
      <4> QED
        BY <2>1, <4>1
    <3> QED
      BY <3>1 DEF Persistwise
  <2>2. ASSUME NEW a, job.entries = <<a>>,
               \/ \E t \in Title : a = Titled(t)
               \/ \E b \in BOOLEAN : a = Pinned(b)
               \/ \E r \in Run \cup {0} : a = Paused(r)
               \/ a = Status
        PROVE  /\ DOMAIN job.entries = 1..Len(job.entries) /\ Len(job.entries) \in 1..3
               /\ job.entries # <<>> /\ Patchwise(job.entries)
    BY <2>2, One DEF Patchwise
  <2> QED
    BY <1>4, <2>0, <2>1, <2>2, JobShapes
<1>5. CASE job.op = "delete"
  <2>1. job.entries = <<Remove>> /\ job.run = 0
    BY <1>5, JobShapes
  <2> QED
    BY <1>5, <2>1, One
<1> QED
  BY <1>1, <1>2, <1>3, <1>4, <1>5, JobShapes

(* A job has between one and three appends, of entries unless it is the delete. *)
LEMMA JobEntries ==
  ASSUME NEW job \in Jobs
  PROVE  /\ job.op \in {"start", "send", "resume", "patch", "delete"}
         /\ job.run \in Run \cup {0}
         /\ job.run = 0 <=> job.op \in {"patch", "delete"}
         /\ job.op = "start" => job.run = 1
         /\ job.entries \in Seq(Entry \cup {Remove})
         /\ Len(job.entries) \in 1..3 /\ job.entries # <<>>
         /\ DOMAIN job.entries = 1..Len(job.entries)
         /\ job.op = "delete" => Len(job.entries) = 1 /\ job.entries[1] = Remove
         /\ job.op # "delete" => job.entries \in Seq(Entry)
<1>1. 0 \notin Run /\ 1 \in Run
  BY SessionLogAssumption DEF Run
<1>2. /\ Header \in Entry /\ Status \in Entry
      /\ \A r \in Run : Say("user", r) \in Entry /\ Say("assistant", r) \in Entry
      /\ \A r \in Run \cup {0} : Paused(r) \in Entry
      /\ \A t \in Title : Titled(t) \in Entry
      /\ \A b \in BOOLEAN : Pinned(b) \in Entry
      /\ "query" \in Title
  BY Entries DEF Tombstone, Title
<1>4. /\ job.op \in {"start", "send", "resume", "patch", "delete"}
      /\ job.run \in Run \cup {0}
      /\ job.run = 0 <=> job.op \in {"patch", "delete"}
      /\ job.op = "start" => job.run = 1
      /\ job.op = "delete" => Len(job.entries) = 1 /\ job.entries[1] = Remove
  BY <1>1, JobParts
<1>5. \/ \E a \in Entry : job.entries = <<a>>
      \/ \E a, b \in Entry : job.entries = <<a, b>>
      \/ \E a, b, c \in Entry : job.entries = <<a, b, c>>
      \/ job.op = "delete" /\ job.entries = <<Remove>>
  BY <1>1, <1>2, JobShapes
<1>6. Remove \in Entry \cup {Remove} /\ Entry \subseteq Entry \cup {Remove}
  OBVIOUS
<1>7. /\ job.entries \in Seq(Entry \cup {Remove})
      /\ job.op # "delete" => job.entries \in Seq(Entry)
  <2>1. ASSUME NEW a \in Entry, job.entries = <<a>> PROVE job.entries \in Seq(Entry)
    BY <2>1
  <2>2. ASSUME NEW a \in Entry, NEW b \in Entry, job.entries = <<a, b>>
        PROVE  job.entries \in Seq(Entry)
    BY <2>2
  <2>3. ASSUME NEW a \in Entry, NEW b \in Entry, NEW c \in Entry, job.entries = <<a, b, c>>
        PROVE  job.entries \in Seq(Entry)
    BY <2>3
  <2>4. ASSUME job.entries = <<Remove>> PROVE job.entries \in Seq(Entry \cup {Remove})
    BY <2>4
  <2>5. job.entries \in Seq(Entry) => job.entries \in Seq(Entry \cup {Remove})
    BY SeqMonotonic
  <2> QED
    BY <1>5, <2>1, <2>2, <2>3, <2>4, <2>5
<1> QED
  BY <1>4, <1>7, JobParts

(* Where in a job an entry of a kind may be. *)
LEMMA JobOrder ==
  ASSUME NEW job \in Jobs, NEW i \in DOMAIN job.entries
  PROVE  /\ job.entries[i].kind \in
              {"session", "status", "remove", "message", "title", "pinned", "paused"}
         /\ job.entries[i].kind = "session" =>
              i = 1 /\ job.op = "start" /\ Len(job.entries) = 3 /\ job.entries[2] = Say("user", 1)
         /\ job.entries[i].kind = "remove" => job.op = "delete"
         /\ job.entries[i].kind = "message" =>
              /\ i # Len(job.entries)
              /\ \/ /\ job.op \in {"start", "send"} /\ job.entries[i] = Say("user", job.run)
                    /\ job.run \in Run
                 \/ i = 1 /\ job.op = "patch" /\ \E r \in Run : job.entries[i] = Say("assistant", r)
         /\ job.entries[i].kind \in {"title", "pinned", "paused", "status", "remove"} =>
              i = Len(job.entries)
         /\ job.entries[i].kind \in {"pinned", "paused"} => job.op = "patch"
         /\ job.entries[i].kind = "title" =>
              job.op = "start" \/ (job.op = "patch" /\ Len(job.entries) = 1)
         /\ job.entries[i].kind = "pinned" => Len(job.entries) = 1
<1>0. /\ 1 \in Run /\ DOMAIN job.entries = 1..Len(job.entries) /\ Len(job.entries) \in 1..3
      /\ job.entries \in Seq(Entry \cup {Remove})
  BY SessionLogAssumption, JobEntries DEF Run
<1>1. CASE job.op = "start" /\ job.run = 1 /\ Startwise(job.entries)
  <2>1. CASE Len(job.entries) = 3
    <3>1. /\ job.entries[1].kind = "session" /\ job.entries[2] = Say("user", 1)
          /\ job.entries[2].kind = "message" /\ job.entries[3].kind = "title"
      BY <1>1, <2>1, Kinds DEF Startwise
    <3>2. i = 1 \/ i = 2 \/ i = 3
      BY <1>0, <2>1
    <3>3. CASE i = 1
      BY <1>1, <2>1, <3>1, <3>3
    <3>4. CASE i = 2
      BY <1>0, <1>1, <2>1, <3>1, <3>4
    <3>5. CASE i = 3
      <4>1. i = Len(job.entries)
        BY <2>1, <3>5
      <4>2. job.entries[i].kind = "title"
        BY <3>1, <3>5
      <4> QED
        BY <1>1, <4>1, <4>2
    <3> QED
      BY <3>2, <3>3, <3>4, <3>5
  <2>2. CASE Len(job.entries) = 2
    <3>1. /\ job.entries[1] = Say("user", 1) /\ job.entries[1].kind = "message"
          /\ job.entries[2].kind = "title"
      BY <1>1, <2>2, Kinds DEF Startwise
    <3>2. i = 1 \/ i = 2
      BY <1>0, <2>2
    <3>3. CASE i = 1
      BY <1>0, <1>1, <2>2, <3>1, <3>3
    <3>4. CASE i = 2
      <4>1. i = Len(job.entries)
        BY <2>2, <3>4
      <4>2. job.entries[i].kind = "title"
        BY <3>1, <3>4
      <4> QED
        BY <1>1, <4>1, <4>2
    <3> QED
      BY <3>2, <3>3, <3>4
  <2>3. CASE Len(job.entries) = 1
    <3>1. i = 1 /\ job.entries[1].kind = "title"
      BY <1>0, <1>1, <2>3, Kinds DEF Startwise
    <3> QED
      BY <1>0, <1>1, <2>3, <3>1
  <2> QED
    BY <1>0, <2>1, <2>2, <2>3
<1>2. CASE job.op = "send" /\ job.run \in Run /\ Sendwise(job.entries, job.run)
  <2>1. CASE Len(job.entries) = 2
    <3>1. /\ job.entries[1] = Say("user", job.run) /\ job.entries[1].kind = "message"
          /\ job.entries[2].kind = "status"
      BY <1>2, <2>1, Kinds DEF Sendwise
    <3>2. i = 1 \/ i = 2
      BY <1>0, <2>1
    <3> QED
      BY <1>0, <1>2, <2>1, <3>1, <3>2
  <2>2. CASE Len(job.entries) = 1
    <3>1. i = 1 /\ job.entries[1].kind = "status"
      BY <1>0, <1>2, <2>2, Kinds DEF Sendwise
    <3> QED
      BY <1>0, <1>2, <2>2, <3>1
  <2> QED
    BY <1>2, <2>1, <2>2 DEF Sendwise
<1>3. CASE job.op = "resume" /\ Len(job.entries) = 1 /\ job.entries[1] = Status
  BY <1>0, <1>3, Kinds
<1>4. CASE job.op = "patch" /\ Persistwise(job.entries)
  BY <1>0, <1>4, Kinds DEF Persistwise
<1>5. CASE job.op = "patch" /\ Patchwise(job.entries)
  BY <1>0, <1>5, Kinds DEF Patchwise
<1>6. CASE job.op = "delete" /\ Len(job.entries) = 1 /\ job.entries[1] = Remove
  BY <1>0, <1>6, Kinds
<1> QED
  BY <1>1, <1>2, <1>3, <1>4, <1>5, <1>6, JobParts

(* A message is in a job once. *)
LEMMA JobSaysOnce ==
  ASSUME NEW job \in Jobs, NEW i \in DOMAIN job.entries, NEW j \in DOMAIN job.entries,
         job.entries[i].kind = "message", job.entries[j].kind = "message"
  PROVE  i = j
<1>0. DOMAIN job.entries = 1..Len(job.entries) /\ Len(job.entries) \in 1..3
  BY JobParts
<1>1. CASE Startwise(job.entries)
  BY <1>0, <1>1, Kinds DEF Startwise
<1>2. CASE Sendwise(job.entries, job.run)
  BY <1>0, <1>2, Kinds DEF Sendwise
<1>3. CASE Persistwise(job.entries)
  BY <1>0, <1>3, Kinds DEF Persistwise
<1>4. CASE Len(job.entries) = 1
  BY <1>0, <1>4
<1> QED
  BY <1>1, <1>2, <1>3, <1>4, JobParts DEF Patchwise

(* The job under way once its first append has landed. *)
LEMMA JobAdvance ==
  ASSUME NEW job \in Jobs, Len(job.entries) > 1,
         NEW rest, rest = Rest(job)
  PROVE  /\ rest \in Jobs
         /\ rest.op = job.op /\ rest.run = job.run
         /\ job.op # "delete"
         /\ rest.entries = Tail(job.entries)
         /\ Len(rest.entries) = Len(job.entries) - 1
         /\ \A i \in DOMAIN rest.entries :
              i + 1 \in DOMAIN job.entries /\ rest.entries[i] = job.entries[i + 1]
         /\ \A e : Holds(rest, e) => Holds(job, e)
         /\ \A e : Holds(job, e) => Holds(rest, e) \/ e = Head(job.entries)
         /\ ~Holds(rest, Head(job.entries))
         /\ Final(rest) = Final(job)
         /\ Head(job.entries) \in {Header} \cup Message
<1>0. job = [op |-> job.op, run |-> job.run, entries |-> job.entries]
  BY DEF Jobs, StartJobs, SendJobs, ResumeJobs, PersistJobs, PatchJobs, DeleteJob, Persist, Patch,
     Job
<1>a. \A a : job.entries # <<a>>
  <2> SUFFICES ASSUME NEW a, job.entries = <<a>> PROVE FALSE
    OBVIOUS
  <2>1. Len(job.entries) = 1
    BY One
  <2> QED
    BY <2>1
<1>1. rest = Job(job.op, job.run, Tail(job.entries))
  BY <1>0 DEF Job, Rest
<1>2. rest.op = job.op /\ rest.run = job.run /\ rest.entries = Tail(job.entries) /\ job.op # "delete"
  BY <1>1, JobEntries DEF Job
<1>3. Len(rest.entries) = Len(job.entries) - 1
      /\ \A i \in DOMAIN rest.entries :
              i + 1 \in DOMAIN job.entries /\ rest.entries[i] = job.entries[i + 1]
  BY <1>2, JobEntries, HeadTailProperties
<1>4. rest \in Jobs
  <2>1. CASE job.op = "start"
    <3>1. \/ job.entries = <<Header, Say("user", 1), Titled("query")>>
          \/ job.entries = <<Say("user", 1), Titled("query")>>
          \/ job.entries = <<Titled("query")>>
      BY <2>1, JobShapes
    <3>5. ASSUME job.entries = <<Header, Say("user", 1), Titled("query")>>
          PROVE  Tail(job.entries) = <<Say("user", 1), Titled("query")>>
      BY <3>5, Three
    <3>6. ASSUME job.entries = <<Say("user", 1), Titled("query")>>
          PROVE  Tail(job.entries) = <<Titled("query")>>
      BY <3>6, Two
    <3>2. \/ Tail(job.entries) = <<Say("user", 1), Titled("query")>>
          \/ Tail(job.entries) = <<Titled("query")>>
      BY <1>a, <3>1, <3>5, <3>6
    <3>3. job.run = 1
      BY <2>1, JobParts
    <3> QED
      BY <1>1, <2>1, <3>2, <3>3 DEF Jobs, StartJobs
  <2>2. CASE job.op = "send"
    <3>0. job.entries = <<Say("user", job.run), Status>> \/ job.entries = <<Status>>
      BY <2>2, JobShapes
    <3>3. ASSUME job.entries = <<Say("user", job.run), Status>>
          PROVE  Tail(job.entries) = <<Status>>
      BY <3>3, Two
    <3>1. Tail(job.entries) = <<Status>> /\ job.run \in Run
      BY <1>a, <2>2, <3>0, <3>3, JobParts
    <3> QED
      BY <1>1, <2>2, <3>1 DEF Jobs, SendJobs
  <2>3. CASE job.op = "patch"
    <3>0. PICK r \in Run : \/ job.entries = <<Say("assistant", r), Status>>
                          \/ job.entries = <<Say("assistant", r), Paused(r)>>
      BY <1>a, <2>3, JobShapes
    <3>1. Tail(job.entries) = <<Status>> \/ Tail(job.entries) = <<Paused(r)>>
      <4>1. ASSUME NEW a, NEW b, job.entries = <<a, b>> PROVE Tail(job.entries) = <<b>>
        BY <4>1, Two
      <4> QED
        BY <3>0, <4>1
    <3>2. job.run = 0
      BY <2>3, JobParts
    <3> QED
      BY <1>1, <2>3, <3>1, <3>2 DEF Jobs, PatchJobs, Patch
  <2> QED
    BY <1>a, <2>1, <2>2, <2>3, JobShapes
<1>5. Head(job.entries) \in {Header} \cup Message
  <2>1. 1 \in Run
    BY SessionLogAssumption DEF Run
  <2>2. Head(job.entries) = job.entries[1] /\ Len(job.entries) # 1
    <3>1. job.entries \in Seq(Entry \cup {Remove}) /\ job.entries # <<>>
      BY JobEntries
    <3>2. Head(job.entries) = job.entries[1]
      BY <3>1, HeadTailProperties
    <3>4. Len(job.entries) # 1
      BY <3>1, LenCases
    <3> QED
      BY <3>2, <3>4
  <2> QED
    BY <2>1, <2>2, JobParts, Entries DEF Startwise, Sendwise, Persistwise, Patchwise
<1>6. \A e : Holds(rest, e) => Holds(job, e)
  BY <1>3 DEF Holds
<1>7. \A e : Holds(job, e) => Holds(rest, e) \/ e = Head(job.entries)
  <2> SUFFICES ASSUME NEW i \in DOMAIN job.entries
               PROVE  Holds(rest, job.entries[i]) \/ job.entries[i] = Head(job.entries)
    BY DEF Holds
  <2>1. CASE i = 1
    BY <2>1, JobEntries
  <2>2. CASE i # 1
    <3>1. i - 1 \in DOMAIN rest.entries /\ rest.entries[i - 1] = job.entries[i]
      BY <1>2, <2>2, JobEntries, HeadTailProperties
    <3> QED
      BY <3>1 DEF Holds
  <2> QED
    BY <2>1, <2>2
<1>8. ~Holds(rest, Head(job.entries))
  <2> SUFFICES ASSUME NEW i \in DOMAIN rest.entries, rest.entries[i] = Head(job.entries)
               PROVE  FALSE
    BY DEF Holds
  <2>1. i + 1 \in DOMAIN job.entries /\ job.entries[i + 1] = job.entries[1] /\ i \in Nat /\ i > 0
        /\ 1 \in DOMAIN job.entries
    BY <1>2, <1>3, JobEntries, HeadTailProperties
  <2>2. job.entries[1].kind \in {"session", "message"}
    BY <1>5, <2>1, JobEntries, Kinds, EntryKinds
  <2> QED
    BY <2>1, <2>2, JobOrder, JobSaysOnce
<1>9. Final(rest) = Final(job)
  BY <1>2, JobEntries, HeadTailProperties DEF Final
<1> QED
  BY <1>2, <1>3, <1>4, <1>5, <1>6, <1>7, <1>8, <1>9

-----------------------------------------------------------------------------
(* Sequences, and the last line of a kind. *)

(* Leaving the head of a sequence moves every other element down by one. *)
LEMMA TailShifts ==
  ASSUME NEW S, NEW s \in Seq(S), s # <<>>
  PROVE  /\ Head(s) = s[1] /\ 1 \in DOMAIN s /\ s[1] \in S
         /\ Tail(s) \in Seq(S)
         /\ \A j \in DOMAIN Tail(s) : j \in Nat \ {0} /\ j + 1 \in DOMAIN s /\ Tail(s)[j] = s[j + 1]
         /\ \A j \in DOMAIN s : j # 1 => j - 1 \in DOMAIN Tail(s) /\ Tail(s)[j - 1] = s[j]
         /\ Len(Tail(s)) = Len(s) - 1
<1>1. Tail(s) \in Seq(S) /\ Len(Tail(s)) = Len(s) - 1
      /\ \A j \in 1..Len(Tail(s)) : Tail(s)[j] = s[j + 1]
  BY HeadTailProperties
<1>2. DOMAIN s = 1..Len(s) /\ DOMAIN Tail(s) = 1..Len(Tail(s)) /\ Len(s) \in Nat /\ Len(s) # 0
  BY <1>1, LenProperties, EmptySeq
<1>3. \A j \in 1..Len(Tail(s)) : j \in Nat \ {0} /\ j + 1 \in 1..Len(s)
  BY <1>1, <1>2
<1>4. \A j \in 1..Len(s) : j # 1 => j - 1 \in 1..Len(Tail(s)) /\ Tail(s)[j - 1] = s[j]
  BY <1>1, <1>2
<1>5. 1 \in DOMAIN s /\ s[1] \in S /\ Head(s) = s[1]
  BY <1>2, ElementOfSeq
<1> QED
  BY <1>1, <1>2, <1>3, <1>4, <1>5

(* A concatenation holds the first sequence and then the second, and nothing else. *)
LEMMA ConcatParts ==
  ASSUME NEW S, NEW s \in Seq(S), NEW t \in Seq(S)
  PROVE  /\ s \o t \in Seq(S)
         /\ Len(s \o t) = Len(s) + Len(t)
         /\ \A j \in DOMAIN s : j \in DOMAIN (s \o t) /\ j \in 1..Len(s) /\ (s \o t)[j] = s[j]
         /\ \A j \in DOMAIN (s \o t) :
              \/ j \in DOMAIN s /\ (s \o t)[j] = s[j]
              \/ j > Len(s) /\ j - Len(s) \in DOMAIN t /\ (s \o t)[j] = t[j - Len(s)]
         /\ \A j \in DOMAIN t : Len(s) + j \in DOMAIN (s \o t) /\ (s \o t)[Len(s) + j] = t[j]
<1>1. /\ s \o t \in Seq(S)
      /\ Len(s \o t) = Len(s) + Len(t)
      /\ \A i \in 1 .. Len(s) + Len(t) : (s \o t)[i] = IF i <= Len(s) THEN s[i] ELSE t[i - Len(s)]
  BY ConcatProperties
<1>2. /\ DOMAIN (s \o t) = 1..(Len(s) + Len(t)) /\ DOMAIN s = 1..Len(s) /\ DOMAIN t = 1..Len(t)
      /\ Len(s) \in Nat /\ Len(t) \in Nat
  BY <1>1, LenProperties
<1> DEFINE m == Len(s)  n == Len(t)  u == s \o t
<1> HIDE DEF m, n, u
<1>3. /\ \A i \in 1..(m + n) : u[i] = IF i <= m THEN s[i] ELSE t[i - m]
      /\ DOMAIN u = 1..(m + n) /\ DOMAIN s = 1..m /\ DOMAIN t = 1..n /\ m \in Nat /\ n \in Nat
  BY <1>1, <1>2 DEF m, n, u
<1>4. /\ \A j \in DOMAIN s : j \in DOMAIN u /\ j \in 1..m /\ u[j] = s[j]
      /\ \A j \in DOMAIN u : \/ j \in DOMAIN s /\ u[j] = s[j]
                             \/ j > m /\ j - m \in DOMAIN t /\ u[j] = t[j - m]
      /\ \A j \in DOMAIN t : m + j \in DOMAIN u /\ u[m + j] = t[j]
  BY <1>3
<1> QED
  BY <1>1, <1>4 DEF m, n, u

(* Append adds one element at the end and moves none. *)
LEMMA AppendParts ==
  ASSUME NEW S, NEW s \in Seq(S), NEW x \in S
  PROVE  /\ Append(s, x) \in Seq(S) /\ Append(s, x) # <<>>
         /\ Len(Append(s, x)) = Len(s) + 1
         /\ \A j \in DOMAIN s : j \in DOMAIN Append(s, x) /\ Append(s, x)[j] = s[j] /\ j < Len(s) + 1
         /\ \A j \in DOMAIN Append(s, x) :
              \/ j \in DOMAIN s /\ Append(s, x)[j] = s[j]
              \/ j = Len(s) + 1 /\ Append(s, x)[j] = x
         /\ Len(s) + 1 \in DOMAIN Append(s, x) /\ Append(s, x)[Len(s) + 1] = x
<1>1. /\ DOMAIN s = 1..Len(s) /\ Len(s) \in Nat
      /\ Append(s, x) \in Seq(S) /\ DOMAIN Append(s, x) = 1..(Len(s) + 1)
      /\ \A i \in 1..Len(s) : Append(s, x)[i] = s[i]
      /\ Append(s, x)[Len(s) + 1] = x
      /\ Len(Append(s, x)) = Len(s) + 1
      /\ Append(s, x) # <<>>
  BY AppendProperties, LenProperties
<1> QED
  BY <1>1

(* A bounded set of numbers has a largest one: its elements with fewest above. *)
LEMMA HasMax ==
  ASSUME NEW n \in Nat, NEW S \in SUBSET (1..n), S # {}
  PROVE  Max(S) \in S /\ \A y \in S : Max(S) >= y
<1> DEFINE Above(x) == {y \in S : y > x}
           T == {Above(x) : x \in S}
<1>1. IsFiniteSet(S)
  <2>1. IsFiniteSet(1..n)
    BY FS_Interval
  <2> QED
    BY <2>1, FS_Subset
<1>2. FiniteSubsetsOf(S) = SUBSET S
  BY <1>1, FS_FiniteSubsetsOfFinite
<1>3. IsWellFoundedOn(StrictSubsetOrdering(S), SUBSET S)
  BY <1>2, FS_StrictSubsetOrderingWellFounded
<1>4. T \subseteq SUBSET S /\ T # {}
  OBVIOUS
<1>5. PICK A \in T : \A B \in T : ~(<<B, A>> \in StrictSubsetOrdering(S))
  <2> HIDE DEF T
  <2> QED
    BY <1>3, <1>4, WFMin
<1>6. PICK x \in S : A = Above(x)
  OBVIOUS
<1>7. \A y \in S : x >= y
  <2> SUFFICES ASSUME NEW y \in S, y > x PROVE FALSE
    OBVIOUS
  <2>1. Above(y) \subseteq Above(x) /\ y \in Above(x) /\ y \notin Above(y)
    <3>1. x \in Nat /\ y \in Nat /\ S \subseteq Nat
      OBVIOUS
    <3>2. \A z \in S : z > y => z > x
      BY <3>1
    <3>3. ~(y > y)
      BY <3>1
    <3> QED
      BY <3>2, <3>3
  <2>2. Above(y) \in T /\ Above(y) \in SUBSET S /\ Above(x) \in SUBSET S
    OBVIOUS
  <2> HIDE DEF Above
  <2>3. <<Above(y), Above(x)>> \in StrictSubsetOrdering(S)
    BY <2>1, <2>2 DEF StrictSubsetOrdering
  <2> QED
    BY <1>5, <1>6, <2>2, <2>3
<1> QED
  BY <1>7 DEF Max

(* The library's Max is the greatest element of a set of numbers that has one. *)
LEMMA MaxIs ==
  ASSUME NEW S \in SUBSET Nat, NEW i \in S, \A y \in S : i >= y
  PROVE  Max(S) = i
<1>1. \A x \in S : (\A y \in S : x >= y) => x = i
  OBVIOUS
<1>2. Max(S) \in S /\ \A y \in S : Max(S) >= y
  BY DEF Max
<1> QED
  BY <1>1, <1>2

(* LastOf is the line no line of its kind follows, or the default. *)
LEMMA LastOfIs ==
  \A f, kind, default : f.lines \in Seq(Line) =>
         \/ /\ \A i \in DOMAIN f.lines : f.lines[i].kind # kind
            /\ LastOf(f, kind, default) = default
         \/ \E i \in DOMAIN f.lines :
              /\ f.lines[i].kind = kind
              /\ \A j \in DOMAIN f.lines : j > i => f.lines[j].kind # kind
              /\ LastOf(f, kind, default) = f.lines[i]
<1> TAKE f, kind, default
<1> HAVE f.lines \in Seq(Line)
<1> DEFINE at == {i \in DOMAIN f.lines : f.lines[i].kind = kind}
<1>1. DOMAIN f.lines = 1..Len(f.lines) /\ Len(f.lines) \in Nat
  BY LenProperties
<1>2. CASE at = {}
  BY <1>2 DEF LastOf
<1>3. CASE at # {}
  <2>1. at \in SUBSET (1..Len(f.lines))
    BY <1>1
  <2>2. Max(at) \in at /\ \A y \in at : Max(at) >= y
    <3> HIDE DEF at
    <3> QED
      BY <1>1, <1>3, <2>1, HasMax
  <2>3. LastOf(f, kind, default) = f.lines[Max(at)]
    BY <1>3 DEF LastOf
  <2>4. \A j \in DOMAIN f.lines : j > Max(at) => f.lines[j].kind # kind
    <3> SUFFICES ASSUME NEW j \in DOMAIN f.lines, j > Max(at), f.lines[j].kind = kind PROVE FALSE
      OBVIOUS
    <3>1. j \in at /\ j \in Nat
      BY <1>1
    <3>2. Max(at) >= j /\ Max(at) \in Nat
      BY <1>1, <2>2, <3>1
    <3> QED
      BY <3>1, <3>2
  <2> QED
    BY <2>2, <2>3, <2>4
<1> QED
  BY <1>2, <1>3

(* The fold takes the last line of a kind. *)
LEMMA LastOfAt ==
  \A f, kind, default : f.lines \in Seq(Line) =>
    \A i \in DOMAIN f.lines :
      f.lines[i].kind = kind /\ (\A j \in DOMAIN f.lines : j > i => f.lines[j].kind # kind)
        => LastOf(f, kind, default) = f.lines[i]
<1> SUFFICES ASSUME NEW f, NEW kind, NEW default, f.lines \in Seq(Line), NEW i \in DOMAIN f.lines,
                    f.lines[i].kind = kind,
                    \A j \in DOMAIN f.lines : j > i => f.lines[j].kind # kind
             PROVE  LastOf(f, kind, default) = f.lines[i]
  OBVIOUS
<1> DEFINE at == {k \in DOMAIN f.lines : f.lines[k].kind = kind}
<1>1. DOMAIN f.lines = 1..Len(f.lines) /\ Len(f.lines) \in Nat
  BY LenProperties
<1>2. at \in SUBSET Nat /\ i \in at /\ \A y \in at : i >= y
  BY <1>1
<1>3. Max(at) = i
  <2> HIDE DEF at
  <2> QED
    BY <1>2, MaxIs
<1> QED
  BY <1>2, <1>3 DEF LastOf

(* Without a line of the kind, the fold takes the default. *)
LEMMA LastOfNone ==
  ASSUME NEW f, NEW kind, NEW default, \A i \in DOMAIN f.lines : f.lines[i].kind # kind
  PROVE  LastOf(f, kind, default) = default
BY DEF LastOf

-----------------------------------------------------------------------------
(* What an append does to the file, and what the fold makes of it. *)

(* Text added at the end of a file is a line of its own, or spoils the open one. *)
LEMMA Joins ==
  ASSUME NEW f \in File, NEW e \in Line
  PROVE  /\ Joined(f, e) \in Seq(Line)
         /\ f.closed =>
              /\ Joined(f, e) = Append(f.lines, e)
              /\ Len(Joined(f, e)) = Len(f.lines) + 1
              /\ \A j \in DOMAIN f.lines : j \in DOMAIN Joined(f, e) /\ Joined(f, e)[j] = f.lines[j]
              /\ \A j \in DOMAIN Joined(f, e) :
                   \/ j \in DOMAIN f.lines /\ Joined(f, e)[j] = f.lines[j]
                   \/ j = Len(f.lines) + 1 /\ Joined(f, e)[j] = e
              /\ Len(f.lines) + 1 \in DOMAIN Joined(f, e) /\ Joined(f, e)[Len(f.lines) + 1] = e
         /\ ~f.closed =>
              /\ DOMAIN Joined(f, e) = DOMAIN f.lines
              /\ Len(Joined(f, e)) = Len(f.lines)
              /\ \A j \in DOMAIN f.lines :
                   Joined(f, e)[j] = IF j = Len(f.lines) THEN Garbage ELSE f.lines[j]
<1>1. f.lines \in Seq(Line) /\ Garbage \in Line /\ DOMAIN f.lines = 1..Len(f.lines)
  BY LenProperties, Entries DEF File
<1>2. CASE f.closed
  <2>1. Joined(f, e) = Append(f.lines, e)
    BY <1>2 DEF Joined
  <2> QED
    BY <1>1, <1>2, <2>1, AppendParts
<1>3. CASE ~f.closed
  <2>1. Joined(f, e) = [f.lines EXCEPT ![Len(f.lines)] = Garbage]
    BY <1>3 DEF Joined
  <2>2. CASE f.lines = <<>>
    <3>1. Joined(f, e) = f.lines
      BY <2>1, <2>2
    <3>2. DOMAIN f.lines = {}
      BY <2>2
    <3> QED
      BY <1>1, <1>3, <3>1, <3>2
  <2>3. CASE f.lines # <<>>
    <3>1. Len(f.lines) \in 1..Len(f.lines)
      BY <1>1, <2>3, EmptySeq
    <3>2. /\ Joined(f, e) \in Seq(Line) /\ Len(Joined(f, e)) = Len(f.lines)
          /\ \A j \in 1..Len(f.lines) :
               Joined(f, e)[j] = IF j = Len(f.lines) THEN Garbage ELSE f.lines[j]
      BY <1>1, <2>1, <3>1, ExceptSeq
    <3>3. DOMAIN Joined(f, e) = 1..Len(Joined(f, e))
      BY <3>2, LenProperties
    <3> QED
      BY <1>1, <1>3, <3>2, <3>3
  <2> QED
    BY <2>2, <2>3
<1> QED
  BY <1>2, <1>3

(* What an append does to a file that ends in a newline, and to one that does not. *)
LEMMA FileParts ==
  /\ NoFile \in File /\ NoFile.lines = <<>> /\ NoFile.closed
  /\ \A f \in File : f.lines \in Seq(Line) /\ f.closed \in BOOLEAN
                     /\ DOMAIN f.lines = 1..Len(f.lines) /\ Len(f.lines) \in Nat
  /\ \A f \in File, e \in Line :
       /\ Appended(f, e) \in File /\ Appended(f, e).lines = Joined(f, e) /\ Appended(f, e).closed
       /\ Torn(f) \in File /\ Torn(f).lines = Joined(f, Garbage) /\ ~Torn(f).closed
       /\ Unterminated(f, e) \in File /\ Unterminated(f, e).lines = Joined(f, e)
       /\ ~Unterminated(f, e).closed
<1>1. NoFile \in File /\ NoFile.lines = <<>> /\ NoFile.closed
  BY EmptySeq DEF NoFile, File
<1>2. \A f \in File : f.lines \in Seq(Line) /\ f.closed \in BOOLEAN
                     /\ DOMAIN f.lines = 1..Len(f.lines) /\ Len(f.lines) \in Nat
  BY LenProperties DEF File
<1>3. ASSUME NEW f \in File, NEW e \in Line
      PROVE  Joined(f, e) \in Seq(Line) /\ Joined(f, Garbage) \in Seq(Line)
  BY Joins, Entries
<1>4. ASSUME NEW f \in File, NEW e \in Line
      PROVE  /\ Appended(f, e) \in File /\ Appended(f, e).lines = Joined(f, e)
             /\ Appended(f, e).closed
             /\ Torn(f) \in File /\ Torn(f).lines = Joined(f, Garbage) /\ ~Torn(f).closed
             /\ Unterminated(f, e) \in File /\ Unterminated(f, e).lines = Joined(f, e)
             /\ ~Unterminated(f, e).closed
  BY <1>3, <1>4 DEF Appended, Torn, Unterminated, File
<1> QED
  BY <1>1, <1>2, <1>4

(* Only the header makes a file that is no session one. *)
LEMMA LoadsOnlyByHeader ==
  ASSUME NEW f \in File, NEW e \in Line, NEW g, g.lines = Joined(f, e), Loads(g)
  PROVE  /\ e # Header => Loads(f)
         /\ ~Loads(f) => f.lines = <<>> /\ f.closed /\ e = Header
<1>1. Header # Garbage
  BY Kinds
<1>2. f.lines \in Seq(Line) /\ DOMAIN f.lines = 1..Len(f.lines) /\ Len(f.lines) \in Nat
      /\ (f.lines = <<>> <=> Len(f.lines) = 0)
  BY FileParts, EmptySeq
<1>3. Joined(f, e) # <<>> /\ Joined(f, e)[1] = Header /\ Joined(f, e) \in Seq(Line)
      /\ 1 \in DOMAIN Joined(f, e)
  <2>1. Joined(f, e) # <<>> /\ Joined(f, e)[1] = Header /\ Joined(f, e) \in Seq(Line)
    BY Joins DEF Loads
  <2> QED
    BY <2>1, TailShifts
<1>4. CASE ~f.closed
  <2>1. 1 \in DOMAIN f.lines /\ f.lines # <<>> /\ f.lines[1] = Header
    BY <1>1, <1>2, <1>3, <1>4, Joins
  <2> QED
    BY <2>1 DEF Loads
<1>5. CASE f.closed
  <2>1. CASE f.lines = <<>>
    <3>1. Len(f.lines) + 1 = 1
      BY <1>2, <2>1
    <3>2. Joined(f, e)[1] = e
      BY <1>5, <3>1, Joins
    <3> QED
      BY <1>3, <1>5, <2>1, <3>2
  <2>2. CASE f.lines # <<>>
    <3>1. 1 \in DOMAIN f.lines
      BY <1>2, <2>2, TailShifts
    <3>2. f.lines[1] = Header
      BY <1>3, <1>5, <3>1, Joins
    <3> QED
      BY <2>2, <3>2 DEF Loads
  <2> QED
    BY <2>1, <2>2
<1> QED
  BY <1>4, <1>5

(* The last line of a kind after an append that was not glued to anything. *)
LEMMA LastAppended ==
  ASSUME NEW f \in File, f.closed, NEW e \in Line, NEW kind, NEW default
  PROVE  LastOf(Appended(f, e), kind, default) =
           IF e.kind = kind THEN e ELSE LastOf(f, kind, default)
<1> DEFINE g == Appended(f, e)
<1>1. /\ g.lines \in Seq(Line) /\ f.lines \in Seq(Line)
      /\ Len(f.lines) \in Nat /\ DOMAIN f.lines = 1..Len(f.lines)
      /\ \A j \in DOMAIN f.lines : j \in DOMAIN g.lines /\ g.lines[j] = f.lines[j]
      /\ \A j \in DOMAIN g.lines : \/ j \in DOMAIN f.lines /\ g.lines[j] = f.lines[j]
                                   \/ j = Len(f.lines) + 1 /\ g.lines[j] = e
      /\ Len(f.lines) + 1 \in DOMAIN g.lines /\ g.lines[Len(f.lines) + 1] = e
  <2>1. g.lines = Joined(f, e)
    BY FileParts
  <2>2. /\ f.lines \in Seq(Line) /\ Len(f.lines) \in Nat /\ DOMAIN f.lines = 1..Len(f.lines)
    BY FileParts
  <2> HIDE DEF g
  <2> QED
    BY <2>1, <2>2, Joins
<1> HIDE DEF g
<1>2. CASE e.kind = kind
  <2>1. \A j \in DOMAIN g.lines : j > Len(f.lines) + 1 => g.lines[j].kind # kind
    BY <1>1
  <2>2. g.lines \in Seq(Line) /\ Len(f.lines) + 1 \in DOMAIN g.lines
        /\ g.lines[Len(f.lines) + 1].kind = kind
    BY <1>1, <1>2
  <2>3. LastOf(g, kind, default) = g.lines[Len(f.lines) + 1]
    BY <2>1, <2>2, LastOfAt
  <2> QED
    BY <1>1, <1>2, <2>3 DEF g
<1>3. CASE e.kind # kind
  <2>1. CASE /\ \A i \in DOMAIN f.lines : f.lines[i].kind # kind
             /\ LastOf(f, kind, default) = default
    <3>1. \A i \in DOMAIN g.lines : g.lines[i].kind # kind
      BY <1>1, <1>3, <2>1
    <3> QED
      BY <1>3, <2>1, <3>1, LastOfNone DEF g
  <2>2. ASSUME NEW i \in DOMAIN f.lines, f.lines[i].kind = kind,
               \A j \in DOMAIN f.lines : j > i => f.lines[j].kind # kind,
               LastOf(f, kind, default) = f.lines[i]
        PROVE  LastOf(g, kind, default) = LastOf(f, kind, default)
    <3>1. i \in DOMAIN g.lines /\ g.lines[i] = f.lines[i]
      BY <1>1
    <3>2. \A j \in DOMAIN g.lines : j > i => g.lines[j].kind # kind
      BY <1>1, <1>3, <2>2
    <3>3. g.lines \in Seq(Line) /\ g.lines[i].kind = kind
      BY <1>1, <2>2, <3>1
    <3>4. LastOf(g, kind, default) = g.lines[i]
      BY <3>1, <3>2, <3>3, LastOfAt
    <3> QED
      BY <2>2, <3>1, <3>4
  <2> QED
    BY <1>1, <1>3, <2>1, <2>2, LastOfIs DEF g
<1> QED
  BY <1>2, <1>3

(* The fold of any file is a session. *)
Sessions == [listed : BOOLEAN, messages : SUBSET Message, title : Title \cup {Untitled},
             isPinned : BOOLEAN, frozen : Run \cup {0}]

(* The folds of a file, whatever garbage it holds, have the types the window expects. *)
LEMMA Folds ==
  ASSUME NEW f \in File
  PROVE  /\ FoldedMessages(f) \subseteq Message
         /\ FoldedTitle(f) \in Title \cup {Untitled}
         /\ FoldedPinned(f) \in BOOLEAN
         /\ FoldedFreeze(f) \in Run \cup {0}
<1>0. f.lines \in Seq(Line) /\ \A i \in DOMAIN f.lines : f.lines[i] \in Line
  <2>1. f.lines \in Seq(Line) /\ DOMAIN f.lines = 1..Len(f.lines)
    BY FileParts
  <2> QED
    BY <2>1, ElementOfSeq
<1>1. FoldedMessages(f) \subseteq Message
  BY <1>0, EntryKinds DEF FoldedMessages
<1>2. FoldedTitle(f) \in Title \cup {Untitled}
  <2>1. \/ LastOf(f, "title", [title |-> Untitled]) = [title |-> Untitled]
        \/ \E i \in DOMAIN f.lines : f.lines[i].kind = "title"
                                     /\ LastOf(f, "title", [title |-> Untitled]) = f.lines[i]
    <3> DEFINE default == [title |-> Untitled]
    <3> HIDE DEF default
    <3>1. \/ LastOf(f, "title", default) = default
          \/ \E i \in DOMAIN f.lines : f.lines[i].kind = "title"
                                       /\ LastOf(f, "title", default) = f.lines[i]
      <4>1. f.lines \in Seq(Line)
        BY <1>0
      <4> QED
        BY <4>1, LastOfIs
    <3> QED
      BY <3>1 DEF default
  <2>2. CASE LastOf(f, "title", [title |-> Untitled]) = [title |-> Untitled]
    <3>1. FoldedTitle(f) = Untitled
      BY <2>2 DEF FoldedTitle
    <3> QED
      BY <3>1
  <2>3. CASE \E t \in Title : LastOf(f, "title", [title |-> Untitled]) = Titled(t)
    <3>1. PICK t \in Title : LastOf(f, "title", [title |-> Untitled]) = Titled(t)
      BY <2>3
    <3>2. FoldedTitle(f) = t
      BY <3>1, Kinds DEF FoldedTitle
    <3> QED
      BY <3>2
  <2> QED
    BY <1>0, <2>1, <2>2, <2>3, EntryKinds
<1>3. FoldedPinned(f) \in BOOLEAN
  <2>1. \/ LastOf(f, "pinned", Pinned(FALSE)) = Pinned(FALSE)
        \/ \E i \in DOMAIN f.lines : f.lines[i].kind = "pinned"
                                     /\ LastOf(f, "pinned", Pinned(FALSE)) = f.lines[i]
    <3> DEFINE default == Pinned(FALSE)
    <3> HIDE DEF default
    <3>1. \/ LastOf(f, "pinned", default) = default
          \/ \E i \in DOMAIN f.lines : f.lines[i].kind = "pinned"
                                       /\ LastOf(f, "pinned", default) = f.lines[i]
      <4>1. f.lines \in Seq(Line)
        BY <1>0
      <4> QED
        BY <4>1, LastOfIs
    <3> QED
      BY <3>1 DEF default
  <2>2. PICK b \in BOOLEAN : LastOf(f, "pinned", Pinned(FALSE)) = Pinned(b)
    BY <1>0, <2>1, EntryKinds
  <2>3. FoldedPinned(f) = b
    <3>1. Pinned(b).pinned = b
      BY Kinds
    <3> QED
      BY <2>2, <3>1, Zenon DEF FoldedPinned
  <2> QED
    BY <2>3
<1>4. FoldedFreeze(f) \in Run \cup {0}
  <2>1. \/ LastOf(f, "paused", Tombstone) = Tombstone
        \/ \E i \in DOMAIN f.lines : f.lines[i].kind = "paused"
                                     /\ LastOf(f, "paused", Tombstone) = f.lines[i]
    BY <1>0, LastOfIs
  <2> QED
    BY <1>0, <2>1, EntryKinds, Kinds DEF FoldedFreeze
<1> QED
  BY <1>1, <1>2, <1>3, <1>4

(* A session read back from a file is a session, listed when the file loads. *)
LEMMA HydratedType ==
  ASSUME NEW f \in File
  PROVE  /\ Hydrated(f) \in Sessions
         /\ Hydrated(f).listed <=> Loads(f)
<1>1. CASE Loads(f)
  <2>1. Hydrated(f) = [listed |-> TRUE, messages |-> FoldedMessages(f), title |-> FoldedTitle(f),
                       isPinned |-> FoldedPinned(f), frozen |-> FoldedFreeze(f)]
    BY <1>1 DEF Hydrated
  <2>2. Hydrated(f) \in Sessions
    BY <2>1, Folds DEF Sessions
  <2>3. Hydrated(f).listed
    BY <2>1
  <2> QED
    BY Zenon, <1>1, <2>2, <2>3
<1>2. CASE ~Loads(f)
  <2>1. Hydrated(f) = [listed |-> FALSE, messages |-> {}, title |-> Untitled,
                       isPinned |-> FALSE, frozen |-> 0]
    BY <1>2 DEF Hydrated
  <2>2. Hydrated(f) \in Sessions
    BY <2>1 DEF Sessions
  <2>3. ~Hydrated(f).listed
    BY <2>1
  <2> QED
    BY Zenon, <1>2, <2>2, <2>3
<1> QED
  BY <1>1, <1>2

-----------------------------------------------------------------------------
(* The types. *)

Stage == {"none", "queued", "live", "over"}

FlagType == window \in {"up", "closing", "down"} /\ titling \in BOOLEAN /\ deleted \in BOOLEAN
SessionType == session \in Sessions
QueueType == queue \in Seq(Jobs)
FileType == file \in File
RunType ==
  /\ phase \in [Run -> Stage]
  /\ source \in [Run -> Run \cup {0}]
  /\ started \subseteq Run
LandedType == landed \subseteq Message
CountType ==
  /\ torn \in Nat /\ failed \in Nat
  /\ edits \in 0..MaxRequests /\ exits \in 0..MaxMishaps

IType ==
  FlagType /\ SessionType /\ QueueType /\ FileType /\ RunType /\ LandedType /\ CountType

(* The provider starts inside its types. *)
LEMMA TypeInit == Init => IType
<1> SUFFICES ASSUME Init PROVE IType
  OBVIOUS
<1> USE DEF Init
<1>1. FlagType
  BY Zenon DEF FlagType
<1>2. SessionType
  <2>1. session = Hydrated(NoFile)
    BY DEF Init
  <2> QED
    BY <2>1, FileParts, HydratedType DEF SessionType
<1>3. QueueType /\ FileType
  <2>1. queue = <<>> /\ file = NoFile
    BY DEF Init
  <2> QED
    BY <2>1, EmptySeq, FileParts DEF QueueType, FileType
<1>4. RunType
  BY DEF RunType, Stage
<1>5. LandedType /\ CountType
  BY SessionLogAssumption DEF LandedType, CountType
<1> QED
  BY <1>1, <1>2, <1>3, <1>4, <1>5 DEF IType

(* The job under way and its first append. *)
LEMMA AtHead ==
  ASSUME QueueType, queue # <<>>
  PROVE  /\ Current = queue[1] /\ 1 \in DOMAIN queue /\ Current \in Jobs
         /\ Tail(queue) \in Seq(Jobs)
         /\ First = Current.entries[1] /\ 1 \in DOMAIN Current.entries /\ Holds(Current, First)
         /\ First \in Entry \cup {Remove}
         /\ First = Remove <=> Current.op = "delete"
         /\ First # Remove => First \in Entry /\ First \in Line
         /\ Len(Current.entries) = 1 => First = Final(Current)
<1>1. Current = queue[1] /\ 1 \in DOMAIN queue /\ Current \in Jobs /\ Tail(queue) \in Seq(Jobs)
  BY TailShifts DEF QueueType, Current
<1>2. /\ Current.entries \in Seq(Entry \cup {Remove}) /\ Current.entries # <<>>
      /\ Current.op = "delete" => Current.entries[1] = Remove
      /\ Current.op # "delete" => Current.entries \in Seq(Entry)
  BY <1>1, JobEntries
<1> HIDE DEF Current
<1>3. First = Current.entries[1] /\ 1 \in DOMAIN Current.entries /\ First \in Entry \cup {Remove}
  BY <1>2, TailShifts DEF First
<1>4. Current.op # "delete" => First \in Entry
  BY <1>2, TailShifts DEF First
<1>5. First = Remove <=> Current.op = "delete"
  BY <1>2, <1>3, <1>4, EntryKinds
<1>6. First # Remove => First \in Entry /\ First \in Line
  BY <1>3, Entries
<1>7. Len(Current.entries) = 1 => First = Final(Current)
  BY <1>3 DEF Final
<1>8. Holds(Current, First)
  BY <1>3 DEF Holds
<1> QED
  BY <1>1, <1>3, <1>5, <1>6, <1>7, <1>8

(* The queue that a lost window leaves behind is a queue. *)
LEMMA ClearedParts ==
  ASSUME NEW q \in Seq(Jobs)
  PROVE  Cleared(q) \in Seq(Jobs)
<1>1. Append(q, Patch(Tombstone)) \in Seq(Jobs)
  BY NewJobs, AppendProperties
<1> QED
  BY <1>1 DEF Cleared

(* What Quit enqueues: the end of each live run, once. *)
LEMMA QuitQueue ==
  ASSUME Quit
  PROVE  \E ends \in Seq(Jobs) :
           /\ queue' = queue \o ends
           /\ \A i \in DOMAIN ends : \E r \in Live : ends[i] = Persist(r, Status)
           /\ \A r \in Live : \E i \in DOMAIN ends : ends[i] = Persist(r, Status)
           /\ \A i, j \in DOMAIN ends, r \in Live :
                ends[i] = Persist(r, Status) /\ ends[j] = Persist(r, Status) => i = j
<1> DEFINE n == Cardinality(Live)
<1>0. IsFiniteSet(Live) /\ n \in Nat
  <2>1. IsFiniteSet(Run)
    BY SessionLogAssumption, FS_Interval DEF Run
  <2>2. Live \in SUBSET Run
    BY DEF Live
  <2> QED
    BY <2>1, <2>2, FS_Subset, FS_CardinalityType
<1>1. PICK order \in [1..n -> Live] :
        /\ \A i, j \in DOMAIN order : i < j => order[i] < order[j]
        /\ queue' = queue \o [i \in DOMAIN order |-> Persist(order[i], Status)]
  BY DEF Quit
<1> HIDE DEF n
<1> DEFINE ends == [i \in DOMAIN order |-> Persist(order[i], Status)]
<1>2. Live \subseteq Run /\ Run \subseteq Nat
  BY DEF Live, Run
<1>3. ends = [i \in 1..n |-> Persist(order[i], Status)] /\ ends \in [1..n -> Jobs]
  BY <1>2, NewJobs
<1>4. ends \in Seq(Jobs)
  BY <1>0, <1>3, SeqDef
<1>5. \A i, j \in 1..n : order[i] = order[j] => i = j
  <2>1. \A i, j \in 1..n : i < j => order[i] # order[j]
    <3>1. \A i, j \in 1..n : i < j => order[i] < order[j]
      BY <1>1
    <3>2. \A i \in 1..n : order[i] \in Nat
      BY <1>1, <1>2
    <3> QED
      BY <3>1, <3>2
  <2>2. \A i, j \in 1..n : i = j \/ i < j \/ j < i
    BY <1>0
  <2> QED
    BY <2>1, <2>2
<1>6. \A r \in Live : \E i \in 1..n : order[i] = r
  <2>1. order \in Injection(1..n, Live)
    BY <1>5 DEF Injection, IsInjective
  <2>2. Cardinality(1..n) = n
    BY <1>0, FS_Interval
  <2>3. order \in Surjection(1..n, Live)
    BY <1>0, <2>1, <2>2, FS_Injection DEF n
  <2> QED
    BY <2>3 DEF Surjection
<1>7. \A r, s : Persist(r, Status) = Persist(s, Status) => r = s
  <2> SUFFICES ASSUME NEW r, NEW s, Persist(r, Status) = Persist(s, Status) PROVE r = s
    OBVIOUS
  <2>1. Persist(r, Status).entries = <<Say("assistant", r), Status>>
        /\ Persist(s, Status).entries = <<Say("assistant", s), Status>>
    BY DEF Persist, Job
  <2>2. Say("assistant", r) = Say("assistant", s)
    BY <2>1
  <2> QED
    BY <2>2, Kinds
<1>8. queue' = queue \o ends /\ DOMAIN ends = 1..n
      /\ \A i \in 1..n : ends[i] = Persist(order[i], Status)
  BY <1>1
<1> HIDE DEF ends
<1>9. \A i \in DOMAIN ends : \E r \in Live : ends[i] = Persist(r, Status)
  BY <1>1, <1>8
<1>10. \A r \in Live : \E i \in DOMAIN ends : ends[i] = Persist(r, Status)
  BY <1>6, <1>8
<1>11. \A i, j \in DOMAIN ends, r \in Live :
         ends[i] = Persist(r, Status) /\ ends[j] = Persist(r, Status) => i = j
  BY <1>5, <1>7, <1>8
<1> QED
  BY <1>4, <1>8, <1>9, <1>10, <1>11

(* What a step does to the queue and the file: jobs are added at the end, or the first  *)
(* append of the first job lands, or the job leaves, or (WriteFails, Exit) it is cut.   *)
Grows ==
  /\ \E new \in Seq(Jobs) : queue' = queue \o new
  /\ UNCHANGED <<file, started, landed, deleted, torn, failed, exits>>

Settled == StartSettles \/ SendSettles \/ ResumeSettles \/ DeleteSettles \/ PatchSettles
Settles ==
  /\ Settled
  /\ \E op \in {"start", "send", "resume", "delete", "patch"} : LastLands(op)
  /\ queue' = Tail(queue) \/ queue' = Append(Tail(queue), Patch(Tombstone))

(* A job added behind the queue, alone or behind a tombstone, is an extension of the queue. *)
LEMMA Enqueues ==
  ASSUME QueueType, NEW q \in Seq(Jobs), NEW j \in Jobs,
         q = queue \/ q = Append(queue, Patch(Tombstone)), queue' = Append(q, j)
  PROVE  \E new \in Seq(Jobs) : queue' = queue \o new
<1>1. Patch(Tombstone) \in Jobs
  BY NewJobs
<1>2. CASE q = queue
  <2>1. queue' = queue \o <<j>> /\ <<j>> \in Seq(Jobs)
    BY <1>2, AppendIsConcat
  <2> QED
    BY <2>1
<1>3. CASE q = Append(queue, Patch(Tombstone))
  <2>1. q = queue \o <<Patch(Tombstone)>> /\ queue' = q \o <<j>>
    BY <1>1, <1>3, AppendIsConcat DEF QueueType
  <2>2. /\ <<Patch(Tombstone)>> \in Seq(Jobs) /\ <<j>> \in Seq(Jobs)
        /\ <<Patch(Tombstone)>> \o <<j>> \in Seq(Jobs)
    BY <1>1, ConcatProperties
  <2>3. queue' = queue \o (<<Patch(Tombstone)>> \o <<j>>)
    BY <2>1, <2>2, ConcatAssociative DEF QueueType
  <2> QED
    BY <2>2, <2>3
<1> QED
  BY <1>2, <1>3

(* Every step extends the queue, lands one entry, drops the head, or ends the window. *)
LEMMA Shapes ==
  ASSUME IType, [Next]_vars
  PROVE  Grows \/ AppendLands \/ Settles \/ WriteFails \/ Exit
<1> USE DEF runVars, countVars
<1>0. QueueType /\ RunType /\ Cleared(queue) \in Seq(Jobs)
      /\ (Cleared(queue) = queue \/ Cleared(queue) = Append(queue, Patch(Tombstone)))
  BY ClearedParts DEF IType, QueueType, Cleared
<1>a. queue \in Seq(Jobs)
  BY <1>0 DEF QueueType
<1>b. ASSUME queue' = queue, UNCHANGED <<file, started, landed, deleted, torn, failed, exits>>
      PROVE  Grows
  <2>1. queue' = queue \o <<>> /\ <<>> \in Seq(Jobs)
    BY <1>a, <1>b, ConcatEmptySeq, EmptySeq
  <2> QED
    BY <1>b, <2>1 DEF Grows
<1>1. CASE StartSession
  <2>1. 1 \in Run
    BY SessionLogAssumption DEF Run
  <2> QED
    BY <1>0, <1>a, <1>1, <2>1, NewJobs, Enqueues DEF StartSession, Enters, Grows
<1>2. ASSUME NEW r \in Run, SendMessage(r) PROVE Grows
  BY <1>0, <1>a, <1>2, NewJobs, Enqueues DEF SendMessage, Enters, Grows
<1>3. ASSUME NEW r \in Run, ResumeSession(r) PROVE Grows
  BY <1>0, <1>a, <1>3, NewJobs, Enqueues DEF ResumeSession, Enters, Grows
<1>4. ASSUME NEW t \in {"query", "renamed"}, RenameSession(t) PROVE Grows
  <2>1. Patch(Titled(t)) \in Jobs
    BY NewJobs DEF Title
  <2> QED
    BY <1>0, <1>a, <1>4, <2>1, Enqueues DEF RenameSession, Edit, Grows
<1>5. CASE TogglePin
  <2>1. Patch(Pinned(~session.isPinned)) \in Jobs
    <3>1. (~session.isPinned) \in BOOLEAN
      BY Zenon
    <3> QED
      BY <3>1, NewJobs
  <2> QED
    BY <1>0, <1>a, <1>5, <2>1, Enqueues DEF TogglePin, Edit, Grows
<1>6. CASE DeleteSession
  BY <1>0, <1>a, <1>6, NewJobs, Enqueues DEF DeleteSession, Grows
<1>7. CASE TitleArrives
  <2>1. Patch(Titled("generated")) \in Jobs
    BY NewJobs DEF Title
  <2>2. UNCHANGED <<file, started, landed, deleted, torn, failed, exits>>
    BY <1>7 DEF TitleArrives
  <2>3. queue' = queue \/ queue' = Append(queue, Patch(Titled("generated")))
    BY <1>7 DEF TitleArrives
  <2> QED
    BY <1>0, <1>a, <1>b, <2>1, <2>2, <2>3, Enqueues DEF Grows
<1>8. ASSUME NEW r \in Run, NEW reason \in {"settled", "paused"}, Finalize(r, reason) PROVE Grows
  BY <1>0, <1>a, <1>8, NewJobs, Enqueues DEF Finalize, Grows
<1>9. ASSUME NEW op \in {"start", "send", "resume", "delete", "patch"}, LastLands(op),
             queue' = Tail(queue) \/ queue' = Cleared(Tail(queue)), Settled
      PROVE  Settles
  BY <1>9 DEF Settles, Cleared
<1>10. CASE StartSettles
  BY <1>9, <1>10 DEF StartSettles, Settled
<1>11. CASE SendSettles
  BY <1>9, <1>11 DEF SendSettles, Settled
<1>12. CASE ResumeSettles
  BY <1>9, <1>12 DEF ResumeSettles, Settled
<1>13. CASE DeleteSettles
  BY <1>9, <1>13 DEF DeleteSettles, Settled
<1>14. CASE PatchSettles
  BY <1>9, <1>14 DEF PatchSettles, Settled
<1>15. CASE Quit
  BY <1>15, QuitQueue DEF Quit, Grows
<1>16. CASE Restart
  BY <1>b, <1>16 DEF Restart
<1>17. CASE UNCHANGED vars
  BY <1>b, <1>17 DEF vars
<1> QED
  BY <1>1, <1>2, <1>3, <1>4, <1>5, <1>6, <1>7, <1>8, <1>10, <1>11, <1>12, <1>13, <1>14,
     <1>15, <1>16, <1>17 DEF Next, User, Agent, Writer

(* What a step does to the file and to the messages known to be in it. *)
Lands ==
  /\ queue # <<>> /\ window # "down" /\ First \in Entry /\ First \in Line
  /\ file' = Appended(file, First)
  /\ landed' = IF First.kind = "message" THEN landed \cup {First} ELSE landed
  /\ UNCHANGED <<torn, failed>>

Removes ==
  /\ queue # <<>> /\ window # "down" /\ First = Remove
  /\ file' = NoFile
  /\ UNCHANGED <<landed, torn>>

CutsOff ==
  /\ queue # <<>> /\ window # "down" /\ First \in Entry /\ First \in Line
  /\ file' = Torn(file) \/ file' = Unterminated(file, First)
  /\ torn' = IF file' = file THEN torn ELSE torn + 1
  /\ UNCHANGED landed

Unheard ==
  /\ queue # <<>> /\ window # "down" /\ First \in Entry /\ First \in Line
  /\ file' = Appended(file, First)
  /\ UNCHANGED <<landed, torn, failed>>
  /\ window' = "down"

Keeps == UNCHANGED <<file, landed, torn>>

(* A write cut short keeps the file, removes it, or leaves it without its last newline. *)
LEMMA CutEffect ==
  ASSUME QueueType, FileType, queue # <<>>, window # "down", NEW f \in CutShort, Cut(f),
         UNCHANGED landed
  PROVE  Keeps \/ Removes \/ CutsOff
<1>1. CASE First = Remove
  <2>1. f = file \/ f = NoFile
    BY <1>1 DEF CutShort
  <2>2. file' = f /\ torn' = torn
    BY <2>1, FileParts DEF Cut
  <2> QED
    BY <1>1, <2>1, <2>2 DEF Keeps, Removes
<1>2. CASE First # Remove
  <2>1. First \in Entry /\ First \in Line
    BY <1>2, AtHead
  <2>2. f \in {file, Torn(file), Unterminated(file, First)} /\ file' = f
    BY <1>2 DEF CutShort, Cut
  <2>3. CASE f = file
    BY <2>2, <2>3 DEF Keeps, Cut
  <2>4. CASE f # file
    <3>1. ~f.closed
      BY <2>1, <2>2, <2>4, FileParts DEF FileType
    <3>2. torn' = torn + 1
      BY <2>4, <3>1 DEF Cut
    <3> QED
      BY <2>1, <2>2, <2>4, <3>2 DEF CutsOff
  <2> QED
    BY <2>3, <2>4
<1> QED
  BY <1>1, <1>2

(* The five things a step can do to the file and to what has landed. *)
LEMMA Writes ==
  ASSUME IType, [Next]_vars
  PROVE  Keeps \/ Lands \/ Removes \/ CutsOff \/ Unheard
<1> USE DEF countVars
<1>0. QueueType /\ FileType
  BY DEF IType
<1>1. CASE Grows
  BY <1>1 DEF Grows, Keeps
<1>2. CASE AppendLands
  <2>1. queue # <<>> /\ Len(Current.entries) > 1
    BY <1>2 DEF AppendLands, Writing
  <2>2. First # Remove
    <3>1. Current \in Jobs
      BY <1>0, <2>1, AtHead
    <3>2. Current.op # "delete"
      BY <2>1, <3>1, JobAdvance
    <3> QED
      BY <1>0, <2>1, <3>2, AtHead
  <2>3. First \in Entry /\ First \in Line
    BY <1>0, <2>1, <2>2, AtHead
  <2> QED
    BY <1>2, <2>3 DEF AppendLands, Writing, Lands
<1>3. CASE Settles
  <2>1. queue # <<>> /\ window # "down"
    BY <1>3 DEF Settles, LastLands, Writing
  <2>2. /\ file' = IF First = Remove THEN NoFile ELSE Appended(file, First)
        /\ landed' = IF First.kind = "message" THEN landed \cup {First} ELSE landed
        /\ torn' = torn /\ failed' = failed
    BY <1>3 DEF Settles, LastLands
  <2>3. CASE First = Remove
    BY <2>1, <2>2, <2>3, Kinds DEF Removes
  <2>4. CASE First # Remove
    <3>1. First \in Entry /\ First \in Line
      BY <1>0, <2>1, <2>4, AtHead
    <3> QED
      BY <2>1, <2>2, <2>4, <3>1 DEF Lands
  <2> QED
    BY <2>3, <2>4
<1>4. CASE WriteFails
  <2>1. queue # <<>> /\ window # "down" /\ landed' = landed /\ \E f \in CutShort : Cut(f)
    BY <1>4 DEF WriteFails, Writing
  <2> QED
    BY <1>0, <2>1, CutEffect
<1>5. CASE Exit
  <2>1. window # "down" /\ landed' = landed /\ failed' = failed /\ window' = "down"
    BY <1>5 DEF Exit
  <2>2. CASE queue = <<>> /\ UNCHANGED <<file, torn>>
    BY <2>1, <2>2 DEF Keeps
  <2>3. CASE queue # <<>> /\ \E f \in CutShort : Cut(f)
    BY <1>0, <2>1, <2>3, CutEffect
  <2>4. CASE queue # <<>> /\ First # Remove /\ Cut(Appended(file, First))
    <3>1. First \in Entry /\ First \in Line
      BY <1>0, <2>4, AtHead
    <3>2. file' = Appended(file, First) /\ torn' = torn
      <4>1. Appended(file, First).closed
        BY <1>0, <3>1, FileParts DEF FileType
      <4> QED
        BY <2>4, <4>1 DEF Cut
    <3> QED
      BY <2>1, <2>4, <3>1, <3>2 DEF Unheard
  <2> QED
    BY <1>5, <2>2, <2>3, <2>4 DEF Exit
<1> QED
  BY <1>1, <1>2, <1>3, <1>4, <1>5, Shapes

(* Each step keeps the types, part by part. *)
LEMMA FlagStep == FlagType /\ [Next]_vars => FlagType'
<1> SUFFICES ASSUME FlagType, [Next]_vars PROVE FlagType'
  OBVIOUS
<1> USE DEF FlagType, runVars, countVars
<1>1. CASE StartSession
  BY Zenon, <1>1 DEF StartSession, Enters
<1>2. ASSUME NEW r \in Run, SendMessage(r) PROVE FlagType'
  BY Zenon, <1>2 DEF SendMessage, Enters
<1>3. ASSUME NEW r \in Run, ResumeSession(r) PROVE FlagType'
  BY Zenon, <1>3 DEF ResumeSession, Enters
<1>4. ASSUME NEW t \in {"query", "renamed"}, RenameSession(t) PROVE FlagType'
  BY Zenon, <1>4 DEF RenameSession, Edit
<1>5. CASE TogglePin
  BY Zenon, <1>5 DEF TogglePin, Edit
<1>6. CASE DeleteSession
  BY Zenon, <1>6 DEF DeleteSession
<1>7. CASE TitleArrives
  BY Zenon, <1>7 DEF TitleArrives
<1>8. ASSUME NEW r \in Run, NEW reason \in {"settled", "paused"}, Finalize(r, reason)
      PROVE  FlagType'
  BY Zenon, <1>8 DEF Finalize
<1>9. CASE AppendLands
  BY Zenon, <1>9 DEF AppendLands
<1>10. CASE StartSettles
  BY Zenon, <1>10 DEF StartSettles, LastLands
<1>11. CASE SendSettles
  BY Zenon, <1>11 DEF SendSettles, LastLands
<1>12. CASE ResumeSettles
  BY Zenon, <1>12 DEF ResumeSettles, LastLands
<1>13. CASE DeleteSettles
  BY Zenon, <1>13 DEF DeleteSettles, LastLands
<1>14. CASE PatchSettles
  BY Zenon, <1>14 DEF PatchSettles, LastLands
<1>15. CASE WriteFails
  BY Zenon, <1>15 DEF WriteFails
<1>16. CASE Quit
  BY Zenon, <1>16 DEF Quit
<1>17. CASE Exit
  BY Zenon, <1>17 DEF Exit
<1>18. CASE Restart
  BY Zenon, <1>18 DEF Restart
<1>19. CASE UNCHANGED vars
  BY Zenon, <1>19 DEF vars
<1> QED
  BY <1>1, <1>2, <1>3, <1>4, <1>5, <1>6, <1>7, <1>8, <1>9, <1>10, <1>11, <1>12, <1>13, <1>14,
     <1>15, <1>16, <1>17, <1>18, <1>19 DEF Next, User, Agent, Writer

(* Every step keeps the jobs of the queue typed. *)
LEMMA QueueStep ==
  ASSUME IType, [Next]_vars
  PROVE  QueueType'
<1>0. QueueType
  BY DEF IType
<1>1. CASE Grows
  <2>1. PICK new \in Seq(Jobs) : queue' = queue \o new
    BY <1>1 DEF Grows
  <2> QED
    BY <1>0, <2>1, ConcatProperties DEF QueueType
<1>2. CASE AppendLands
  <2>1. queue # <<>> /\ Len(Current.entries) > 1 /\ queue' = <<Rest(Current)>> \o Tail(queue)
    BY <1>2 DEF AppendLands, Writing
  <2>2. Rest(Current) \in Jobs /\ Tail(queue) \in Seq(Jobs)
    BY <1>0, <2>1, AtHead, JobAdvance
  <2>3. <<Rest(Current)>> \in Seq(Jobs)
    BY <2>2
  <2> QED
    BY <2>1, <2>2, <2>3, ConcatProperties DEF QueueType
<1>3. CASE Settles
  <2>1. queue # <<>>
    BY <1>3 DEF Settles, LastLands, Writing
  <2>2. Tail(queue) \in Seq(Jobs) /\ Append(Tail(queue), Patch(Tombstone)) \in Seq(Jobs)
    BY <1>0, <2>1, AtHead, NewJobs, AppendProperties
  <2> QED
    BY <1>3, <2>2 DEF Settles, QueueType
<1>4. CASE WriteFails
  <2>1. queue # <<>> /\ queue' = Tail(queue)
    BY <1>4 DEF WriteFails, Writing
  <2> QED
    BY <1>0, <2>1, AtHead DEF QueueType
<1>5. CASE Exit
  BY <1>5, EmptySeq DEF Exit, QueueType
<1> QED
  BY <1>1, <1>2, <1>3, <1>4, <1>5, Shapes

(* Every step keeps the file and the landed entries typed. *)
LEMMA FileStep ==
  ASSUME IType, [Next]_vars
  PROVE  FileType' /\ LandedType'
<1>0. FileType /\ LandedType /\ Garbage \in Line
  BY Entries DEF IType
<1>1. CASE Keeps
  BY <1>0, <1>1 DEF Keeps, FileType, LandedType
<1>2. CASE Lands
  <2>1. First.kind = "message" => First \in Message
    BY <1>2, EntryKinds DEF Lands
  <2>2. file' \in File /\ landed' \subseteq Message
    BY <1>0, <1>2, <2>1, FileParts DEF Lands, FileType, LandedType
  <2> QED
    BY <2>2 DEF FileType, LandedType
<1>3. CASE Removes
  BY <1>0, <1>3, FileParts DEF Removes, FileType, LandedType
<1>4. CASE CutsOff
  BY <1>0, <1>4, FileParts DEF CutsOff, FileType, LandedType
<1>5. CASE Unheard
  BY <1>0, <1>5, FileParts DEF Unheard, FileType, LandedType
<1> QED
  BY <1>1, <1>2, <1>3, <1>4, <1>5, Writes

(* The job at the head names a run exactly when its operation works for one. *)
LEMMA HeadRun ==
  ASSUME QueueType, queue # <<>>
  PROVE  /\ Current.run \in Run \cup {0}
         /\ Current.op \in {"start", "send", "resume"} => Current.run \in Run
         /\ Current.op \in {"patch", "delete"} => Current.run = 0
         /\ Current.op = "start" => Current.run = 1
<1>1. Current \in Jobs
  BY AtHead
<1>2. 0 \notin Run
  BY DEF Run
<1> QED
  BY <1>1, <1>2, JobEntries

(* Every step keeps the phases and the sources of the runs typed. *)
LEMMA RunStep ==
  ASSUME IType, [Next]_vars
  PROVE  RunType'
<1>0. RunType /\ QueueType /\ session.frozen \in Run \cup {0}
  BY DEF IType, SessionType, Sessions
<1> USE DEF RunType, Stage, runVars, countVars
<1>a. ASSUME queue # <<>>, Current.op \in {"start", "send", "resume"}, RunStarts, UNCHANGED source
      PROVE  RunType'
  <2>1. Current.run \in Run
    BY <1>0, <1>a, HeadRun
  <2> QED
    BY <1>0, <1>a, <2>1 DEF RunStarts
<1>b. ASSUME UNCHANGED runVars PROVE RunType'
  BY <1>0, <1>b
<1>c. ASSUME NEW r \in Run, NEW from \in Run \cup {0}, NEW entries, NEW op, NEW q,
             Enters(r, from, entries, op, q)
      PROVE  RunType'
  BY <1>0, <1>c DEF Enters
<1>1. CASE StartSession
  <2>1. 1 \in Run
    BY SessionLogAssumption DEF Run
  <2> QED
    BY <1>c, <1>1, <2>1 DEF StartSession
<1>2. ASSUME NEW r \in Run, SendMessage(r) PROVE RunType'
  BY <1>c, <1>2 DEF SendMessage
<1>3. ASSUME NEW r \in Run, ResumeSession(r) PROVE RunType'
  BY <1>0, <1>c, <1>3 DEF ResumeSession
<1>4. ASSUME NEW t \in {"query", "renamed"}, RenameSession(t) PROVE RunType'
  BY <1>b, <1>4 DEF RenameSession, Edit
<1>5. CASE TogglePin
  BY <1>b, <1>5 DEF TogglePin, Edit
<1>6. CASE DeleteSession
  BY <1>b, <1>6 DEF DeleteSession
<1>7. CASE TitleArrives
  BY <1>b, <1>7 DEF TitleArrives
<1>8. ASSUME NEW r \in Run, NEW reason \in {"settled", "paused"}, Finalize(r, reason) PROVE RunType'
  BY <1>0, <1>8 DEF Finalize
<1>9. CASE AppendLands
  BY <1>b, <1>9 DEF AppendLands
<1>10. CASE StartSettles
  BY <1>a, <1>10 DEF StartSettles, LastLands, Writing
<1>11. CASE SendSettles
  BY <1>a, <1>11 DEF SendSettles, LastLands, Writing
<1>12. CASE ResumeSettles
  BY <1>a, <1>12 DEF ResumeSettles, LastLands, Writing
<1>13. CASE DeleteSettles
  BY <1>b, <1>13 DEF DeleteSettles, LastLands
<1>14. CASE PatchSettles
  BY <1>b, <1>14 DEF PatchSettles, LastLands
<1>15. CASE WriteFails
  <2>1. Current.run # 0 => Current.run \in Run
    BY <1>0, <1>15, HeadRun DEF WriteFails, Writing
  <2> QED
    BY <1>0, <1>15, <2>1 DEF WriteFails
<1>16. CASE Quit
  BY <1>0, <1>16 DEF Quit
<1>17. CASE Exit
  BY <1>0, <1>17 DEF Exit
<1>18. CASE Restart
  BY <1>b, <1>18 DEF Restart
<1>19. CASE UNCHANGED vars
  BY <1>b, <1>19 DEF vars
<1> QED
  BY <1>1, <1>2, <1>3, <1>4, <1>5, <1>6, <1>7, <1>8, <1>9, <1>10, <1>11, <1>12, <1>13, <1>14,
     <1>15, <1>16, <1>17, <1>18, <1>19 DEF Next, User, Agent, Writer

(* Every step keeps the session of the window typed. *)
LEMMA SessionStep ==
  ASSUME IType, [Next]_vars
  PROVE  SessionType'
<1>0. SessionType /\ QueueType /\ FileType /\ 0 \in Run \cup {0}
  BY DEF IType
<1> USE DEF SessionType, Sessions, runVars, countVars
<1>a. ASSUME UNCHANGED session PROVE SessionType'
  BY <1>0, <1>a
<1>1. CASE StartSession
  BY <1>a, <1>1 DEF StartSession
<1>2. ASSUME NEW r \in Run, SendMessage(r) PROVE SessionType'
  BY <1>a, <1>2 DEF SendMessage
<1>3. ASSUME NEW r \in Run, ResumeSession(r) PROVE SessionType'
  BY <1>0, <1>3 DEF ResumeSession
<1>4. ASSUME NEW t \in {"query", "renamed"}, RenameSession(t) PROVE SessionType'
  BY <1>0, <1>4 DEF RenameSession, Title
<1>5. CASE TogglePin
  BY <1>a, <1>5 DEF TogglePin
<1>6. CASE DeleteSession
  BY <1>0, <1>6 DEF DeleteSession
<1>7. CASE TitleArrives
  <2>1. \/ UNCHANGED session
        \/ session' = [session EXCEPT !.title = "generated"]
    BY <1>7 DEF TitleArrives
  <2> QED
    BY <1>0, <2>1 DEF Title
<1>8. ASSUME NEW r \in Run, NEW reason \in {"settled", "paused"}, Finalize(r, reason)
      PROVE  SessionType'
  <2>1. Say("assistant", r) \in Message
    BY Entries
  <2>2. session' = [session EXCEPT !.messages = @ \cup {Say("assistant", r)},
                                   !.frozen = IF reason = "paused" THEN r ELSE @]
    BY <1>8 DEF Finalize
  <2> QED
    BY <1>0, <2>1, <2>2
<1>9. CASE AppendLands
  BY <1>a, <1>9 DEF AppendLands
<1>10. CASE StartSettles
  <2>1. Say("user", Current.run) \in Message
    BY <1>0, <1>10, HeadRun, Entries DEF StartSettles, LastLands, Writing
  <2>2. session' = [listed |-> TRUE, messages |-> {Say("user", Current.run)},
                    title |-> "query", isPinned |-> FALSE, frozen |-> 0]
    BY <1>10 DEF StartSettles
  <2> QED
    BY <2>1, <2>2 DEF Title
<1>11. CASE SendSettles
  <2>1. Say("user", Current.run) \in Message
    BY <1>0, <1>11, HeadRun, Entries DEF SendSettles, LastLands, Writing
  <2>2. session' = [session EXCEPT !.messages = @ \cup {Say("user", Current.run)}, !.frozen = 0]
    BY <1>11 DEF SendSettles
  <2> QED
    BY <1>0, <2>1, <2>2
<1>12. CASE ResumeSettles
  BY <1>a, <1>12 DEF ResumeSettles
<1>13. CASE DeleteSettles
  BY <1>0, <1>13 DEF DeleteSettles
<1>14. CASE PatchSettles
  <2>1. CASE First.kind = "pinned"
    <3>1. queue # <<>> /\ First \in Line
      <4>1. queue # <<>> /\ First # Remove
        BY <1>14, <2>1, Kinds DEF PatchSettles, LastLands, Writing
      <4> QED
        BY <1>0, <4>1, AtHead
    <3>2. PICK b \in BOOLEAN : First = Pinned(b)
      BY <2>1, <3>1, EntryKinds
    <3>3. First.pinned = b
      BY <3>2, Kinds
    <3>4. session' = [session EXCEPT !.isPinned = First.pinned]
      BY <1>14, <2>1 DEF PatchSettles
    <3>5. session' = [session EXCEPT !.isPinned = b]
      BY <3>3, <3>4
    <3> QED
      BY <1>0, <3>5
  <2>2. CASE First.kind # "pinned"
    BY <1>a, <1>14, <2>2 DEF PatchSettles
  <2> QED
    BY <2>1, <2>2
<1>15. CASE WriteFails
  BY <1>a, <1>15 DEF WriteFails
<1>16. CASE Quit
  <2>1. {Say("assistant", r) : r \in Live} \subseteq Message
    BY Entries DEF Live
  <2>2. session' = [session EXCEPT !.messages = @ \cup {Say("assistant", r) : r \in Live}]
    BY <1>16 DEF Quit
  <2> HIDE DEF Live
  <2> QED
    BY <1>0, <2>1, <2>2
<1>17. CASE Exit
  <2>1. session' = Hydrated(NoFile)
    BY <1>17 DEF Exit
  <2> HIDE DEF Sessions
  <2> QED
    BY <2>1, FileParts, HydratedType
<1>18. CASE Restart
  <2>1. session' = Hydrated(file)
    BY <1>18 DEF Restart
  <2> HIDE DEF Sessions
  <2> QED
    BY <1>0, <2>1, HydratedType DEF FileType
<1>19. CASE UNCHANGED vars
  BY <1>a, <1>19 DEF vars
<1> QED
  BY <1>1, <1>2, <1>3, <1>4, <1>5, <1>6, <1>7, <1>8, <1>9, <1>10, <1>11, <1>12, <1>13, <1>14,
     <1>15, <1>16, <1>17, <1>18, <1>19 DEF Next, User, Agent, Writer

(* Every step keeps the counters within their bounds. *)
LEMMA CountStep ==
  ASSUME IType, [Next]_vars
  PROVE  CountType'
<1>0. CountType /\ Cardinality(Asked) \in Nat /\ MaxRequests \in Nat /\ MaxMishaps \in Nat
  <2>1. IsFiniteSet(Run) /\ Asked \in SUBSET Run
    BY SessionLogAssumption, FS_Interval DEF Run, Asked
  <2> QED
    BY <2>1, SessionLogAssumption, FS_Subset, FS_CardinalityType DEF IType
<1> HIDE DEF Asked
<1> USE DEF CountType, runVars, countVars
<1>a. torn' \in Nat
  BY <1>0, Writes DEF Keeps, Lands, Removes, CutsOff, Unheard
<1>b. failed' \in Nat /\ exits' \in 0..MaxMishaps
  <2>1. CASE Grows
    BY <1>0, <2>1 DEF Grows
  <2>2. CASE AppendLands
    BY <1>0, <2>2 DEF AppendLands
  <2>3. CASE Settles
    BY <1>0, <2>3 DEF Settles, LastLands
  <2>4. CASE WriteFails
    BY <1>0, <2>4 DEF WriteFails
  <2>5. CASE Exit
    BY <1>0, <2>5 DEF Exit
  <2> QED
    BY <2>1, <2>2, <2>3, <2>4, <2>5, Shapes
<1>c. edits' \in 0..MaxRequests
  <2>1. edits' = edits \/ (MayAsk /\ edits' = edits + 1)
    BY DEF Next, User, Agent, Writer, StartSession, SendMessage, ResumeSession, Enters,
       RenameSession,
       TogglePin, Edit, DeleteSession, TitleArrives, Finalize, AppendLands, StartSettles, SendSettles,
       ResumeSettles, DeleteSettles, PatchSettles, LastLands, WriteFails, Quit, Exit, Restart, vars
  <2> QED
    BY <1>0, <2>1 DEF MayAsk
<1> QED
  BY <1>a, <1>b, <1>c

(* A step keeps the program inside its types. *)
LEMMA TypeStep == IType /\ [Next]_vars => IType'
BY FlagStep, QueueStep, FileStep, RunStep, SessionStep, CountStep DEF IType

-----------------------------------------------------------------------------
(* Runs: how they enter, move on and leave, and which jobs a step adds. *)

NewRun(r) == r \in Run /\ MayAsk /\ r = Cardinality(Asked) + 1

(* What a step does to a run. *)
Asks(r) == NewRun(r) /\ (r = 1 \/ session.listed) /\ phase'[r] = "queued"
Begins(r) ==
  /\ queue # <<>> /\ window # "down" /\ r = Current.run
  /\ Current.op \in {"start", "send", "resume"} /\ Len(Current.entries) = 1
  /\ queue' = Tail(queue) \/ queue' = Append(Tail(queue), Patch(Tombstone))
  /\ phase'[r] = "live" /\ r \in started'
Finishes(r) == phase[r] = "live" /\ phase'[r] = "over"
Drops(r) == phase[r] = "queued" /\ phase'[r] = "over" /\ queue' = <<>>
Fails(r) == queue # <<>> /\ r = Current.run /\ phase'[r] = "over" /\ queue' = Tail(queue)

(* A run moves from none to queued, live and over, or past a stage when its write       *)
(* fails or the program ends.                                                           *)
LEMMA Moves ==
  ASSUME IType, [Next]_vars, NEW r \in Run
  PROVE  /\ \/ phase'[r] = phase[r] \/ Asks(r) \/ Begins(r) \/ Finishes(r) \/ Drops(r) \/ Fails(r)
         /\ source'[r] = source[r] \/ (Asks(r) /\ source'[r] \in {0, session.frozen})
         /\ r \in started' => r \in started \/ Begins(r)
         /\ r \in started => r \in started'
<1> DEFINE Goal ==
      /\ \/ phase'[r] = phase[r] \/ Asks(r) \/ Begins(r) \/ Finishes(r) \/ Drops(r) \/ Fails(r)
      /\ source'[r] = source[r] \/ (Asks(r) /\ source'[r] \in {0, session.frozen})
      /\ r \in started' => r \in started \/ Begins(r)
      /\ r \in started => r \in started'
<1> SUFFICES Goal
  OBVIOUS
<1>0. RunType /\ QueueType /\ session.frozen \in Run \cup {0}
  BY DEF IType, SessionType, Sessions
<1> USE DEF RunType, Stage, runVars, countVars
<1>a. ASSUME queue # <<>>, window # "down", Current.op \in {"start", "send", "resume"},
             Len(Current.entries) = 1, RunStarts, UNCHANGED source,
             queue' = Tail(queue) \/ queue' = Append(Tail(queue), Patch(Tombstone))
      PROVE  Goal
  <2>1. Current.run \in Run
    BY <1>0, <1>a, HeadRun
  <2>2. CASE r = Current.run
    BY <1>0, <1>a, <2>1, <2>2 DEF RunStarts, Begins
  <2>3. CASE r # Current.run
    BY <1>0, <1>a, <2>1, <2>3 DEF RunStarts
  <2> QED
    BY <2>2, <2>3
<1>b. ASSUME UNCHANGED runVars PROVE Goal
  BY <1>0, <1>b
<1>c. ASSUME NEW s \in Run, NEW from \in {0, session.frozen}, NEW entries, NEW op, NEW q,
             Enters(s, from, entries, op, q), s = 1 \/ session.listed
      PROVE  Goal
  <2>1. MayAsk /\ s = Cardinality(Asked) + 1 /\ phase' = [phase EXCEPT ![s] = "queued"]
        /\ source' = [source EXCEPT ![s] = from] /\ UNCHANGED started
    BY <1>c DEF Enters
  <2>2. CASE r = s
    <3>1. phase'[r] = "queued" /\ source'[r] = from
      BY <1>0, <2>1, <2>2
    <3>2. NewRun(r)
      BY <2>1, <2>2 DEF NewRun
    <3>3. Asks(r)
      BY <1>c, <2>2, <3>1, <3>2, Zenon DEF Asks
    <3> QED
      BY <1>0, <2>1, <3>1, <3>3
  <2>3. CASE r # s
    BY <1>0, <2>1, <2>3
  <2> QED
    BY <2>2, <2>3
<1>1. CASE StartSession
  <2>1. 1 \in Run
    BY SessionLogAssumption DEF Run
  <2> QED
    BY <1>c, <1>1, <2>1 DEF StartSession
<1>2. ASSUME NEW s \in Run, SendMessage(s) PROVE Goal
  BY <1>c, <1>2 DEF SendMessage, Shown
<1>3. ASSUME NEW s \in Run, ResumeSession(s) PROVE Goal
  BY <1>c, <1>3 DEF ResumeSession, Shown
<1>4. ASSUME NEW t \in {"query", "renamed"}, RenameSession(t) PROVE Goal
  BY <1>b, <1>4 DEF RenameSession, Edit
<1>5. CASE TogglePin
  BY <1>b, <1>5 DEF TogglePin, Edit
<1>6. CASE DeleteSession
  BY <1>b, <1>6 DEF DeleteSession
<1>7. CASE TitleArrives
  BY <1>b, <1>7 DEF TitleArrives
<1>8. ASSUME NEW s \in Run, NEW reason \in {"settled", "paused"}, Finalize(s, reason) PROVE Goal
  BY <1>0, <1>8 DEF Finalize, Finishes
<1>9. CASE AppendLands
  BY <1>b, <1>9 DEF AppendLands
<1>10. CASE StartSettles
  BY <1>a, <1>10 DEF StartSettles, LastLands, Writing
<1>11. CASE SendSettles
  BY <1>a, <1>11 DEF SendSettles, LastLands, Writing, Cleared
<1>12. CASE ResumeSettles
  BY <1>a, <1>12 DEF ResumeSettles, LastLands, Writing
<1>13. CASE DeleteSettles
  BY <1>b, <1>13 DEF DeleteSettles, LastLands
<1>14. CASE PatchSettles
  BY <1>b, <1>14 DEF PatchSettles, LastLands
<1>15. CASE WriteFails
  <2>1. (Current.run # 0 => Current.run \in Run) /\ 0 \notin Run /\ queue # <<>>
    BY <1>0, <1>15, HeadRun DEF WriteFails, Writing, Run
  <2>2. /\ phase' = IF Current.run # 0 THEN [phase EXCEPT ![Current.run] = "over"] ELSE phase
        /\ UNCHANGED <<source, started>> /\ queue' = Tail(queue)
    BY <1>15 DEF WriteFails
  <2> QED
    BY <1>0, <2>1, <2>2 DEF Fails
<1>16. CASE Quit
  <2>1. phase' = [s \in Run |-> IF s \in Live THEN "over" ELSE phase[s]]
        /\ UNCHANGED <<source, started>>
    BY <1>16 DEF Quit
  <2> QED
    BY <1>0, <2>1 DEF Live, Finishes
<1>17. CASE Exit
  <2>1. phase' = [s \in Run |-> IF phase[s] \in {"queued", "live"} THEN "over" ELSE phase[s]]
        /\ UNCHANGED <<source, started>> /\ queue' = <<>>
    BY <1>17 DEF Exit
  <2> QED
    BY <1>0, <2>1 DEF Finishes, Drops
<1>18. CASE Restart
  BY <1>b, <1>18 DEF Restart
<1>19. CASE UNCHANGED vars
  BY <1>b, <1>19 DEF vars
<1> QED
  BY <1>1, <1>2, <1>3, <1>4, <1>5, <1>6, <1>7, <1>8, <1>9, <1>10, <1>11, <1>12, <1>13, <1>14,
     <1>15, <1>16, <1>17, <1>18, <1>19 DEF Next, User, Agent, Writer

(* Runs are asked for in the order of their numbers. *)
RunsInOrder == \E n \in 0..MaxRequests : \A r \in Run : phase[r] # "none" <=> r <= n

(* The run that starts next is the first that has not begun. *)
LEMMA NewRunIsNext ==
  ASSUME RunsInOrder, RunType, NEW r, NewRun(r)
  PROVE  \A s \in Run : phase[s] # "none" <=> s < r
<1>1. PICK n \in 0..MaxRequests : \A s \in Run : phase[s] # "none" <=> s <= n
  BY DEF RunsInOrder
<1>2. Asked = 1..n
  BY <1>1, SessionLogAssumption DEF Asked, Run
<1>3. Cardinality(Asked) = n
  <2>1. n \in Nat
    BY <1>1, SessionLogAssumption
  <2> QED
    BY <1>2, <2>1, FS_Interval
<1>4. r = n + 1
  BY <1>3 DEF NewRun
<1> QED
  BY <1>1, <1>4, SessionLogAssumption DEF Run

(* A job of the next queue that stems from one of this queue: itself, or what is left   *)
(* of it.                                                                               *)
Stems(new, old) ==
  /\ new.op = old.op /\ new.run = old.run /\ Final(new) = Final(old)
  /\ \A e : Holds(new, e) => Holds(old, e)
  /\ \A e : Holds(old, e) => Holds(new, e) \/ (AppendLands /\ e = First)

(* A job that this step adds. *)
AsksFor(job, from) == Asks(job.run) /\ source'[job.run] = from
NewJob(job) ==
  \/ /\ AsksFor(job, 0) /\ phase[1] = "none"
     /\ job = Job("start", 1, <<Header, Say("user", 1), Titled("query")>>)
  \/ AsksFor(job, 0) /\ session.listed /\ job = Job("send", job.run, <<Say("user", job.run), Status>>)
  \/ /\ AsksFor(job, session.frozen) /\ session.listed /\ session.frozen # 0
     /\ job = Job("resume", job.run, <<Status>>)
  \/ \E r \in Run : Finishes(r) /\ (job = Persist(r, Status) \/ job = Persist(r, Paused(r)))
  \/ \E t \in Title : job = Patch(Titled(t))
  \/ \E b \in BOOLEAN : job = Patch(Pinned(b))
  \/ job = Patch(Tombstone)
  \/ session.listed /\ job = Job("delete", 0, <<Remove>>)

Requeued(d) ==
  \A k \in DOMAIN queue' :
    \/ k + d \in DOMAIN queue /\ Stems(queue'[k], queue[k + d])
    \/ k + d > Len(queue) /\ NewJob(queue'[k]) /\ (queue'[k].run # 0 => k = Len(queue'))

(* The new jobs of a step say different things. *)
NewOnce(d) ==
  \A k, l \in DOMAIN queue' :
    k + d > Len(queue) /\ l + d > Len(queue) =>
      \A m : m.kind = "message" /\ Holds(queue'[k], m) /\ Holds(queue'[l], m) => k = l

(* A job stems from itself. *)
LEMMA StemsItself == \A job : Stems(job, job)
BY DEF Stems

(* Patches and the persist of a terminal belong to no run: phases do not watch them. *)
LEMMA NoRun ==
  /\ \A e : Patch(e).run = 0
  /\ \A r, e : Persist(r, e).run = 0
BY DEF Patch, Persist, Job

(* A queue that does not change holds what it held. *)
LEMMA Kept ==
  ASSUME QueueType, UNCHANGED queue
  PROVE  Requeued(0) /\ NewOnce(0)
<1>1. \A k \in DOMAIN queue : k \in Nat /\ k <= Len(queue) /\ Len(queue) \in Nat
  BY DEF QueueType
<1>2. Requeued(0)
  BY <1>1, StemsItself DEF Requeued
<1>3. NewOnce(0)
  BY <1>1 DEF NewOnce
<1> QED
  BY <1>2, <1>3

(* One new job behind the queue moves nothing that was queued. *)
LEMMA AddedOne ==
  ASSUME QueueType, NEW job \in Jobs, queue' = Append(queue, job), NewJob(job)
  PROVE  Requeued(0) /\ NewOnce(0)
<1>1. queue \in Seq(Jobs) /\ Len(queue) \in Nat
  BY DEF QueueType
<1>2. SUFFICES ASSUME NEW k \in DOMAIN queue'
               PROVE  /\ \/ k + 0 \in DOMAIN queue /\ Stems(queue'[k], queue[k + 0])
                         \/ /\ k + 0 > Len(queue) /\ NewJob(queue'[k])
                            /\ queue'[k].run # 0 => k = Len(queue')
                      /\ k + 0 > Len(queue) => k = Len(queue')
  BY DEF Requeued, NewOnce
<1>3. Len(queue') = Len(queue) + 1 /\ k \in Nat
      /\ (\/ k \in DOMAIN queue /\ queue'[k] = queue[k]
          \/ k = Len(queue) + 1 /\ queue'[k] = job)
  <2>1. Append(queue, job) \in Seq(Jobs)
    BY <1>1, AppendParts
  <2> QED
    BY <1>1, <1>2, <2>1, AppendParts
<1>4. k + 0 = k
  BY <1>3
<1>5. CASE k \in DOMAIN queue /\ queue'[k] = queue[k]
  BY <1>1, <1>4, <1>5, StemsItself
<1>6. CASE k = Len(queue) + 1 /\ queue'[k] = job
  BY <1>1, <1>3, <1>4, <1>6
<1> QED
  BY <1>3, <1>5, <1>6

(* So do a tombstone and the job that follows it. *)
LEMMA AddedTwo ==
  ASSUME QueueType, NEW job \in Jobs, NEW lead \in Jobs, queue' = Append(Append(queue, lead), job),
         NewJob(lead), lead.run = 0, \A m : Holds(lead, m) => m.kind # "message", NewJob(job)
  PROVE  Requeued(0) /\ NewOnce(0)
<1>1. queue \in Seq(Jobs) /\ Len(queue) \in Nat
  BY DEF QueueType
<1>2. SUFFICES ASSUME NEW k \in DOMAIN queue'
               PROVE  /\ \/ k + 0 \in DOMAIN queue /\ Stems(queue'[k], queue[k + 0])
                         \/ /\ k + 0 > Len(queue) /\ NewJob(queue'[k])
                            /\ queue'[k].run # 0 => k = Len(queue')
                      /\ k + 0 > Len(queue) => queue'[k] = lead \/ k = Len(queue')
  BY DEF Requeued, NewOnce
<1> DEFINE q == Append(queue, lead)
<1>3. q \in Seq(Jobs) /\ Len(q) = Len(queue) + 1
      /\ \A j \in DOMAIN q : \/ j \in DOMAIN queue /\ q[j] = queue[j]
                             \/ j = Len(queue) + 1 /\ q[j] = lead
  BY <1>1, AppendParts
<1>a. queue' = Append(q, job)
  OBVIOUS
<1> HIDE DEF q
<1>4. Len(queue') = Len(q) + 1 /\ k \in Nat
      /\ (\/ k \in DOMAIN q /\ queue'[k] = q[k]
          \/ k = Len(q) + 1 /\ queue'[k] = job)
  <2>1. Append(q, job) \in Seq(Jobs)
    BY <1>3, AppendParts
  <2> QED
    BY <1>3, <1>a, <2>1, AppendParts
<1>5. k + 0 = k
  BY <1>4
<1>6. CASE k \in DOMAIN q /\ queue'[k] = q[k] /\ k \in DOMAIN queue /\ q[k] = queue[k]
  BY <1>1, <1>5, <1>6, StemsItself
<1>7. CASE queue'[k] = lead /\ k = Len(queue) + 1
  BY <1>1, <1>4, <1>5, <1>7
<1>8. CASE k = Len(q) + 1 /\ queue'[k] = job
  BY <1>1, <1>3, <1>4, <1>5, <1>8
<1> QED
  BY <1>3, <1>4, <1>6, <1>7, <1>8

(* After an append lands, the head is what is left of it and the rest has not moved. *)
LEMMA Advanced ==
  ASSUME IType, AppendLands
  PROVE  Requeued(0) /\ NewOnce(0) /\ queue'[1] = Rest(Current) /\ ~Holds(queue'[1], First)
<1>0. QueueType /\ queue # <<>> /\ Len(Current.entries) > 1
      /\ queue' = <<Rest(Current)>> \o Tail(queue)
  BY DEF AppendLands, Writing, IType
<1>1. Current \in Jobs /\ Tail(queue) \in Seq(Jobs) /\ Current = queue[1] /\ 1 \in DOMAIN queue
  BY <1>0, AtHead
<1>2. Rest(Current) \in Jobs /\ Stems(Rest(Current), queue[1]) /\ ~Holds(Rest(Current), First)
  BY <1>0, <1>1, JobAdvance DEF Stems, First
<1>a. queue'[1] = Rest(Current)
  <2>1. <<Rest(Current)>> \in Seq(Jobs) /\ 1 \in DOMAIN <<Rest(Current)>>
        /\ <<Rest(Current)>>[1] = Rest(Current)
    BY <1>2
  <2> QED
    BY <1>0, <1>1, <2>1, ConcatParts
<1>b. queue \in Seq(Jobs) /\ Len(queue) \in Nat
  BY <1>0 DEF QueueType
<1>3. SUFFICES ASSUME NEW k \in DOMAIN queue'
               PROVE  k + 0 \in DOMAIN queue /\ Stems(queue'[k], queue[k + 0])
  <2>1. SUFFICES ASSUME \A k \in DOMAIN queue' :
                          k + 0 \in DOMAIN queue /\ Stems(queue'[k], queue[k + 0])
                 PROVE  Requeued(0) /\ NewOnce(0)
    BY <1>2, <1>a
  <2>2. \A k \in DOMAIN queue' : ~(k + 0 > Len(queue))
    BY <1>b, <2>1
  <2> QED
    BY <2>1, <2>2 DEF Requeued, NewOnce
<1> DEFINE one == <<Rest(Current)>>
<1>4. one \in Seq(Jobs) /\ Len(one) = 1 /\ DOMAIN one = 1..1 /\ one[1] = Rest(Current)
  BY <1>2
<1>5. queue' = one \o Tail(queue)
  BY <1>0
<1> HIDE DEF one
<1>6. \/ k \in DOMAIN one /\ queue'[k] = one[k]
      \/ k > 1 /\ k - 1 \in DOMAIN Tail(queue) /\ queue'[k] = Tail(queue)[k - 1]
  <2>1. one \in Seq(Jobs) /\ Tail(queue) \in Seq(Jobs)
    BY <1>1, <1>4
  <2>2. \/ k \in DOMAIN one /\ queue'[k] = one[k]
        \/ /\ k > Len(one) /\ k - Len(one) \in DOMAIN Tail(queue)
           /\ queue'[k] = Tail(queue)[k - Len(one)]
    BY <1>3, <1>5, <2>1, ConcatParts
  <2> QED
    BY <1>4, <2>2
<1>7. CASE k \in DOMAIN one /\ queue'[k] = one[k]
  <2>1. k = 1
    BY <1>4, <1>7
  <2> QED
    BY <1>1, <1>2, <1>4, <1>7, <2>1
<1>8. CASE k > 1 /\ k - 1 \in DOMAIN Tail(queue) /\ queue'[k] = Tail(queue)[k - 1]
  <2>1. (k - 1) + 1 \in DOMAIN queue /\ Tail(queue)[k - 1] = queue[(k - 1) + 1] /\ k - 1 \in Nat
    BY <1>0, <1>8, TailShifts DEF QueueType
  <2>2. k \in Nat
    <3>1. queue' \in Seq(Jobs)
      BY <1>1, <1>4, <1>5, ConcatProperties
    <3> QED
      BY <1>3, <3>1
  <2>3. (k - 1) + 1 = k /\ k + 0 = k
    BY <2>2
  <2> QED
    BY <1>8, <2>1, <2>3, StemsItself
<1> QED
  BY <1>6, <1>7, <1>8

(* A tombstone holds no message. *)
LEMMA TombstoneSaysNothing == \A m : Holds(Patch(Tombstone), m) => m.kind # "message"
<1>1. \A m : Holds(Patch(Tombstone), m) => m = Tombstone
  BY DEF Holds, Patch, Job
<1> QED
  BY <1>1, Kinds

(* When the head leaves, every other job moves up by one place. *)
LEMMA Left ==
  ASSUME QueueType, queue # <<>>,
         queue' = Tail(queue) \/ queue' = Append(Tail(queue), Patch(Tombstone))
  PROVE  Requeued(1) /\ NewOnce(1)
<1>1. /\ queue \in Seq(Jobs) /\ Tail(queue) \in Seq(Jobs) /\ Len(queue) \in Nat
      /\ Len(Tail(queue)) = Len(queue) - 1
      /\ \A j \in DOMAIN Tail(queue) : j + 1 \in DOMAIN queue /\ Tail(queue)[j] = queue[j + 1]
  BY TailShifts DEF QueueType
<1>2. SUFFICES ASSUME NEW k \in DOMAIN queue'
               PROVE  /\ \/ k + 1 \in DOMAIN queue /\ Stems(queue'[k], queue[k + 1])
                         \/ /\ k + 1 > Len(queue) /\ NewJob(queue'[k])
                            /\ queue'[k].run # 0 => k = Len(queue')
                      /\ k + 1 > Len(queue) => queue'[k] = Patch(Tombstone)
  BY TombstoneSaysNothing DEF Requeued, NewOnce
<1>3. CASE k \in DOMAIN Tail(queue) /\ queue'[k] = Tail(queue)[k]
  BY <1>1, <1>3, StemsItself
<1>4. CASE k = Len(Tail(queue)) + 1 /\ queue'[k] = Patch(Tombstone)
  <2>1. NewJob(queue'[k]) /\ queue'[k].run = 0
    BY <1>4, NoRun DEF NewJob
  <2>2. k + 1 > Len(queue)
    BY <1>1, <1>4
  <2> QED
    BY <1>4, <2>1, <2>2
<1>5. CASE queue' = Tail(queue)
  BY <1>2, <1>3, <1>5
<1>6. CASE queue' = Append(Tail(queue), Patch(Tombstone))
  <2>1. Patch(Tombstone) \in Jobs
    BY NewJobs
  <2>2. \/ k \in DOMAIN Tail(queue) /\ queue'[k] = Tail(queue)[k]
        \/ k = Len(Tail(queue)) + 1 /\ queue'[k] = Patch(Tombstone)
    BY <1>1, <1>2, <1>6, <2>1, AppendParts
  <2> QED
    BY <1>3, <1>4, <2>2
<1> QED
  BY <1>5, <1>6

(* A persist says the reply of its run and no other message. *)
LEMMA PersistSays ==
  \A r, m : m.kind = "message" /\ Holds(Persist(r, Status), m) => m = Say("assistant", r)
<1>1. \A r, m : Holds(Persist(r, Status), m) => m = Say("assistant", r) \/ m = Status
  BY DEF Holds, Persist, Job
<1> QED
  BY <1>1, Kinds

(* The next queue: what is left of the jobs of this one, then the new ones. *)
LEMMA Requeues ==
  ASSUME IType, [Next]_vars
  PROVE  (Requeued(0) /\ NewOnce(0)) \/ Settles \/ WriteFails
<1>0. QueueType /\ RunType /\ 1 \in Run /\ session.frozen \in Run \cup {0}
  BY SessionLogAssumption DEF IType, Run, SessionType, Sessions
<1> USE DEF runVars, countVars
<1>a. ASSUME UNCHANGED queue PROVE Requeued(0) /\ NewOnce(0)
  BY <1>0, <1>a, Kept
<1>b. ASSUME NEW job \in Jobs, NewJob(job), queue' = Append(queue, job)
      PROVE  Requeued(0) /\ NewOnce(0)
  BY <1>0, <1>b, AddedOne
<1>c. ASSUME NEW op \in {"start", "send", "resume", "delete", "patch"}, LastLands(op),
             queue' = Tail(queue) \/ queue' = Cleared(Tail(queue)), Settled
      PROVE  Settles
  BY <1>c DEF Settles, Cleared
<1>1. CASE StartSession
  <2> DEFINE job == Job("start", 1, <<Header, Say("user", 1), Titled("query")>>)
  <2>1. job.run = 1 /\ job \in Jobs
    BY <1>0, NewJobs DEF Job
  <2>2. queue' = Append(queue, job) /\ MayAsk /\ 1 = Cardinality(Asked) + 1 /\ phase[1] = "none"
        /\ phase' = [phase EXCEPT ![1] = "queued"] /\ source' = [source EXCEPT ![1] = 0]
    BY <1>1 DEF StartSession, Enters
  <2>3. AsksFor(job, 0)
    BY <1>0, <2>1, <2>2 DEF AsksFor, Asks, NewRun, RunType
  <2>4. NewJob(job)
    BY <2>2, <2>3 DEF NewJob
  <2> QED
    BY <1>b, <2>1, <2>2, <2>4
<1>2. ASSUME NEW r \in Run, SendMessage(r) PROVE Requeued(0) /\ NewOnce(0)
  <2> DEFINE job == Job("send", r, <<Say("user", r), Status>>)
  <2>1. job.run = r /\ job \in Jobs /\ job = Job("send", job.run, <<Say("user", job.run), Status>>)
    BY NewJobs DEF Job
  <2>2. queue' = Append(queue, job) /\ MayAsk /\ r = Cardinality(Asked) + 1 /\ session.listed
        /\ phase' = [phase EXCEPT ![r] = "queued"] /\ source' = [source EXCEPT ![r] = 0]
    BY <1>2 DEF SendMessage, Enters, Shown
  <2>3. AsksFor(job, 0)
    BY <1>0, <2>1, <2>2 DEF AsksFor, Asks, NewRun, RunType
  <2> HIDE DEF job
  <2>4. NewJob(job)
    BY <2>1, <2>2, <2>3 DEF NewJob
  <2> QED
    BY <1>b, <2>1, <2>2, <2>4
<1>3. ASSUME NEW r \in Run, ResumeSession(r) PROVE Requeued(0) /\ NewOnce(0)
  <2> DEFINE job == Job("resume", r, <<Status>>)
  <2>1. job.run = r /\ job \in Jobs /\ job = Job("resume", job.run, <<Status>>)
    BY NewJobs DEF Job
  <2>2. queue' = Append(Cleared(queue), job) /\ MayAsk /\ r = Cardinality(Asked) + 1
        /\ session.listed /\ session.frozen # 0
        /\ phase' = [phase EXCEPT ![r] = "queued"]
        /\ source' = [source EXCEPT ![r] = session.frozen]
    BY <1>3 DEF ResumeSession, Enters, Shown
  <2>3. AsksFor(job, session.frozen)
    BY <1>0, <2>1, <2>2 DEF AsksFor, Asks, NewRun, RunType
  <2> HIDE DEF job
  <2>4. NewJob(job)
    BY <2>1, <2>2, <2>3 DEF NewJob
  <2>5. queue' = Append(Append(queue, Patch(Tombstone)), job)
    BY <2>2 DEF Cleared
  <2>6. Patch(Tombstone) \in Jobs /\ NewJob(Patch(Tombstone)) /\ Patch(Tombstone).run = 0
        /\ \A m : Holds(Patch(Tombstone), m) => m.kind # "message"
    BY NewJobs, NoRun, TombstoneSaysNothing DEF NewJob
  <2> QED
    BY <1>0, <2>1, <2>4, <2>5, <2>6, AddedTwo
<1>4. ASSUME NEW t \in {"query", "renamed"}, RenameSession(t) PROVE Requeued(0) /\ NewOnce(0)
  <2>1. Patch(Titled(t)) \in Jobs /\ NewJob(Patch(Titled(t)))
    BY NewJobs DEF Title, NewJob
  <2> QED
    BY <1>b, <1>4, <2>1 DEF RenameSession, Edit
<1>5. CASE TogglePin
  <2>0. (~session.isPinned) \in BOOLEAN
    BY Zenon
  <2>1. Patch(Pinned(~session.isPinned)) \in Jobs /\ NewJob(Patch(Pinned(~session.isPinned)))
    BY <2>0, NewJobs DEF NewJob
  <2> QED
    BY <1>b, <1>5, <2>1 DEF TogglePin, Edit
<1>6. CASE DeleteSession
  <2>1. Job("delete", 0, <<Remove>>) \in Jobs /\ session.listed
    BY <1>6, NewJobs DEF DeleteSession, Shown
  <2>2. NewJob(Job("delete", 0, <<Remove>>))
    BY <2>1 DEF NewJob
  <2> QED
    BY <1>b, <1>6, <2>1, <2>2 DEF DeleteSession
<1>7. CASE TitleArrives
  <2>1. Patch(Titled("generated")) \in Jobs /\ NewJob(Patch(Titled("generated")))
    BY NewJobs DEF Title, NewJob
  <2>2. queue' = queue \/ queue' = Append(queue, Patch(Titled("generated")))
    BY <1>7 DEF TitleArrives
  <2> QED
    BY <1>a, <1>b, <2>1, <2>2
<1>8. ASSUME NEW r \in Run, NEW reason \in {"settled", "paused"}, Finalize(r, reason)
      PROVE  Requeued(0) /\ NewOnce(0)
  <2>1. Persist(r, Status) \in Jobs /\ Persist(r, Paused(r)) \in Jobs
    BY NewJobs
  <2>2. Finishes(r)
    BY <1>0, <1>8 DEF Finalize, Finishes, RunType
  <2>3. NewJob(Persist(r, Status)) /\ NewJob(Persist(r, Paused(r)))
    BY <2>2 DEF NewJob
  <2>4. queue' = Append(queue, Persist(r, Status)) \/ queue' = Append(queue, Persist(r, Paused(r)))
    BY <1>8 DEF Finalize
  <2> QED
    BY <1>b, <2>1, <2>3, <2>4
<1>9. CASE AppendLands
  BY <1>9, Advanced
<1>10. CASE StartSettles
  BY <1>c, <1>10 DEF StartSettles, Settled
<1>11. CASE SendSettles
  BY <1>c, <1>11 DEF SendSettles, Settled
<1>12. CASE ResumeSettles
  BY <1>c, <1>12 DEF ResumeSettles, Settled
<1>13. CASE DeleteSettles
  BY <1>c, <1>13 DEF DeleteSettles, Settled
<1>14. CASE PatchSettles
  BY <1>c, <1>14 DEF PatchSettles, Settled
<1>15. CASE WriteFails
  BY <1>15
<1>16. CASE Quit
  <2>1. PICK ends \in Seq(Jobs) :
          /\ queue' = queue \o ends
          /\ \A i \in DOMAIN ends : \E r \in Live : ends[i] = Persist(r, Status)
          /\ \A i, j \in DOMAIN ends, r \in Live :
               ends[i] = Persist(r, Status) /\ ends[j] = Persist(r, Status) => i = j
    BY <1>16, QuitQueue
  <2>2. \A r \in Live : Finishes(r) /\ r \in Run
    BY <1>0, <1>16 DEF Quit, Live, Finishes, RunType
  <2>3. \A i \in DOMAIN ends : NewJob(ends[i]) /\ ends[i].run = 0
    BY <2>1, <2>2, NoRun DEF NewJob
  <2>4. queue \in Seq(Jobs) /\ Len(queue) \in Nat /\ queue' \in Seq(Jobs)
    BY <1>0, <2>1, ConcatProperties DEF QueueType
  <2>5. ASSUME NEW k \in DOMAIN queue'
        PROVE  \/ k + 0 \in DOMAIN queue /\ Stems(queue'[k], queue[k + 0])
               \/ k + 0 > Len(queue) /\ NewJob(queue'[k]) /\ (queue'[k].run # 0 => k = Len(queue'))
    <3>1. \/ k \in DOMAIN queue /\ queue'[k] = queue[k]
          \/ k > Len(queue) /\ k - Len(queue) \in DOMAIN ends /\ queue'[k] = ends[k - Len(queue)]
      BY <2>1, <2>4, <2>5, ConcatParts
    <3>2. k + 0 = k
      BY <2>4, <2>5
    <3> QED
      BY <2>3, <3>1, <3>2, StemsItself
  <2>6. ASSUME NEW i \in DOMAIN ends, NEW j \in DOMAIN ends, NEW m, m.kind = "message",
               Holds(ends[i], m), Holds(ends[j], m)
        PROVE  i = j
    <3>1. PICK r \in Live : ends[i] = Persist(r, Status)
      BY <2>1
    <3>2. PICK s \in Live : ends[j] = Persist(s, Status)
      BY <2>1
    <3>3. m = Say("assistant", r) /\ m = Say("assistant", s)
      BY <2>6, <3>1, <3>2, PersistSays
    <3>4. r = s
      BY <3>3, Kinds
    <3> QED
      BY <2>1, <3>1, <3>2, <3>4
  <2>7. ASSUME NEW k \in DOMAIN queue', k + 0 > Len(queue)
        PROVE  k \in Nat /\ k - Len(queue) \in DOMAIN ends /\ queue'[k] = ends[k - Len(queue)]
    <3>1. \/ k \in DOMAIN queue
          \/ k - Len(queue) \in DOMAIN ends /\ queue'[k] = ends[k - Len(queue)]
      BY <2>1, <2>4, <2>7, ConcatParts
    <3>2. k \in Nat /\ (k \in DOMAIN queue => k <= Len(queue))
      BY <2>4, <2>7
    <3> QED
      BY <2>4, <2>7, <3>1, <3>2
  <2>8. ASSUME NEW k \in DOMAIN queue', NEW l \in DOMAIN queue', k + 0 > Len(queue), l + 0 > Len(queue),
               NEW m, m.kind = "message", Holds(queue'[k], m), Holds(queue'[l], m)
        PROVE  k = l
    <3>1. k - Len(queue) = l - Len(queue) /\ k \in Nat /\ l \in Nat
      BY <2>6, <2>7, <2>8
    <3> QED
      BY <2>4, <3>1
  <2> QED
    BY <2>5, <2>8 DEF Requeued, NewOnce
<1>17. CASE Exit
  BY <1>17 DEF Exit, Requeued, NewOnce
<1>18. CASE Restart
  BY <1>a, <1>18 DEF Restart
<1>19. CASE UNCHANGED vars
  BY <1>a, <1>19 DEF vars
<1> QED
  BY <1>1, <1>2, <1>3, <1>4, <1>5, <1>6, <1>7, <1>8, <1>9, <1>10, <1>11, <1>12, <1>13, <1>14,
     <1>15, <1>16, <1>17, <1>18, <1>19 DEF Next, User, Agent, Writer

(* The same with the shift: jobs move up by one when the first leaves. *)
Leaves == queue # <<>> /\ (queue' = Tail(queue) \/ queue' = Append(Tail(queue), Patch(Tombstone)))

(* How far a step moves the queue: not at all, or by the one job that leaves. *)
LEMMA Shift ==
  ASSUME IType, [Next]_vars
  PROVE  \E d \in {0, 1} :
           /\ Requeued(d) /\ NewOnce(d)
           /\ AppendLands => d = 0 /\ ~Holds(queue'[1], First)
           /\ d = 0 => AppendLands \/ Grows \/ Exit
           /\ d = 1 => Leaves /\ (Settles \/ WriteFails)
           /\ ~Exit => Len(queue') >= Len(queue) - d
<1>0. QueueType /\ queue \in Seq(Jobs) /\ Len(queue) \in Nat
  BY DEF IType, QueueType
<1>1. CASE AppendLands
  <2>1. queue # <<>> /\ queue' = <<Rest(Current)>> \o Tail(queue) /\ Len(Current.entries) > 1
    BY <1>1 DEF AppendLands, Writing
  <2>2. Tail(queue) \in Seq(Jobs) /\ Len(Tail(queue)) = Len(queue) - 1 /\ Rest(Current) \in Jobs
    BY <1>0, <2>1, TailShifts, AtHead, JobAdvance
  <2>3. <<Rest(Current)>> \in Seq(Jobs) /\ Len(<<Rest(Current)>>) = 1
    BY <2>2
  <2>4. Len(queue') = Len(queue)
    <3>1. Len(queue') = Len(<<Rest(Current)>>) + Len(Tail(queue))
      BY <2>1, <2>2, <2>3, ConcatProperties
    <3> QED
      BY <1>0, <2>2, <2>3, <3>1
  <2> QED
    BY <1>0, <1>1, <2>4, Advanced
<1>2. CASE ~AppendLands /\ (Settles \/ WriteFails)
  <2>1. Leaves
    BY <1>2 DEF Settles, WriteFails, LastLands, Writing, Leaves
  <2>2. Tail(queue) \in Seq(Jobs) /\ Len(Tail(queue)) = Len(queue) - 1
    BY <1>0, <2>1, TailShifts DEF Leaves
  <2>3. Len(Append(Tail(queue), Patch(Tombstone))) = Len(queue) - 1 + 1
    BY <2>2, NewJobs, AppendParts
  <2>4. Len(queue') >= Len(queue) - 1
    BY <1>0, <2>1, <2>2, <2>3 DEF Leaves
  <2> QED
    BY <1>0, <1>2, <2>1, <2>4, Left DEF Leaves
<1>3. CASE ~AppendLands /\ ~Settles /\ ~WriteFails /\ Exit
  BY <1>3, Requeues
<1>4. CASE ~AppendLands /\ ~Settles /\ ~WriteFails /\ Grows
  <2>1. PICK new \in Seq(Jobs) : queue' = queue \o new
    BY <1>4 DEF Grows
  <2>2. Len(queue') = Len(queue) + Len(new) /\ Len(new) \in Nat
    BY <1>0, <2>1, ConcatProperties
  <2> QED
    BY <1>0, <1>4, <2>2, Requeues
<1> QED
  BY <1>1, <1>2, <1>3, <1>4, Shapes

-----------------------------------------------------------------------------
(* The structure of the queue: a job of a run is in it as long as the run is queued,    *)
(* and once.                                                                            *)
QueuedJobs == \A k \in DOMAIN queue : queue[k].run # 0 => phase[queue[k].run] = "queued"
OneJob == \A k, l \in DOMAIN queue : queue[k].run = queue[l].run /\ queue[k].run # 0 => k = l
InOrder == RunsInOrder /\ QueuedJobs /\ OneJob

(* The positions and the jobs of the queue. *)
LEMMA InQueue ==
  ASSUME QueueType, NEW k \in DOMAIN queue
  PROVE  k \in Nat /\ k >= 1 /\ k <= Len(queue) /\ queue[k] \in Jobs /\ queue[k].run \in Run \cup {0}
<1>1. k \in Nat /\ k >= 1 /\ k <= Len(queue) /\ queue[k] \in Jobs
  BY DEF QueueType
<1> QED
  BY <1>1, JobEntries

(* A run has the stages none, queued, live, over, in this order. *)
LEMMA Stages ==
  ASSUME IType, InOrder, [Next]_vars, NEW r \in Run
  PROVE  /\ phase[r] = "none" => phase'[r] = "none" \/ Asks(r)
         /\ phase[r] = "queued" => \/ phase'[r] = "queued" \/ Begins(r)
                                   \/ phase'[r] = "over" /\ (Drops(r) \/ Fails(r))
         /\ phase[r] = "live" => phase'[r] = "live" \/ Finishes(r)
         /\ phase[r] = "over" => phase'[r] = "over"
         /\ Asks(r) => phase[r] = "none"
         /\ Begins(r) \/ Fails(r) => phase[r] = "queued"
<1>0. RunType /\ QueueType /\ RunsInOrder /\ QueuedJobs
  BY DEF IType, InOrder
<1>1. Asks(r) => phase[r] = "none"
  <2>1. Asks(r) => (phase[r] # "none" <=> r < r)
    BY <1>0, NewRunIsNext DEF Asks
  <2> QED
    BY <2>1 DEF Run
<1>2. queue # <<>> /\ r = Current.run => phase[r] = "queued"
  <2>1. queue # <<>> => Current = queue[1] /\ 1 \in DOMAIN queue
    BY <1>0, AtHead
  <2>2. r # 0
    BY DEF Run
  <2> QED
    BY <1>0, <2>1, <2>2 DEF QueuedJobs
<1>3. Begins(r) \/ Fails(r) => phase[r] = "queued"
  BY <1>2 DEF Begins, Fails
<1>4. \/ phase'[r] = phase[r] \/ Asks(r) \/ Begins(r) \/ Finishes(r) \/ Drops(r) \/ Fails(r)
  BY Moves
<1> QED
  BY <1>1, <1>3, <1>4 DEF Finishes, Drops, Fails

(* Runs begin in the order of their numbers, whatever the step. *)
LEMMA OrderStep ==
  ASSUME IType, InOrder, [Next]_vars
  PROVE  RunsInOrder'
<1>0. RunsInOrder /\ RunType
  BY DEF InOrder, IType
<1>1. CASE \E r \in Run : Asks(r)
  <2>1. PICK r \in Run : Asks(r)
    BY <1>1
  <2>2. \A s \in Run : phase[s] # "none" <=> s < r
    BY <1>0, <2>1, NewRunIsNext DEF Asks
  <2>3. \A s \in Run : Asks(s) => s = r
    BY <2>1 DEF Asks, NewRun
  <2>4. \A s \in Run : phase'[s] # "none" <=> s <= r
    <3> TAKE s \in Run
    <3>1. CASE s = r
      BY <2>1, <3>1 DEF Asks, Run
    <3>2. CASE s # r
      <4>1. ~Asks(s)
        BY <2>3, <3>2
      <4>2. phase[s] # "none" <=> phase'[s] # "none"
        BY <1>0, <4>1, Stages DEF Begins, Finishes, RunType, Stage
      <4>3. s < r <=> s <= r
        BY <3>2 DEF Run
      <4> QED
        BY <2>2, <4>2, <4>3
    <3> QED
      BY <3>1, <3>2
  <2>5. r \in 0..MaxRequests
    BY SessionLogAssumption DEF Run
  <2> QED
    BY <2>4, <2>5 DEF RunsInOrder
<1>2. CASE \A r \in Run : ~Asks(r)
  <2>1. \A s \in Run : phase[s] # "none" <=> phase'[s] # "none"
    BY <1>0, <1>2, Stages DEF Begins, Finishes, RunType, Stage
  <2> QED
    BY <1>0, <2>1 DEF RunsInOrder
<1> QED
  BY <1>1, <1>2

(* A step keeps one job for each message and a queued job for each run that waits. *)
LEMMA JobsStep ==
  ASSUME IType, InOrder, [Next]_vars
  PROVE  QueuedJobs' /\ OneJob'
<1>0. QueueType /\ RunType /\ QueuedJobs /\ OneJob /\ QueueType'
  BY QueueStep DEF IType, InOrder
<1>1. PICK d \in {0, 1} : Requeued(d) /\ (Leaves => d = 1)
  BY <1>0, Left, Shift DEF Leaves
<1>2. ASSUME NEW k \in DOMAIN queue'
      PROVE  /\ k \in Nat /\ k >= 1 /\ queue'[k].run \in Run \cup {0}
             /\ \/ k + d \in DOMAIN queue /\ Stems(queue'[k], queue[k + d])
                \/ k + d > Len(queue) /\ NewJob(queue'[k]) /\ (queue'[k].run # 0 => k = Len(queue'))
  <2>1. k \in Nat /\ k >= 1 /\ queue'[k] \in Jobs
    BY <1>0, <1>2 DEF QueueType
  <2> QED
    BY <1>1, <1>2, <2>1, JobEntries DEF Requeued
<1>3. ASSUME NEW job, NewJob(job), job.run # 0 PROVE Asks(job.run)
  <2>1. Job("delete", 0, <<Remove>>).run = 0
    BY DEF Job
  <2> QED
    BY <1>3, <2>1, NoRun DEF NewJob, AsksFor
<1>4. ASSUME NEW k \in DOMAIN queue', queue'[k].run # 0 PROVE phase'[queue'[k].run] = "queued"
  <2>1. CASE k + d \in DOMAIN queue /\ Stems(queue'[k], queue[k + d])
    <3> DEFINE r == queue'[k].run
    <3>1. r \in Run /\ r = queue[k + d].run /\ phase[r] = "queued"
      BY <1>0, <1>2, <1>4, <2>1 DEF Stems, QueuedJobs
    <3>2. queue # <<>> /\ r = Current.run => k + d = 1
      <4>1. queue # <<>> => Current = queue[1] /\ 1 \in DOMAIN queue
        BY <1>0, AtHead
      <4> QED
        BY <1>0, <1>4, <2>1, <3>1, <4>1 DEF OneJob
    <3>3. queue' # <<>>
      BY <1>4
    <3>4. d = 1 => k + d # 1
      BY <1>2
    <3> HIDE DEF r
    <3>5. ~Begins(r) /\ ~Fails(r) /\ ~Drops(r)
      BY <1>1, <3>2, <3>3, <3>4 DEF Begins, Fails, Drops, Leaves
    <3> QED
      BY <3>1, <3>5, Stages DEF r
  <2>2. CASE NewJob(queue'[k])
    BY <1>3, <1>4, <2>2 DEF Asks
  <2> QED
    BY <1>2, <2>1, <2>2
<1>5. ASSUME NEW k \in DOMAIN queue', NEW l \in DOMAIN queue', queue'[k].run = queue'[l].run,
             queue'[k].run # 0
      PROVE  k = l
  <2> DEFINE r == queue'[k].run
  <2>1. CASE /\ k + d \in DOMAIN queue /\ Stems(queue'[k], queue[k + d])
             /\ l + d \in DOMAIN queue /\ Stems(queue'[l], queue[l + d])
    <3>1. k + d = l + d
      BY <1>0, <1>5, <2>1 DEF Stems, OneJob
    <3> QED
      BY <1>2, <3>1
  <2>2. CASE NewJob(queue'[k]) /\ k = Len(queue') /\ NewJob(queue'[l]) /\ l = Len(queue')
    BY <2>2
  <2>3. ASSUME NEW i \in DOMAIN queue, NEW j, NewJob(j), j.run = queue[i].run, j.run # 0
        PROVE  FALSE
    <3>1. phase[j.run] = "queued" /\ Asks(j.run)
      BY <1>0, <1>3, <2>3 DEF QueuedJobs
    <3>2. j.run \in Run
      BY <3>1 DEF Asks, NewRun
    <3>3. phase[j.run] = "none"
      BY <3>1, <3>2, Stages
    <3> QED
      BY <3>1, <3>3
  <2> QED
    BY <1>2, <1>5, <2>1, <2>2, <2>3 DEF Stems
<1> QED
  BY <1>4, <1>5 DEF QueuedJobs, OneJob

-----------------------------------------------------------------------------
(* What is to be written, and what is written. *)
Pending(e) == \E k \in DOMAIN queue : Holds(queue[k], e)
Logged(e) == \E i \in DOMAIN file.lines : file.lines[i] = e
Logs(e) == \E i \in DOMAIN file'.lines : file'.lines[i] = e   \* after the step

(* What the jobs hold. *)
LEMMA HeldBy ==
  /\ \A e, x : Holds(Patch(e), x) => x = e
  /\ \A r, e, x : Holds(Persist(r, e), x) => x = Say("assistant", r) \/ x = e
  /\ \A op, r, e, x : Holds(Job(op, r, <<e>>), x) => x = e
  /\ \A op, r, e, f, x : Holds(Job(op, r, <<e, f>>), x) => x = e \/ x = f
  /\ \A op, r, e, f, g, x : Holds(Job(op, r, <<e, f, g>>), x) => x = e \/ x = f \/ x = g
<1>1. \A op, r, e, x : Holds(Job(op, r, <<e>>), x) => x = e
  BY DEF Holds, Job
<1>2. \A op, r, e, f, x : Holds(Job(op, r, <<e, f>>), x) => x = e \/ x = f
  BY DEF Holds, Job
<1>3. \A op, r, e, f, g, x : Holds(Job(op, r, <<e, f, g>>), x) => x = e \/ x = f \/ x = g
  BY DEF Holds, Job
<1> QED
  BY <1>1, <1>2, <1>3 DEF Patch, Persist

(* What a new job brings: the first question of a run asked for, the last words of a    *)
(* run that ends, or an edit.                                                           *)
LEMMA NewEntries ==
  ASSUME NEW job, NewJob(job), NEW e, Holds(job, e)
  PROVE  \/ e = Header /\ phase[1] = "none" /\ Asks(1)
         \/ \E r \in Run : e = Say("user", r) /\ Asks(r)
         \/ \E r \in Run : Finishes(r) /\ (e = Say("assistant", r) \/ e = Paused(r))
         \/ e.kind \in {"status", "remove", "title", "pinned"} \/ e = Tombstone
<1>a. ASSUME NEW r, NEW s, job = Job("start", r, s) \/ job = Job("send", r, s) PROVE job.run = r
  BY <1>a DEF Job
<1>1. CASE /\ AsksFor(job, 0) /\ phase[1] = "none"
           /\ job = Job("start", 1, <<Header, Say("user", 1), Titled("query")>>)
  <2>1. job.run = 1 /\ (e = Header \/ e = Say("user", 1) \/ e = Titled("query"))
    BY <1>1, <1>a, HeldBy
  <2>2. Asks(1) /\ 1 \in Run
    BY <1>1, <2>1 DEF AsksFor, Asks, NewRun
  <2> QED
    BY <1>1, <2>1, <2>2, Kinds
<1>2. CASE AsksFor(job, 0) /\ job = Job("send", job.run, <<Say("user", job.run), Status>>)
  <2>1. e = Say("user", job.run) \/ e = Status
    BY <1>2, HeldBy
  <2>2. Asks(job.run) /\ job.run \in Run
    BY <1>2, <2>1 DEF AsksFor, Asks, NewRun
  <2> QED
    BY <2>1, <2>2, Kinds
<1>3. CASE job = Job("resume", job.run, <<Status>>)
  BY <1>3, HeldBy, Kinds
<1>4. CASE \E r \in Run : Finishes(r) /\ (job = Persist(r, Status) \/ job = Persist(r, Paused(r)))
  <2>1. PICK r \in Run : Finishes(r) /\ (job = Persist(r, Status) \/ job = Persist(r, Paused(r)))
    BY <1>4
  <2>2. e = Say("assistant", r) \/ e = Status \/ e = Paused(r)
    BY <2>1, HeldBy
  <2> QED
    BY <2>1, <2>2, Kinds
<1>5. CASE (\E t \in Title : job = Patch(Titled(t))) \/ (\E b \in BOOLEAN : job = Patch(Pinned(b)))
  BY <1>5, HeldBy, Kinds
<1>6. CASE job = Patch(Tombstone) \/ job = Job("delete", 0, <<Remove>>)
  BY <1>6, HeldBy, Kinds
<1> QED
  BY <1>1, <1>2, <1>3, <1>4, <1>5, <1>6 DEF NewJob

(* An entry that is waiting was waiting before, or its job has just been queued. *)
LEMMA PendingStep ==
  ASSUME IType, [Next]_vars, NEW e, Pending(e)'
  PROVE  Pending(e) \/ \E job : NewJob(job) /\ Holds(job, e)
<1>1. PICK d \in {0, 1} : Requeued(d)
  BY Shift
<1>2. PICK k \in DOMAIN queue' : Holds(queue'[k], e)
  BY DEF Pending
<1> QED
  BY <1>1, <1>2 DEF Requeued, Stems, Pending

(* A line that was not there is the append under way, or spoilt. *)
LEMMA LoggedStep ==
  ASSUME IType, [Next]_vars, NEW e, Logged(e)', e # Garbage
  PROVE  \/ Logged(e)
         \/ /\ queue # <<>> /\ e = First /\ First \in Entry /\ Pending(e)
            /\ Holds(Current, e) /\ Current.op # "delete"
<1>0. FileType /\ QueueType
  BY DEF IType
<1>1. PICK i \in DOMAIN file'.lines : file'.lines[i] = e
  BY DEF Logged
<1>2. ASSUME NEW x \in Line, file'.lines = Joined(file, x), x # e PROVE Logged(e)
  <2>1. file \in File /\ i \in DOMAIN Joined(file, x) /\ Joined(file, x)[i] = e
    BY <1>0, <1>1, <1>2 DEF FileType
  <2>2. i \in DOMAIN file.lines /\ file.lines[i] = e
    <3>1. CASE file.closed
      BY <1>2, <2>1, <3>1, Joins
    <3>2. CASE ~file.closed
      <4>1. i \in DOMAIN file.lines
            /\ Joined(file, x)[i] = IF i = Len(file.lines) THEN Garbage ELSE file.lines[i]
        BY <1>2, <2>1, <3>2, Joins
      <4> QED
        BY <2>1, <4>1
    <3> QED
      BY <3>1, <3>2
  <2> QED
    BY <2>2 DEF Logged
<1>3. ASSUME queue # <<>>, First \in Entry
      PROVE  Pending(First) /\ Holds(Current, First) /\ Current.op # "delete"
  <2>1. Holds(Current, First) /\ Current = queue[1] /\ 1 \in DOMAIN queue
        /\ (First = Remove <=> Current.op = "delete")
    BY <1>0, <1>3, AtHead
  <2> QED
    BY <1>3, <2>1, EntryKinds DEF Pending
<1>4. CASE Keeps
  BY <1>1, <1>4 DEF Keeps, Logged
<1>5. CASE Lands \/ Unheard
  <2>1. file'.lines = Joined(file, First) /\ First \in Line /\ First \in Entry /\ queue # <<>>
    BY <1>0, <1>5, FileParts DEF Lands, Unheard, FileType
  <2> QED
    BY <1>2, <1>3, <2>1
<1>6. CASE Removes
  BY <1>1, <1>6, FileParts DEF Removes
<1>7. CASE CutsOff
  <2>1. /\ file'.lines = Joined(file, First) \/ file'.lines = Joined(file, Garbage)
        /\ First \in Line /\ First \in Entry /\ queue # <<>> /\ Garbage \in Line
    BY <1>0, <1>7, FileParts, Entries DEF CutsOff, FileType
  <2> QED
    BY <1>2, <1>3, <2>1
<1> QED
  BY <1>4, <1>5, <1>6, <1>7, Writes

-----------------------------------------------------------------------------
(* What the window holds, by the steps that change it. *)
LEMMA WindowMoves ==
  ASSUME FlagType, [Next]_vars
  PROVE  /\ window' = "down" => Exit \/ UNCHANGED vars
         /\ window = "down" => Restart \/ UNCHANGED vars
<1>1. CASE User
  BY <1>1 DEF FlagType, User, StartSession, SendMessage, ResumeSession, Enters, RenameSession,
     TogglePin, Edit, DeleteSession, Shown
<1>2. CASE Agent
  BY <1>2 DEF FlagType, Agent, TitleArrives, Finalize
<1>3. CASE Writer
  BY <1>3 DEF FlagType, Writer, Writing, AppendLands, StartSettles, SendSettles, ResumeSettles,
              DeleteSettles, PatchSettles, LastLands, WriteFails
<1>4. CASE Quit
  BY <1>4 DEF Quit
<1>5. CASE Exit
  BY <1>5 DEF Exit
<1>6. CASE Restart
  BY <1>6 DEF Restart
<1> QED
  BY <1>1, <1>2, <1>3, <1>4, <1>5, <1>6 DEF Next

(* When the session becomes listed, and when its freeze changes. *)
LEMMA SessionMoves ==
  ASSUME IType, [Next]_vars
  PROVE  /\ session'.listed => session.listed \/ StartSettles \/ Restart
         /\ \/ session'.frozen \in {0, session.frozen}
            \/ \E r \in Run : Finishes(r) /\ session'.frozen = r
            \/ Restart
<1> DEFINE Goal ==
      /\ session'.listed => session.listed \/ StartSettles \/ Restart
      /\ \/ session'.frozen \in {0, session.frozen}
         \/ \E r \in Run : Finishes(r) /\ session'.frozen = r
         \/ Restart
<1> SUFFICES Goal
  OBVIOUS
<1>0. session \in Sessions /\ RunType
  BY DEF IType, SessionType
<1> USE DEF Sessions
<1>a. ASSUME UNCHANGED session PROVE Goal
  BY <1>a
<1>b. ASSUME session' = [session EXCEPT !.frozen = 0] PROVE Goal
  BY <1>0, <1>b
<1>1. CASE StartSession
  BY <1>a, <1>1 DEF StartSession
<1>2. ASSUME NEW r \in Run, SendMessage(r) PROVE Goal
  BY <1>a, <1>2 DEF SendMessage
<1>3. ASSUME NEW r \in Run, ResumeSession(r) PROVE Goal
  BY <1>b, <1>3 DEF ResumeSession
<1>4. ASSUME NEW t \in {"query", "renamed"}, RenameSession(t) PROVE Goal
  <2>1. session' = [session EXCEPT !.title = t]
    BY <1>4 DEF RenameSession
  <2> QED
    BY <1>0, <2>1
<1>5. CASE TogglePin
  BY <1>a, <1>5 DEF TogglePin
<1>6. CASE DeleteSession
  BY <1>b, <1>6 DEF DeleteSession
<1>7. CASE TitleArrives
  <2>1. \/ UNCHANGED session
        \/ session' = [session EXCEPT !.title = "generated"]
    BY <1>7 DEF TitleArrives
  <2> QED
    BY <1>0, <2>1
<1>8. ASSUME NEW r \in Run, NEW reason \in {"settled", "paused"}, Finalize(r, reason) PROVE Goal
  <2>1. session' = [session EXCEPT !.messages = @ \cup {Say("assistant", r)},
                                   !.frozen = IF reason = "paused" THEN r ELSE @]
    BY <1>8 DEF Finalize
  <2>2. Finishes(r)
    BY <1>0, <1>8 DEF Finalize, Finishes, RunType
  <2> QED
    BY <1>0, <2>1, <2>2
<1>9. CASE AppendLands
  BY <1>a, <1>9 DEF AppendLands
<1>10. CASE StartSettles
  <2>1. session'.frozen = 0
    BY <1>10 DEF StartSettles
  <2> QED
    BY <1>10, <2>1
<1>11. CASE SendSettles
  <2>1. session' = [session EXCEPT !.messages = @ \cup {Say("user", Current.run)}, !.frozen = 0]
    BY <1>11 DEF SendSettles
  <2> QED
    BY <1>0, <2>1
<1>12. CASE ResumeSettles
  BY <1>a, <1>12 DEF ResumeSettles
<1>13. CASE DeleteSettles
  <2>1. session' = [session EXCEPT !.listed = FALSE]
    BY <1>13 DEF DeleteSettles
  <2> QED
    BY <1>0, <2>1
<1>14. CASE PatchSettles
  <2>1. UNCHANGED session \/ session' = [session EXCEPT !.isPinned = First.pinned]
    BY <1>14 DEF PatchSettles
  <2> QED
    BY <1>0, <2>1
<1>15. CASE WriteFails
  BY <1>a, <1>15 DEF WriteFails
<1>16. CASE Quit
  <2>1. session' = [session EXCEPT !.messages = @ \cup {Say("assistant", r) : r \in Live}]
    BY <1>16 DEF Quit
  <2> QED
    BY <1>0, <2>1
<1>17. CASE Exit
  <2>1. session' = Hydrated(NoFile) /\ ~Loads(NoFile)
    BY <1>17, FileParts DEF Exit, Loads
  <2>2. session'.listed = FALSE /\ session'.frozen = 0
    BY <2>1 DEF Hydrated
  <2> QED
    BY <2>2
<1>18. CASE Restart
  BY <1>18
<1>19. CASE UNCHANGED vars
  BY <1>a, <1>19 DEF vars
<1> QED
  BY <1>1, <1>2, <1>3, <1>4, <1>5, <1>6, <1>7, <1>8, <1>9, <1>10, <1>11, <1>12, <1>13, <1>14,
     <1>15, <1>16, <1>17, <1>18, <1>19 DEF Next, User, Agent, Writer

(* A freeze that the fold finds is in the file. *)
LEMMA FoldedFreezeLogged ==
  ASSUME FileType, FoldedFreeze(file) # 0
  PROVE  Logged(Paused(FoldedFreeze(file)))
<1>1. file.lines \in Seq(Line) /\ \A i \in DOMAIN file.lines : file.lines[i] \in Line
  BY FileParts DEF FileType
<1>2. \/ LastOf(file, "paused", Tombstone) = Tombstone
      \/ \E i \in DOMAIN file.lines :
           file.lines[i].kind = "paused" /\ LastOf(file, "paused", Tombstone) = file.lines[i]
  BY <1>1, LastOfIs
<1>3. LastOf(file, "paused", Tombstone) # Tombstone
  BY Kinds DEF FoldedFreeze
<1>4. PICK i \in DOMAIN file.lines :
        file.lines[i].kind = "paused" /\ FoldedFreeze(file) = file.lines[i].run
  BY <1>2, <1>3 DEF FoldedFreeze
<1>5. PICK r \in Run \cup {0} : file.lines[i] = Paused(r)
  BY <1>1, <1>4, EntryKinds
<1>6. FoldedFreeze(file) = r
  BY <1>4, <1>5, Kinds
<1> QED
  BY <1>5, <1>6 DEF Logged

(* A file that loads has its header. *)
LEMMA LoadsLogged ==
  ASSUME FileType, Loads(file)
  PROVE  Logged(Header)
<1>1. file.lines \in Seq(Line) /\ file.lines # <<>> /\ file.lines[1] = Header
  BY FileParts DEF FileType, Loads
<1>2. 1 \in DOMAIN file.lines
  BY <1>1, TailShifts
<1> QED
  BY <1>1, <1>2 DEF Logged

-----------------------------------------------------------------------------
(* What has happened by the time the window, the file and a run say so. *)
SourceOver ==
  \A r \in Run : source[r] # 0 => phase[source[r]] = "over" /\ source[r] < r /\ phase[r] # "none"
FrozenOver == session.frozen # 0 => phase[session.frozen] = "over"
PausedOver == \A r \in Run : Pending(Paused(r)) \/ Logged(Paused(r)) => phase[r] = "over"
HeaderAsked == Logged(Header) => phase[1] # "none"
DownIsQuiet == window = "down" => queue = <<>> /\ \A r \in Run : phase[r] \in {"none", "over"}
ListedBegun == session.listed => phase[1] \in {"live", "over"}

Order ==
  /\ IType /\ InOrder
  /\ SourceOver /\ FrozenOver /\ PausedOver /\ HeaderAsked /\ DownIsQuiet /\ ListedBegun

(* The provider starts in order. *)
LEMMA OrderInit == Init => Order
<1> SUFFICES ASSUME Init PROVE Order
  OBVIOUS
<1>1. /\ window = "up" /\ session = Hydrated(NoFile) /\ queue = <<>> /\ file = NoFile
      /\ phase = [r \in Run |-> "none"] /\ source = [r \in Run |-> 0]
  BY DEF Init
<1>2. session.listed = FALSE /\ session.frozen = 0 /\ file.lines = <<>>
  BY <1>1, FileParts DEF Hydrated, Loads
<1>3. InOrder
  <2>1. 0 \in 0..MaxRequests /\ \A r \in Run : ~(r <= 0)
    BY SessionLogAssumption DEF Run
  <2> QED
    BY <1>1, <2>1 DEF InOrder, RunsInOrder, QueuedJobs, OneJob
<1>4. SourceOver /\ FrozenOver /\ PausedOver /\ HeaderAsked /\ DownIsQuiet /\ ListedBegun
  BY <1>1, <1>2 DEF SourceOver, FrozenOver, PausedOver, HeaderAsked, DownIsQuiet, ListedBegun,
     Pending, Logged
<1> QED
  BY <1>3, <1>4, TypeInit DEF Order

(* The job under way of a run that is queued. *)
LEMMA HeadQueued ==
  ASSUME QueueType, QueuedJobs, queue # <<>>, Current.op \in {"start", "send", "resume"}
  PROVE  Current.run \in Run /\ phase[Current.run] = "queued"
         /\ (Current.op = "start" => Current.run = 1)
<1>1. Current = queue[1] /\ 1 \in DOMAIN queue
  BY AtHead
<1>2. Current.run \in Run /\ Current.run # 0 /\ (Current.op = "start" => Current.run = 1)
  BY HeadRun DEF Run
<1> QED
  BY <1>1, <1>2 DEF QueuedJobs

(* A step keeps the order of the runs, of the jobs and of what has landed. *)
LEMMA PastStep ==
  ASSUME Order, [Next]_vars
  PROVE  Order'
<1>0. /\ IType /\ InOrder /\ RunType /\ QueueType /\ FileType /\ FlagType /\ QueuedJobs
      /\ RunsInOrder
      /\ SourceOver /\ FrozenOver /\ PausedOver /\ HeaderAsked /\ DownIsQuiet /\ ListedBegun
  BY DEF Order, IType, InOrder
<1>1. \A r \in Run : phase[r] = "over" => phase'[r] = "over"
  BY <1>0, Stages
<1>2. session.frozen \in Run \cup {0} /\ 1 \in Run /\ 0 \notin Run
  BY <1>0, SessionLogAssumption DEF IType, SessionType, Sessions, Run
<1>3. \A r \in Run : phase[r] # "none" => phase'[r] # "none"
  BY <1>0, Stages DEF Begins, Finishes, RunType, Stage
<1>4. IType' /\ InOrder'
  BY <1>0, TypeStep, OrderStep, JobsStep DEF InOrder
<1>5. SourceOver'
  <2> SUFFICES ASSUME NEW r \in Run, source'[r] # 0
               PROVE  phase'[source'[r]] = "over" /\ source'[r] < r /\ phase'[r] # "none"
    BY DEF SourceOver
  <2>1. CASE source'[r] = source[r]
    <3>1. source[r] \in Run
      BY <1>0, <2>1 DEF RunType
    <3> QED
      BY <1>0, <1>1, <1>3, <2>1, <3>1 DEF SourceOver
  <2>2. CASE Asks(r) /\ source'[r] = session.frozen
    <3>1. session.frozen \in Run /\ phase[session.frozen] = "over"
      BY <1>0, <1>2, <2>2 DEF FrozenOver
    <3>2. session.frozen < r
      BY <1>0, <2>2, <3>1, NewRunIsNext DEF Asks
    <3> QED
      BY <1>1, <2>2, <3>1, <3>2 DEF Asks
  <2> QED
    BY <1>0, <2>1, <2>2, Moves
<1>6. FrozenOver'
  <2> SUFFICES ASSUME session'.frozen # 0 PROVE phase'[session'.frozen] = "over"
    BY DEF FrozenOver
  <2>1. CASE session'.frozen = session.frozen
    BY <1>0, <1>1, <1>2, <2>1 DEF FrozenOver
  <2>2. CASE \E r \in Run : Finishes(r) /\ session'.frozen = r
    BY <2>2 DEF Finishes
  <2>3. CASE Restart
    <3>1. session' = Hydrated(file) /\ phase' = phase
      BY <2>3 DEF Restart, runVars
    <3>2. session'.frozen = FoldedFreeze(file)
      BY <3>1 DEF Hydrated
    <3>3. Logged(Paused(session'.frozen)) /\ session'.frozen \in Run
      BY <1>0, <3>2, FoldedFreezeLogged, Folds DEF FileType
    <3> QED
      BY <1>0, <3>1, <3>3 DEF PausedOver
  <2> QED
    BY <1>0, <2>1, <2>2, <2>3, SessionMoves
<1>7. PausedOver'
  <2>1. ASSUME NEW r \in Run, Pending(Paused(r))' PROVE phase'[r] = "over"
    <3>1. CASE Pending(Paused(r))
      BY <1>0, <1>1, <3>1 DEF PausedOver
    <3>2. ASSUME NEW job, NewJob(job), Holds(job, Paused(r)) PROVE phase'[r] = "over"
      <4>1. Paused(r).kind = "paused" /\ Paused(r).run = r /\ r # 0
        BY <1>2, Kinds
      <4>2. \E s \in Run : Finishes(s) /\ (Paused(r) = Say("assistant", s) \/ Paused(r) = Paused(s))
        BY <3>2, <4>1, NewEntries, Kinds
      <4> QED
        BY <4>1, <4>2, Kinds DEF Finishes
    <3> QED
      BY <1>0, <2>1, <3>1, <3>2, PendingStep
  <2>2. ASSUME NEW r \in Run, Logged(Paused(r))' PROVE phase'[r] = "over"
    <3>1. Paused(r) # Garbage
      BY Kinds
    <3>2. Logged(Paused(r)) \/ Pending(Paused(r))
      BY <1>0, <2>2, <3>1, LoggedStep
    <3> QED
      BY <1>0, <1>1, <3>2 DEF PausedOver
  <2> QED
    BY <2>1, <2>2 DEF PausedOver
<1>8. HeaderAsked'
  <2> SUFFICES ASSUME Logged(Header)' PROVE phase'[1] # "none"
    BY DEF HeaderAsked
  <2>1. Header # Garbage
    BY Kinds
  <2>2. CASE Logged(Header)
    BY <1>0, <1>2, <1>3, <2>2 DEF HeaderAsked
  <2>3. CASE queue # <<>> /\ Holds(Current, Header)
    <3>1. Current \in Jobs
      BY <1>0, <2>3, AtHead
    <3>2. Current.op = "start"
      BY <2>3, <3>1, JobOrder, Kinds DEF Holds
    <3> QED
      BY <1>0, <1>2, <1>3, <2>3, <3>2, HeadQueued
  <2> QED
    BY <1>0, <2>1, <2>2, <2>3, LoggedStep
<1>9. DownIsQuiet'
  <2> SUFFICES ASSUME window' = "down"
               PROVE  queue' = <<>> /\ \A r \in Run : phase'[r] \in {"none", "over"}
    BY DEF DownIsQuiet
  <2>1. CASE Exit
    <3>1. queue' = <<>>
          /\ phase' = [r \in Run |-> IF phase[r] \in {"queued", "live"} THEN "over" ELSE phase[r]]
      BY <2>1 DEF Exit
    <3> QED
      BY <1>0, <3>1 DEF RunType, Stage
  <2>2. CASE UNCHANGED vars
    <3>1. window' = window /\ queue' = queue /\ phase' = phase
      BY <2>2 DEF vars, runVars
    <3> QED
      BY <1>0, <3>1 DEF DownIsQuiet
  <2> QED
    BY <1>0, <2>1, <2>2, WindowMoves
<1>10. ListedBegun'
  <2> SUFFICES ASSUME session'.listed PROVE phase'[1] \in {"live", "over"}
    BY DEF ListedBegun
  <2>1. CASE session.listed
    BY <1>0, <1>1, <1>2, <2>1, Stages DEF ListedBegun, Finishes
  <2>2. CASE StartSettles
    <3>1. queue # <<>> /\ Current.op = "start" /\ RunStarts
      BY <2>2 DEF StartSettles, LastLands, Writing
    <3>2. Current.run = 1
      BY <1>0, <3>1, HeadQueued
    <3> QED
      BY <1>0, <1>2, <3>1, <3>2 DEF RunStarts, RunType
  <2>3. CASE Restart
    <3>1. session' = Hydrated(file) /\ phase' = phase /\ window = "down"
      BY <2>3 DEF Restart, runVars
    <3>2. Loads(file)
      BY <1>0, <3>1, HydratedType DEF FileType
    <3>3. phase[1] # "none"
      BY <1>0, <3>2, LoadsLogged DEF HeaderAsked
    <3> QED
      BY <1>0, <1>2, <3>1, <3>3 DEF DownIsQuiet
  <2> QED
    BY <1>0, <2>1, <2>2, <2>3, SessionMoves
<1> QED
  BY <1>4, <1>5, <1>6, <1>7, <1>8, <1>9, <1>10 DEF Order

(* The jobs of these proofs are jobs of the model. *)
LEMMA JobsTyped == Jobs \subseteq JobType
<1> SUFFICES ASSUME NEW job \in Jobs PROVE job \in JobType
  OBVIOUS
<1>1. job = [op |-> job.op, run |-> job.run, entries |-> job.entries]
  BY DEF Jobs, StartJobs, SendJobs, ResumeJobs, PersistJobs, PatchJobs, DeleteJob, Job, Patch,
     Persist
<1>2. /\ job.op \in {"start", "send", "resume", "patch", "delete"}
      /\ job.run \in Run \cup {0} /\ (job.run = 0 <=> job.op \in {"patch", "delete"})
      /\ job.entries \in Seq(Entry \cup {Remove})
      /\ job.op # "delete" => job.entries \in Seq(Entry)
  BY JobEntries
<1>3. CASE job.op \in {"start", "send", "resume"}
  <2>1. job.run \in Run /\ job.entries \in Seq(Entry)
    BY <1>2, <1>3
  <2> QED
    BY <1>1, <1>3, <2>1 DEF JobType
<1>4. CASE job.op \in {"patch", "delete"}
  BY <1>1, <1>2, <1>4 DEF JobType
<1> QED
  BY <1>2, <1>3, <1>4

(* The order holds in every reachable state. *)
LEMMA OrderIsInvariant == Spec => []Order
<1>1. Init => Order
  BY OrderInit
<1>2. Order /\ [Next]_vars => Order'
  BY PastStep
<1> QED
  BY <1>1, <1>2, PTL DEF Spec

(* The types, at every reachable state: whatever a job of the queue is, it is one of    *)
(* the shapes the provider enqueues with its first appends gone; a freeze in the window *)
(* is that of a run that is over, and a run resends an earlier one.                     *)
THEOREM Types == Spec => []TypeOK
<1>1. Order => TypeOK
  <2> SUFFICES ASSUME Order PROVE TypeOK
    OBVIOUS
  <2>1. IType /\ SourceOver /\ FrozenOver
    BY DEF Order
  <2>2. FlagType /\ SessionType /\ QueueType /\ FileType /\ RunType /\ LandedType /\ CountType
    BY <2>1 DEF IType
  <2>3. window \in {"up", "closing", "down"} /\ titling \in BOOLEAN /\ deleted \in BOOLEAN
    BY <2>2, Zenon DEF FlagType
  <2>4. session \in [listed : BOOLEAN, messages : SUBSET Message, title : Title \cup {Untitled},
                     isPinned : BOOLEAN, frozen : Run \cup {0}]
    BY <2>2 DEF SessionType, Sessions
  <2>5. queue \in Seq(JobType)
    BY <2>2, JobsTyped DEF QueueType
  <2>6. \A k \in DOMAIN queue : queue[k].entries # <<>>
    BY <2>2, InQueue, JobEntries
  <2>7. /\ phase \in [Run -> {"none", "queued", "live", "over"}]
        /\ source \in [Run -> Run \cup {0}] /\ started \subseteq Run
    BY <2>2 DEF RunType, Stage
  <2>8. \A r \in Run : source[r] < r
    <3> TAKE r \in Run
    <3>1. CASE source[r] = 0
      BY <3>1 DEF Run
    <3>2. CASE source[r] # 0
      BY <2>1, <3>2 DEF SourceOver
    <3> QED
      BY <3>1, <3>2
  <2>9. /\ file \in File /\ landed \subseteq Message
        /\ torn \in Nat /\ failed \in Nat /\ edits \in 0..MaxRequests /\ exits \in 0..MaxMishaps
    BY <2>2 DEF FileType, LandedType, CountType
  <2>10. session.frozen # 0 => phase[session.frozen] = "over"
    BY <2>1 DEF FrozenOver
  <2> QED
    BY <2>3, <2>4, <2>5, <2>6, <2>7, <2>8, <2>9, <2>10, Zenon DEF TypeOK
<1>2. Spec => []Order
  BY OrderIsInvariant
<1> QED
  BY <1>1, <1>2, PTL

-----------------------------------------------------------------------------
(* A delete is acknowledged only after the session was begun, and its header is written *)
(* once, by the job of run 1: no later append makes the file a session again.           *)
DeleteBegun ==
  deleted \/ (\E k \in DOMAIN queue : queue[k].op = "delete") => phase[1] \in {"live", "over"}
Erased == Order /\ DeleteBegun /\ DeletedStaysDeleted

(* Only the delete that settles marks the session deleted. *)
LEMMA DeletedMoves ==
  ASSUME [Next]_vars
  PROVE  deleted' = deleted \/ DeleteSettles
BY DEF Next, User, Agent, Writer, StartSession, SendMessage, ResumeSession, Enters, RenameSession,
   TogglePin, Edit, DeleteSession, TitleArrives, Finalize, AppendLands, StartSettles, SendSettles,
   ResumeSettles, DeleteSettles, PatchSettles, LastLands, WriteFails, Quit, Exit, Restart, vars

(* Nothing that a step does writes for a session that was deleted. *)
LEMMA ErasedStep ==
  ASSUME Erased, [Next]_vars
  PROVE  Erased'
<1>0. /\ Order /\ IType /\ InOrder /\ QueueType /\ FileType /\ QueuedJobs /\ ListedBegun
      /\ DeleteBegun /\ DeletedStaysDeleted /\ 1 \in Run /\ FlagType
  BY SessionLogAssumption DEF Erased, Order, IType, InOrder, Run
<1>1. phase[1] \in {"live", "over"} => phase'[1] \in {"live", "over"}
  BY <1>0, Stages DEF Finishes
<1>2. ASSUME deleted', ~deleted PROVE DeleteSettles /\ queue # <<>> /\ Current.op = "delete"
  BY <1>2, DeletedMoves DEF DeleteSettles, LastLands, Writing
<1>3. ASSUME NEW k \in DOMAIN queue', queue'[k].op = "delete" PROVE phase[1] \in {"live", "over"}
  <2>1. CASE \E l \in DOMAIN queue : queue[l].op = "delete"
    BY <1>0, <2>1 DEF DeleteBegun
  <2>2. CASE NewJob(queue'[k])
    <3>1. session.listed
      BY <1>3, <2>2 DEF NewJob, Job, Persist, Patch
    <3> QED
      BY <1>0, <3>1 DEF ListedBegun
  <2> QED
    BY <1>0, <1>3, <2>1, <2>2, Shift DEF Requeued, Stems
<1>4. DeleteBegun'
  <2>1. ASSUME deleted' PROVE phase[1] \in {"live", "over"}
    <3>1. CASE deleted
      BY <1>0, <3>1 DEF DeleteBegun
    <3>2. CASE ~deleted
      <4>1. Current = queue[1] /\ 1 \in DOMAIN queue /\ Current.op = "delete"
        BY <1>0, <1>2, <2>1, <3>2, AtHead
      <4> QED
        BY <1>0, <4>1 DEF DeleteBegun
    <3> QED
      BY <3>1, <3>2
  <2> QED
    BY <1>1, <1>3, <2>1 DEF DeleteBegun
<1>5. ASSUME phase[1] \in {"live", "over"}, queue # <<>>, First \in Entry PROVE First # Header
  <2>1. Current \in Jobs /\ 1 \in DOMAIN Current.entries /\ First = Current.entries[1]
    BY <1>0, <1>5, AtHead
  <2>2. Current.op # "start"
    BY <1>0, <1>5, HeadQueued
  <2> QED
    BY <2>1, <2>2, JobOrder, Kinds
<1>6. ASSUME deleted PROVE ~session'.listed /\ ~Loads(file')
  <2>1. phase[1] \in {"live", "over"} /\ ~session.listed /\ ~Loads(file)
    BY <1>0, <1>6 DEF DeleteBegun, DeletedStaysDeleted
  <2>2. ~StartSettles
    BY <1>0, <2>1, HeadQueued DEF StartSettles, LastLands, Writing
  <2>3. ~session'.listed
    <3>1. Restart => (session'.listed <=> Loads(file))
      <4>1. Restart => session' = Hydrated(file)
        BY DEF Restart
      <4>2. Hydrated(file).listed <=> Loads(file)
        BY <1>0, HydratedType DEF FileType
      <4> QED
        BY <4>1, <4>2
    <3>2. Restart => ~session'.listed
      BY <2>1, <3>1
    <3>3. session'.listed => session.listed \/ StartSettles \/ Restart
      BY <1>0, SessionMoves
    <3> QED
      BY <2>1, <2>2, <3>2, <3>3, Zenon
  <2>4. ASSUME NEW e \in Line, e # Header, file'.lines = Joined(file, e) PROVE ~Loads(file')
    BY <1>0, <2>1, <2>4, LoadsOnlyByHeader DEF FileType
  <2>5. ~Loads(file')
    <3>1. CASE Keeps
      BY <2>1, <3>1 DEF Keeps
    <3>2. CASE Lands \/ Unheard
      BY <1>0, <1>5, <2>1, <2>4, <3>2, FileParts DEF Lands, Unheard, FileType
    <3>3. CASE Removes
      BY <3>3, FileParts DEF Removes, Loads
    <3>4. CASE CutsOff
      <4>1. First # Header /\ First \in Line /\ Garbage \in Line /\ Garbage # Header
        BY <1>5, <2>1, <3>4, Entries, Kinds DEF CutsOff
      <4>2. file'.lines = Joined(file, First) \/ file'.lines = Joined(file, Garbage)
        BY <1>0, <3>4, <4>1, FileParts DEF CutsOff, FileType
      <4> QED
        BY <2>4, <4>1, <4>2
    <3> QED
      BY <1>0, <3>1, <3>2, <3>3, <3>4, Writes
  <2> QED
    BY <2>3, <2>5
<1>7. ASSUME ~deleted, deleted' PROVE ~session'.listed /\ ~Loads(file')
  <2>1. session' = [session EXCEPT !.listed = FALSE] /\ LastLands("delete")
    BY <1>2, <1>7 DEF DeleteSettles
  <2>2. session'.listed = FALSE
    BY <1>0, <2>1 DEF IType, SessionType, Sessions
  <2>3. First = Remove
    BY <1>0, <1>2, <1>7, AtHead
  <2>4. file' = NoFile
    BY <2>1, <2>3 DEF LastLands
  <2> QED
    BY <2>2, <2>4, FileParts DEF Loads
<1>8. DeletedStaysDeleted'
  BY <1>6, <1>7 DEF DeletedStaysDeleted
<1> QED
  BY <1>0, <1>4, <1>8, PastStep DEF Erased

(* An acknowledged delete is final: a live run and the writes still in the queue go on  *)
(* appending to the session's path, and no start of the program lists it again.         *)
THEOREM DeleteIsFinal == Spec => []DeletedStaysDeleted
<1>1. Init => Erased
  <2> SUFFICES ASSUME Init PROVE Erased
    OBVIOUS
  <2>1. deleted = FALSE /\ queue = <<>>
    BY DEF Init
  <2> QED
    BY <2>1, OrderInit DEF Erased, DeleteBegun, DeletedStaysDeleted
<1>2. Erased /\ [Next]_vars => Erased'
  BY ErasedStep
<1>3. Erased => DeletedStaysDeleted
  BY DEF Erased
<1> QED
  BY <1>1, <1>2, <1>3, PTL DEF Spec

-----------------------------------------------------------------------------
(* Replies.  A run is handed to the agent only when its question, if it has one, is on  *)
(* disk, and answers only then; as long as no append is cut short, nothing goes missing *)
(* before it.                                                                           *)
StartedRan ==
  /\ \A r \in started : phase[r] \in {"live", "over"}
  /\ \A r \in Run : phase[r] = "live" => r \in started
FirstAlone == phase[1] \notin {"live", "over"} => \A r \in Run : r # 1 => phase[r] = "none"
SourcedJobs ==
  \A k \in DOMAIN queue :
    /\ queue[k].op = "resume" => source[queue[k].run] # 0
    /\ queue[k].op \in {"start", "send"} => source[queue[k].run] = 0
RepliesStarted ==
  \A r \in Run : Pending(Say("assistant", r)) \/ Logged(Say("assistant", r)) => r \in started
ClosedUntorn == torn = 0 => file.closed
History == Order /\ StartedRan /\ FirstAlone /\ SourcedJobs /\ RepliesStarted /\ ClosedUntorn

(* The provider starts with the history of an empty file. *)
LEMMA HistoryInit == Init => History
<1> SUFFICES ASSUME Init PROVE History
  OBVIOUS
<1>1. /\ queue = <<>> /\ file = NoFile /\ phase = [r \in Run |-> "none"] /\ started = {}
  BY DEF Init
<1>2. file.lines = <<>> /\ file.closed
  BY <1>1, FileParts
<1> QED
  BY <1>1, <1>2, OrderInit DEF History, StartedRan, FirstAlone, SourcedJobs, RepliesStarted,
     ClosedUntorn, Pending, Logged

(* As long as no append is cut short, each is a new line at the end. *)
LEMMA Untorn ==
  ASSUME IType, ClosedUntorn, [Next]_vars, torn' = 0
  PROVE  /\ torn = 0 /\ file.closed
         /\ Keeps \/ Lands \/ Removes \/ Unheard
<1>1. torn \in Nat /\ FileType
  BY DEF IType, CountType
<1>2. CASE CutsOff
  <2>1. file' = file /\ torn = 0
    BY <1>1, <1>2 DEF CutsOff
  <2>2. ~file'.closed
    BY <1>1, <1>2, FileParts DEF CutsOff, FileType
  <2> QED
    BY <2>1, <2>2 DEF ClosedUntorn
<1>3. CASE Keeps \/ Lands \/ Removes \/ Unheard
  BY <1>3 DEF Keeps, Lands, Removes, Unheard, ClosedUntorn
<1> QED
  BY <1>2, <1>3, Writes

(* An append to a file that ends in a newline adds one line and keeps the others. *)
LEMMA NewLine ==
  ASSUME FileType, file.closed, NEW e \in Line, file' = Appended(file, e)
  PROVE  /\ Logs(e) /\ \A x : Logged(x) => Logs(x)
         /\ \A j \in DOMAIN file.lines : j \in DOMAIN file'.lines /\ file'.lines[j] = file.lines[j]
         /\ \A j \in DOMAIN file'.lines :
              \/ j \in DOMAIN file.lines /\ file'.lines[j] = file.lines[j]
              \/ j = Len(file.lines) + 1 /\ file'.lines[j] = e
         /\ file'.lines[Len(file.lines) + 1] = e /\ Len(file.lines) + 1 \in DOMAIN file'.lines
         /\ Len(file.lines) \in Nat /\ DOMAIN file.lines = 1..Len(file.lines)
<1>1. file \in File /\ file'.lines = Joined(file, e) /\ Len(file.lines) \in Nat
      /\ DOMAIN file.lines = 1..Len(file.lines)
  BY FileParts DEF FileType
<1>2. /\ \A j \in DOMAIN file.lines : j \in DOMAIN file'.lines /\ file'.lines[j] = file.lines[j]
      /\ \A j \in DOMAIN file'.lines :
           \/ j \in DOMAIN file.lines /\ file'.lines[j] = file.lines[j]
           \/ j = Len(file.lines) + 1 /\ file'.lines[j] = e
      /\ Len(file.lines) + 1 \in DOMAIN file'.lines /\ file'.lines[Len(file.lines) + 1] = e
  BY <1>1, Joins
<1> QED
  BY <1>1, <1>2 DEF Logged, Logs

(* Every step keeps the account of what is logged, queued and over. *)
LEMMA HistoryStep ==
  ASSUME History, [Next]_vars
  PROVE  History'
<1>0. /\ Order /\ IType /\ InOrder /\ RunType /\ QueueType /\ FileType /\ QueuedJobs /\ ListedBegun
      /\ StartedRan /\ FirstAlone /\ SourcedJobs /\ RepliesStarted /\ ClosedUntorn /\ 1 \in Run
  BY SessionLogAssumption DEF History, Order, IType, InOrder, Run
<1>1. StartedRan'
  <2>1. ASSUME NEW r \in started' PROVE phase'[r] \in {"live", "over"}
    <3>0. r \in Run
      BY <1>0, RunStep DEF RunType
    <3>1. CASE r \in started
      BY <1>0, <3>0, <3>1, Stages DEF StartedRan, Finishes
    <3>2. CASE Begins(r)
      BY <3>2 DEF Begins
    <3> QED
      BY <1>0, <3>0, <3>1, <3>2, Moves
  <2>2. ASSUME NEW r \in Run, phase'[r] = "live" PROVE r \in started'
    <3>1. CASE phase[r] = "live"
      BY <1>0, <3>1, Moves DEF StartedRan
    <3>2. CASE phase[r] # "live"
      BY <1>0, <2>2, <3>2, Moves DEF Asks, Begins, Finishes, Drops, Fails
    <3> QED
      BY <3>1, <3>2
  <2> QED
    BY <2>1, <2>2 DEF StartedRan
<1>2. FirstAlone'
  <2> SUFFICES ASSUME phase'[1] \notin {"live", "over"}, NEW r \in Run, r # 1
               PROVE  phase'[r] = "none"
    BY DEF FirstAlone
  <2>1. phase[1] \notin {"live", "over"}
    BY <1>0, Stages DEF Finishes
  <2>2. ~session.listed /\ phase[r] = "none"
    BY <1>0, <2>1 DEF ListedBegun, FirstAlone
  <2>3. ~Asks(r)
    BY <2>2, Zenon DEF Asks
  <2> QED
    BY <1>0, <2>2, <2>3, Stages
<1>3. SourcedJobs'
  <2>1. PICK d \in {0, 1} : Requeued(d)
    BY <1>0, Shift
  <2> SUFFICES ASSUME NEW k \in DOMAIN queue'
               PROVE  /\ queue'[k].op = "resume" => source'[queue'[k].run] # 0
                      /\ queue'[k].op \in {"start", "send"} => source'[queue'[k].run] = 0
    BY DEF SourcedJobs
  <2>2. CASE k + d \in DOMAIN queue /\ Stems(queue'[k], queue[k + d])
    <3> DEFINE old == queue[k + d]
    <3>1. old \in Jobs /\ queue'[k].op = old.op /\ queue'[k].run = old.run
      BY <1>0, <2>2, InQueue DEF Stems
    <3>2. CASE old.op \in {"start", "send", "resume"}
      <4>1. old.run \in Run /\ old.run # 0
        BY <3>1, <3>2, JobEntries
      <4>2. phase[old.run] = "queued"
        BY <1>0, <2>2, <4>1 DEF QueuedJobs
      <4>3. source'[old.run] = source[old.run]
        BY <1>0, <4>1, <4>2, Moves, Stages
      <4> QED
        BY <1>0, <2>2, <3>1, <4>3 DEF SourcedJobs
    <3>3. CASE old.op \notin {"start", "send", "resume"}
      BY <3>1, <3>3
    <3> QED
      BY <3>2, <3>3
  <2>3. CASE NewJob(queue'[k])
    <3>1. queue'[k].op = "resume" => source'[queue'[k].run] # 0
      BY <2>3 DEF NewJob, AsksFor, Job, Patch, Persist
    <3>2. queue'[k].op \in {"start", "send"} => source'[queue'[k].run] = 0
      BY <2>3 DEF NewJob, AsksFor, Job, Patch, Persist
    <3> QED
      BY <3>1, <3>2
  <2> QED
    BY <2>1, <2>2, <2>3 DEF Requeued
<1>4. RepliesStarted'
  <2> SUFFICES ASSUME NEW r \in Run, Pending(Say("assistant", r))' \/ Logged(Say("assistant", r))'
               PROVE  r \in started'
    BY DEF RepliesStarted
  <2> DEFINE e == Say("assistant", r)
  <2>0. e.kind = "message" /\ e.role = "assistant" /\ e.run = r /\ e # Garbage /\ e # Tombstone
    BY Kinds
  <2> HIDE DEF e
  <2>1. CASE Pending(e) \/ Logged(e)
    <3>1. r \in started
      BY <1>0, <2>1 DEF RepliesStarted, e
    <3> QED
      BY <1>0, <3>1, Moves
  <2>2. ASSUME NEW job, NewJob(job), Holds(job, e) PROVE r \in started'
    <3>1. \E s \in Run : Finishes(s) /\ e = Say("assistant", s)
      BY <2>0, <2>2, NewEntries, Kinds
    <3>2. Finishes(r)
      BY <2>0, <3>1, Kinds
    <3>3. r \in started
      BY <1>0, <3>2 DEF StartedRan, Finishes
    <3> QED
      BY <1>0, <3>3, Moves
  <2>3. Pending(e)' => Pending(e) \/ \E job : NewJob(job) /\ Holds(job, e)
    BY <1>0, PendingStep
  <2>4. Logged(e)' => Pending(e) \/ Logged(e)
    BY <1>0, <2>0, LoggedStep
  <2>5. Pending(e)' \/ Logged(e)'
    BY DEF e
  <2> QED
    BY <2>1, <2>2, <2>3, <2>4, <2>5
<1>5. ClosedUntorn'
  <2> SUFFICES ASSUME torn' = 0 PROVE file'.closed
    BY DEF ClosedUntorn
  <2>1. file.closed /\ (Keeps \/ Lands \/ Removes \/ Unheard)
    BY <1>0, Untorn
  <2> QED
    BY <1>0, <2>1, FileParts DEF Keeps, Lands, Removes, Unheard, FileType
<1> QED
  BY <1>0, <1>1, <1>2, <1>3, <1>4, <1>5, PastStep DEF History

QuestionFirst ==
  torn = 0 /\ Loads(file) =>
    /\ \A r \in started : source[r] = 0 => Logged(Say("user", r))
    /\ \A k \in DOMAIN queue : queue[k].op \in {"start", "send"} =>
         Holds(queue[k], Say("user", queue[k].run)) \/ Logged(Say("user", queue[k].run))
Answers == History /\ QuestionFirst /\ ReplyFollowsQuestion

(* A file becomes a session again by its header, the first append of run 1's job. *)
LEMMA BecomesSession ==
  ASSUME History, [Next]_vars, Loads(file'), ~Loads(file)
  PROVE  /\ file.lines = <<>> /\ file.closed /\ queue # <<>> /\ First = Header
         /\ Lands \/ Unheard \/ CutsOff
         /\ Current.op = "start" /\ Holds(Current, Say("user", 1))
         /\ started = {} /\ \A r \in Run : r # 1 => phase[r] = "none"
<1>0. /\ IType /\ QueueType /\ FileType /\ QueuedJobs /\ StartedRan /\ FirstAlone /\ RunType
  BY DEF History, Order, IType, InOrder
<1>2. Lands \/ Unheard \/ CutsOff
  BY <1>0, Writes, FileParts DEF Keeps, Removes, Loads
<1>3. queue # <<>> /\ First \in Line /\ First \in Entry /\ Garbage \in Line /\ Garbage # Header
      /\ (file'.lines = Joined(file, First) \/ file'.lines = Joined(file, Garbage))
  BY <1>0, <1>2, FileParts, Entries, Kinds DEF Lands, Unheard, CutsOff, FileType
<1>4. file.lines = <<>> /\ file.closed /\ First = Header
  BY <1>0, <1>3, LoadsOnlyByHeader DEF FileType
<1>5. Current \in Jobs /\ 1 \in DOMAIN Current.entries /\ First = Current.entries[1]
  BY <1>0, <1>3, AtHead
<1>6. Current.op = "start" /\ Len(Current.entries) = 3 /\ Current.entries[2] = Say("user", 1)
  BY <1>4, <1>5, JobOrder, Kinds
<1>7. 2 \in DOMAIN Current.entries
  BY <1>5, <1>6, JobEntries
<1>8. Holds(Current, Say("user", 1))
  BY <1>6, <1>7 DEF Holds
<1>9. phase[1] = "queued"
  BY <1>0, <1>3, <1>6, HeadQueued
<1>10. \A r \in Run : r # 1 => phase[r] = "none"
  BY <1>0, <1>9 DEF FirstAlone
<1>11. started = {}
  BY <1>0, <1>9, <1>10 DEF StartedRan, RunType
<1> QED
  BY <1>2, <1>3, <1>4, <1>6, <1>8, <1>10, <1>11

(* An append under way, landing, or the end: nothing acknowledged or heard of is lost. *)
LEMMA KeepsLines ==
  ASSUME History, [Next]_vars, torn' = 0, Loads(file'), NEW e
  PROVE  Logged(e) => Logs(e)
<1>0. IType /\ FileType /\ ClosedUntorn
  BY DEF History, Order, IType
<1>1. file.closed /\ (Keeps \/ Lands \/ Removes \/ Unheard)
  BY <1>0, Untorn
<1>2. ~Removes
  BY FileParts DEF Removes, Loads
<1>3. CASE Keeps
  BY <1>3 DEF Keeps, Logged, Logs
<1>4. CASE Lands \/ Unheard
  BY <1>0, <1>1, <1>4, NewLine DEF Lands, Unheard
<1> QED
  BY <1>1, <1>2, <1>3, <1>4

(* No step puts a reply in the file before its question. *)
LEMMA QuestionStep ==
  ASSUME Answers, [Next]_vars
  PROVE  QuestionFirst'
<1> SUFFICES ASSUME torn' = 0, Loads(file')
             PROVE  /\ \A r \in started' : source'[r] = 0 => Logs(Say("user", r))
                    /\ \A k \in DOMAIN queue' : queue'[k].op \in {"start", "send"} =>
                         \/ Holds(queue'[k], Say("user", queue'[k].run))
                         \/ Logs(Say("user", queue'[k].run))
  BY DEF QuestionFirst, Logged, Logs
<1>0. /\ History /\ IType /\ InOrder /\ QueueType /\ FileType /\ RunType /\ RunType'
      /\ QueuedJobs /\ StartedRan
      /\ SourcedJobs /\ QuestionFirst /\ ClosedUntorn /\ QueueType'
  BY RunStep, QueueStep DEF Answers, History, Order, IType, InOrder
<1>1. torn = 0 /\ file.closed /\ (Keeps \/ Lands \/ Removes \/ Unheard)
  BY <1>0, Untorn
(* Where the question of a job or of a run is, if the file is no session yet. *)
<1>2. ASSUME NEW k \in DOMAIN queue, queue[k].op \in {"start", "send"}
      PROVE  Holds(queue[k], Say("user", queue[k].run)) \/ Logged(Say("user", queue[k].run))
  <2>1. CASE Loads(file)
    BY <1>0, <1>1, <1>2, <2>1 DEF QuestionFirst
  <2>2. CASE ~Loads(file)
    <3>1. queue # <<>> /\ Current.op = "start" /\ Holds(Current, Say("user", 1))
          /\ \A r \in Run : r # 1 => phase[r] = "none"
      BY <1>0, <2>2, BecomesSession
    <3>2. Current = queue[1] /\ 1 \in DOMAIN queue /\ Current.run = 1
      BY <1>0, <3>1, AtHead, HeadQueued
    <3>3. queue[k].run \in Run /\ phase[queue[k].run] = "queued"
      BY <1>0, <1>2, InQueue, JobEntries DEF QueuedJobs
    <3>4. queue[k].run = 1
      BY <3>1, <3>3
    <3>5. k = 1
      BY <1>0, <1>2, <3>2, <3>4 DEF InOrder, OneJob
    <3> QED
      BY <3>1, <3>2, <3>5
  <2> QED
    BY <2>1, <2>2
<1>3. ASSUME AppendLands \/ (queue # <<>> /\ Len(Current.entries) = 1 /\ Lands)
      PROVE  Lands /\ Logs(First)
  <2>1. AppendLands => Lands
    <3>1. AppendLands => queue # <<>> /\ window # "down" /\ Len(Current.entries) > 1
      BY DEF AppendLands, Writing
    <3>2. AppendLands => First \in Entry /\ First \in Line
      BY <1>0, <3>1, AtHead, JobAdvance
    <3> QED
      BY <3>1, <3>2 DEF AppendLands, Lands, countVars
  <2> QED
    BY <1>0, <1>1, <1>3, <2>1, NewLine DEF Lands
<1>4. ASSUME NEW k \in DOMAIN queue', queue'[k].op \in {"start", "send"}
      PROVE  \/ Holds(queue'[k], Say("user", queue'[k].run))
             \/ Logs(Say("user", queue'[k].run))
  <2>1. PICK d \in {0, 1} : Requeued(d)
    BY <1>0, Shift
  <2>2. CASE k + d \in DOMAIN queue /\ Stems(queue'[k], queue[k + d])
    <3> DEFINE old == queue[k + d]
               e == Say("user", old.run)
    <3>1. old.op \in {"start", "send"} /\ queue'[k].run = old.run
      BY <1>4, <2>2 DEF Stems
    <3>2. Holds(old, e) \/ Logged(e)
      BY <1>2, <2>2, <3>1
    <3>3. Logged(e) => Logs(e)
      BY <1>0, KeepsLines
    <3>4. Holds(old, e) => Holds(queue'[k], e) \/ (AppendLands /\ e = First)
      BY <2>2 DEF Stems
    <3>5. AppendLands => Logs(First)
      BY <1>3
    <3> HIDE DEF e
    <3>6. Holds(queue'[k], e) \/ Logs(e)
      BY <3>2, <3>3, <3>4, <3>5
    <3> QED
      BY <3>1, <3>6 DEF e
  <2>3. CASE NewJob(queue'[k])
    <3>1. \/ queue'[k] = Job("start", 1, <<Header, Say("user", 1), Titled("query")>>)
          \/ \E r : queue'[k] = Job("send", r, <<Say("user", r), Status>>)
      BY <1>4, <2>3 DEF NewJob, Job, Patch, Persist
    <3>2. CASE queue'[k] = Job("start", 1, <<Header, Say("user", 1), Titled("query")>>)
      BY <3>2 DEF Job, Holds
    <3>3. CASE \E r : queue'[k] = Job("send", r, <<Say("user", r), Status>>)
      BY <3>3 DEF Job, Holds
    <3> QED
      BY <3>1, <3>2, <3>3
  <2> QED
    BY <2>1, <2>2, <2>3 DEF Requeued
<1>5. ASSUME NEW r \in started', source'[r] = 0 PROVE Logs(Say("user", r))
  <2>0. r \in Run
    BY <1>0 DEF RunType
  <2>1. CASE r \in started
    <3>1. Loads(file)
      BY <1>0, <2>1, BecomesSession
    <3>2. phase[r] \in {"live", "over"}
      BY <1>0, <2>1 DEF StartedRan
    <3>3. source[r] = 0
      BY <1>0, <1>5, <2>0, <3>2, Moves, Stages
    <3>4. Logged(Say("user", r))
      BY <1>0, <1>1, <2>1, <3>1, <3>3 DEF QuestionFirst
    <3> QED
      BY <1>0, <3>4, KeepsLines
  <2>2. CASE Begins(r)
    <3>1. queue # <<>> /\ r = Current.run /\ Len(Current.entries) = 1
          /\ Current.op \in {"start", "send", "resume"} /\ phase[r] = "queued"
      BY <1>0, <2>0, <2>2, Stages DEF Begins
    <3>2. Current = queue[1] /\ 1 \in DOMAIN queue /\ Current \in Jobs
      BY <1>0, <3>1, AtHead
    <3>3. source[r] = 0
      BY <1>0, <1>5, <2>0, <3>1, Moves, Stages
    <3>4. Current.op \in {"start", "send"}
      BY <1>0, <3>1, <3>2, <3>3 DEF SourcedJobs
    <3>5. ~Holds(Current, Say("user", r))
      BY <3>1, <3>2, JobOrder, JobEntries, Kinds DEF Holds
    <3>6. Logged(Say("user", r))
      BY <1>2, <3>1, <3>2, <3>4, <3>5
    <3> QED
      BY <1>0, <3>6, KeepsLines
  <2> QED
    BY <1>0, <2>0, <2>1, <2>2, Moves
<1> QED
  BY <1>4, <1>5

(* Every step keeps the questions ahead of their replies, queued and logged. *)
LEMMA AnswersStep ==
  ASSUME Answers, [Next]_vars
  PROVE  Answers'
<1>0. /\ History /\ IType /\ InOrder /\ QueueType /\ FileType /\ RunType /\ QueuedJobs /\ StartedRan
      /\ RepliesStarted /\ QuestionFirst /\ ClosedUntorn /\ ReplyFollowsQuestion
  BY DEF Answers, History, Order, IType, InOrder
<1>1. ReplyFollowsQuestion'
  <2> SUFFICES ASSUME torn' = 0, Loads(file'), NEW j \in DOMAIN file'.lines,
                      file'.lines[j].kind = "message", file'.lines[j].role # "user",
                      source'[file'.lines[j].run] = 0
               PROVE  \E i \in 1..(j - 1) : file'.lines[i] = Say("user", file'.lines[j].run)
    BY DEF ReplyFollowsQuestion
  <2> DEFINE line == file'.lines[j]
             r == line.run
  <2>1. torn = 0 /\ file.closed /\ (Keeps \/ Lands \/ Removes \/ Unheard)
    BY <1>0, Untorn
  <2>2. line \in Line
    BY FileStep, <1>0, FileParts DEF FileType
  <2>3. r \in Run /\ line = Say("assistant", r)
    BY <2>2, EntryKinds
  <2>4. ~Removes
    BY FileParts DEF Removes, Loads
  <2>5. ASSUME j \in DOMAIN file.lines, file.lines[j] = line, Loads(file)
        PROVE  \E i \in 1..(j - 1) : file.lines[i] = Say("user", r)
    <3>1. r \in started
      BY <1>0, <2>3, <2>5 DEF RepliesStarted, Logged
    <3>2. source[r] = 0
      BY <1>0, <2>3, <3>1, Moves, Stages DEF StartedRan
    <3> QED
      BY <1>0, <2>1, <2>5, <3>2 DEF ReplyFollowsQuestion
  <2>6. CASE Keeps
    <3>1. file' = file
      BY <2>6 DEF Keeps
    <3> QED
      BY <2>5, <3>1
  <2>7. CASE Lands \/ Unheard
    <3>1. First \in Line /\ First \in Entry /\ queue # <<>> /\ file' = Appended(file, First)
      BY <2>7 DEF Lands, Unheard
    <3>2. /\ \A i \in DOMAIN file.lines : i \in DOMAIN file'.lines /\ file'.lines[i] = file.lines[i]
          /\ \/ j \in DOMAIN file.lines /\ line = file.lines[j]
             \/ j = Len(file.lines) + 1 /\ line = First
          /\ Len(file.lines) \in Nat /\ DOMAIN file.lines = 1..Len(file.lines)
      BY <1>0, <2>1, <3>1, NewLine
    <3>3. CASE ~Loads(file)
      <4>1. file.lines = <<>> /\ First = Header
        BY <1>0, <3>3, BecomesSession
      <4>2. DOMAIN file.lines = {}
        BY <4>1
      <4> QED
        BY <3>2, <4>1, <4>2, Kinds
    <3>4. CASE Loads(file) /\ j \in DOMAIN file.lines /\ line = file.lines[j]
      <4>1. PICK i \in 1..(j - 1) : file.lines[i] = Say("user", r)
        BY <2>5, <3>4
      <4>2. i \in DOMAIN file.lines
        BY <3>2, <3>4
      <4> QED
        BY <3>2, <4>1, <4>2
    <3>5. CASE Loads(file) /\ j = Len(file.lines) + 1 /\ line = First
      <4>1. Pending(Say("assistant", r))
        <5>1. Current = queue[1] /\ 1 \in DOMAIN queue /\ Holds(Current, First)
          BY <1>0, <3>1, AtHead
        <5> QED
          BY <2>3, <3>5, <5>1 DEF Pending
      <4>2. r \in started
        BY <1>0, <2>3, <4>1 DEF RepliesStarted
      <4>3. source[r] = 0
        BY <1>0, <2>3, <4>2, Moves, Stages DEF StartedRan
      <4>4. PICK i \in DOMAIN file.lines : file.lines[i] = Say("user", r)
        BY <1>0, <2>1, <3>5, <4>2, <4>3 DEF QuestionFirst, Logged
      <4>5. i \in 1..(j - 1)
        BY <3>2, <3>5, <4>4
      <4> QED
        BY <3>2, <4>4, <4>5
    <3> QED
      BY <3>2, <3>3, <3>4, <3>5
  <2> QED
    BY <2>1, <2>4, <2>6, <2>7
<1> QED
  BY <1>0, <1>1, HistoryStep, QuestionStep DEF Answers

(* The provider starts with nothing asked and nothing answered. *)
LEMMA AnswersInit == Init => Answers
<1> SUFFICES ASSUME Init PROVE Answers
  OBVIOUS
<1>1. file = NoFile
  BY DEF Init
<1>2. ~Loads(file)
  BY <1>1, FileParts DEF Loads
<1> QED
  BY <1>2, HistoryInit DEF Answers, QuestionFirst, ReplyFollowsQuestion

(* What a run says is in the log after the message that asked for it, even when appends *)
(* fail or land with nobody left to hear of it.                                         *)
THEOREM RepliesFollow == Spec => []ReplyFollowsQuestion
<1>1. Init => Answers
  BY AnswersInit
<1>2. Answers /\ [Next]_vars => Answers'
  BY AnswersStep
<1>3. Answers => ReplyFollowsQuestion
  BY DEF Answers
<1> QED
  BY <1>1, <1>2, <1>3, PTL DEF Spec

-----------------------------------------------------------------------------
(* Messages.  A message is said by one job, and acknowledged at most once: as long as a *)
(* job still holds it, it is not acknowledged.                                          *)
SaysAsked == \A r \in Run : Say("user", r) \in landed => phase[r] # "none"
RepliesOver ==
  \A r \in Run : Pending(Say("assistant", r)) \/ Say("assistant", r) \in landed => phase[r] = "over"
SayOnce ==
  \A m \in Message :
    /\ Pending(m) => m \notin landed
    /\ \A k, l \in DOMAIN queue : Holds(queue[k], m) /\ Holds(queue[l], m) => k = l
Once == History /\ SaysAsked /\ RepliesOver /\ SayOnce

(* The question of a run is pending only as long as the run is queued. *)
LEMMA QuestionQueued ==
  ASSUME QueueType, QueuedJobs, NEW r \in Run, Pending(Say("user", r))
  PROVE  phase[r] = "queued"
<1>1. PICK k \in DOMAIN queue : Holds(queue[k], Say("user", r))
  BY DEF Pending
<1>2. PICK i \in DOMAIN queue[k].entries : queue[k].entries[i] = Say("user", r)
  BY <1>1 DEF Holds
<1>3. queue[k] \in Jobs
  BY InQueue
<1>4. queue[k].run = r /\ r # 0
  BY <1>2, <1>3, JobOrder, Kinds DEF Run
<1> QED
  BY <1>4 DEF QueuedJobs

(* A new message is that of a run that enters or of one that ends. *)
LEMMA NewMessages ==
  ASSUME NEW job, NewJob(job), NEW m \in Message, Holds(job, m)
  PROVE  \/ \E r \in Run : m = Say("user", r) /\ Asks(r)
         \/ \E r \in Run : m = Say("assistant", r) /\ Finishes(r)
<1>1. m.kind = "message"
  BY EntryKinds
<1>2. m # Header /\ m # Tombstone /\ \A r : m # Paused(r)
  BY <1>1, Kinds
<1> QED
  BY <1>1, <1>2, NewEntries

(* What is acknowledged now was at the head of the queue, and is in it no more. *)
LEMMA Acknowledged ==
  ASSUME IType, [Next]_vars, NEW m, m \in landed', m \notin landed
  PROVE  /\ Lands /\ m = First /\ queue # <<>>
         /\ \/ AppendLands
            \/ queue' = Tail(queue) \/ queue' = Append(Tail(queue), Patch(Tombstone))
<1>1. Lands /\ m = First
  BY Writes DEF Keeps, Lands, Removes, CutsOff, Unheard
<1>2. AppendLands \/ Settles
  BY Shapes DEF Grows, WriteFails, Exit
<1> QED
  BY <1>1, <1>2 DEF Lands, Settles

(* No step logs or queues a message that is already logged. *)
LEMMA OnceStep ==
  ASSUME Once, [Next]_vars
  PROVE  Once'
<1>0. /\ History /\ IType /\ InOrder /\ QueueType /\ QueueType' /\ FileType /\ RunType
      /\ QueuedJobs /\ LandedType
      /\ SaysAsked /\ RepliesOver /\ SayOnce
  BY QueueStep DEF Once, History, Order, IType, InOrder
<1>a. ASSUME queue # <<>>
      PROVE  Current = queue[1] /\ 1 \in DOMAIN queue /\ Pending(First) /\ Holds(queue[1], First)
  BY <1>0, <1>a, AtHead DEF Pending
<1>1. SaysAsked'
  <2> SUFFICES ASSUME NEW r \in Run, Say("user", r) \in landed' PROVE phase'[r] # "none"
    BY DEF SaysAsked
  <2>1. phase[r] # "none"
    <3>1. CASE Say("user", r) \in landed
      BY <1>0, <3>1 DEF SaysAsked
    <3>2. CASE Say("user", r) \notin landed
      <4>1. Pending(Say("user", r))
        BY <1>0, <1>a, <3>2, Acknowledged
      <4> QED
        BY <1>0, <4>1, QuestionQueued
    <3> QED
      BY <3>1, <3>2
  <2> QED
    BY <1>0, <2>1, Stages DEF Begins, Finishes, RunType, Stage
<1>2. RepliesOver'
  <2> SUFFICES ASSUME NEW r \in Run, Pending(Say("assistant", r))' \/ Say("assistant", r) \in landed'
               PROVE  phase'[r] = "over"
    BY DEF RepliesOver
  <2>1. CASE Pending(Say("assistant", r)) \/ Say("assistant", r) \in landed
    BY <1>0, <2>1, Stages DEF RepliesOver
  <2>2. CASE Say("assistant", r) \in landed' /\ Say("assistant", r) \notin landed
    <3>1. Pending(Say("assistant", r))
      BY <1>0, <1>a, <2>2, Acknowledged
    <3> QED
      BY <2>1, <3>1
  <2>3. ASSUME NEW job, NewJob(job), Holds(job, Say("assistant", r)) PROVE phase'[r] = "over"
    <3>1. Say("assistant", r) \in Message
      BY Entries
    <3>2. Finishes(r)
      BY <2>3, <3>1, NewMessages, Kinds
    <3> QED
      BY <3>2 DEF Finishes
  <2>4. Pending(Say("assistant", r))' =>
          Pending(Say("assistant", r)) \/ \E job : NewJob(job) /\ Holds(job, Say("assistant", r))
    BY <1>0, PendingStep
  <2> QED
    BY <2>1, <2>2, <2>3, <2>4
<1>3. SayOnce'
  <2> SUFFICES ASSUME NEW m \in Message
               PROVE  /\ Pending(m)' => m \notin landed'
                      /\ \A k, l \in DOMAIN queue' : Holds(queue'[k], m) /\ Holds(queue'[l], m) => k = l
    BY DEF SayOnce
  <2>1. PICK d \in {0, 1} :
          /\ Requeued(d) /\ NewOnce(d)
          /\ AppendLands => d = 0 /\ ~Holds(queue'[1], First)
          /\ ~AppendLands /\ Leaves => d = 1
    <3>1. CASE AppendLands
      BY <1>0, <3>1, Advanced
    <3>2. CASE ~AppendLands /\ Leaves
      BY <1>0, <3>2, Left DEF Leaves
    <3>3. CASE ~AppendLands /\ ~Leaves
      BY <1>0, <3>3, Shift
    <3> QED
      BY <3>1, <3>2, <3>3
  <2>2. ASSUME NEW k \in DOMAIN queue', Holds(queue'[k], m)
        PROVE  /\ k \in Nat /\ k >= 1 /\ m.kind = "message"
               /\ \/ k + d \in DOMAIN queue /\ Holds(queue[k + d], m)
                  \/ k + d > Len(queue) /\ NewJob(queue'[k])
    <3>1. k \in Nat /\ k >= 1
      BY <1>0, <2>2 DEF QueueType
    <3> QED
      BY <2>1, <2>2, <3>1, EntryKinds DEF Requeued, Stems
  <2>3. ASSUME NEW job, NewJob(job), Holds(job, m) PROVE m \notin landed /\ ~Pending(m)
    <3>1. ASSUME NEW r \in Run, m = Say("user", r), Asks(r) PROVE m \notin landed /\ ~Pending(m)
      <4>1. phase[r] = "none"
        BY <1>0, <3>1, Stages
      <4> QED
        BY <1>0, <3>1, <4>1, QuestionQueued DEF SaysAsked
    <3>2. ASSUME NEW r \in Run, m = Say("assistant", r), Finishes(r)
          PROVE  m \notin landed /\ ~Pending(m)
      BY <1>0, <3>2 DEF RepliesOver, Finishes
    <3> QED
      BY <2>3, <3>1, <3>2, NewMessages
  <2>4. ASSUME NEW k \in DOMAIN queue', Holds(queue'[k], m), m \in landed' PROVE FALSE
    <3>1. m \notin landed
      BY <1>0, <2>2, <2>3, <2>4 DEF SayOnce, Pending
    <3>2. m = First /\ queue # <<>> /\ (AppendLands \/ Leaves)
      BY <1>0, <2>4, <3>1, Acknowledged DEF Leaves
    <3>3. k + d \in DOMAIN queue /\ Holds(queue[k + d], m)
      BY <1>a, <2>2, <2>3, <2>4, <3>2
    <3>4. k + d = 1
      BY <1>0, <1>a, <3>2, <3>3 DEF SayOnce
    <3> QED
      BY <2>1, <2>2, <2>4, <3>2, <3>4
  <2>5. ASSUME NEW k \in DOMAIN queue', NEW l \in DOMAIN queue',
               Holds(queue'[k], m), Holds(queue'[l], m)
        PROVE  k = l
    <3>1. CASE /\ k + d \in DOMAIN queue /\ Holds(queue[k + d], m)
               /\ l + d \in DOMAIN queue /\ Holds(queue[l + d], m)
      <4>1. k + d = l + d
        BY <1>0, <3>1 DEF SayOnce
      <4> QED
        BY <2>2, <2>5, <4>1
    <3>2. CASE k + d > Len(queue) /\ l + d > Len(queue)
      BY <2>1, <2>2, <2>5, <3>2 DEF NewOnce
    <3>3. CASE NewJob(queue'[k]) \/ NewJob(queue'[l])
      <4>1. ~Pending(m)
        BY <2>3, <2>5, <3>3
      <4> QED
        BY <2>2, <2>5, <3>2, <4>1 DEF Pending
    <3> QED
      BY <2>2, <2>5, <3>1, <3>3
  <2> QED
    BY <2>4, <2>5 DEF Pending
<1> QED
  BY <1>0, <1>1, <1>2, <1>3, HistoryStep DEF Once

-----------------------------------------------------------------------------
(* Losses.  An open line is one whose append nobody acknowledged; the next append costs *)
(* that line and its own entry, and the cut that left it open has paid for one of them. *)
OpenUnheard ==
  ~file.closed => file.lines # <<>> /\ file.lines[Len(file.lines)] \notin landed
Lost == landed \ FoldedMessages(file)
Debt == IF file.closed THEN 0 ELSE 1
LossPaid == Loads(file) => Cardinality(Lost) + Debt <= torn
Paid == Once /\ OpenUnheard /\ LossPaid

(* What an append does to the messages that the file folds to. *)
LEMMA FoldsOn ==
  ASSUME NEW f \in File, NEW e \in Line, NEW g, g.lines = Joined(f, e)
  PROVE  /\ f.closed => FoldedMessages(f) \subseteq FoldedMessages(g)
         /\ f.closed /\ e.kind = "message" => e \in FoldedMessages(g)
         /\ f.closed => g.lines # <<>> /\ g.lines[Len(g.lines)] = e
         /\ ~f.closed => \A m \in FoldedMessages(f) :
                            m # f.lines[Len(f.lines)] => m \in FoldedMessages(g)
         /\ ~f.closed /\ f.lines # <<>> => g.lines # <<>> /\ g.lines[Len(g.lines)] = Garbage
<1>1. f.lines \in Seq(Line) /\ Len(f.lines) \in Nat /\ DOMAIN f.lines = 1..Len(f.lines)
      /\ (f.lines = <<>> <=> Len(f.lines) = 0) /\ Joined(f, e) \in Seq(Line)
      /\ (Joined(f, e) = <<>> <=> Len(Joined(f, e)) = 0)
  BY FileParts, Joins, EmptySeq
<1>2. CASE f.closed
  <2>1. /\ \A j \in DOMAIN f.lines : j \in DOMAIN g.lines /\ g.lines[j] = f.lines[j]
        /\ Len(f.lines) + 1 \in DOMAIN g.lines /\ g.lines[Len(f.lines) + 1] = e
        /\ Len(g.lines) = Len(f.lines) + 1
    BY <1>2, Joins
  <2>2. FoldedMessages(f) \subseteq FoldedMessages(g)
    BY <2>1 DEF FoldedMessages
  <2>3. e.kind = "message" => e \in FoldedMessages(g)
    BY <2>1 DEF FoldedMessages
  <2> QED
    BY <1>1, <1>2, <2>1, <2>2, <2>3
<1>3. CASE ~f.closed
  <2>1. /\ DOMAIN g.lines = DOMAIN f.lines /\ Len(g.lines) = Len(f.lines)
        /\ \A j \in DOMAIN f.lines : g.lines[j] = IF j = Len(f.lines) THEN Garbage ELSE f.lines[j]
    BY <1>3, Joins
  <2>2. ASSUME NEW m \in FoldedMessages(f), m # f.lines[Len(f.lines)] PROVE m \in FoldedMessages(g)
    <3>1. PICK i \in DOMAIN f.lines : f.lines[i].kind = "message" /\ m = f.lines[i]
      BY DEF FoldedMessages
    <3>2. g.lines[i] = f.lines[i] /\ i \in DOMAIN g.lines
      BY <2>1, <2>2, <3>1
    <3> QED
      BY <3>1, <3>2 DEF FoldedMessages
  <2> QED
    BY <1>1, <1>3, <2>1, <2>2
<1> QED
  BY <1>2, <1>3

(* Nothing is acknowledged before the header is there. *)
LEMMA NothingYet ==
  ASSUME Once, [Next]_vars, Loads(file'), ~Loads(file)
  PROVE  landed = {} /\ landed' = {}
<1>0. /\ History /\ IType /\ QueueType /\ QueuedJobs /\ SaysAsked /\ RepliesOver /\ SayOnce
      /\ LandedType
      /\ 1 \in Run
  BY SessionLogAssumption DEF Once, History, Order, IType, InOrder, Run
<1>1. /\ queue # <<>> /\ First = Header /\ Current.op = "start" /\ Holds(Current, Say("user", 1))
      /\ Lands \/ Unheard \/ CutsOff
      /\ \A r \in Run : r # 1 => phase[r] = "none"
  BY <1>0, BecomesSession
<1>2. phase[1] = "queued" /\ Current = queue[1] /\ 1 \in DOMAIN queue
  BY <1>0, <1>1, HeadQueued, AtHead
<1>3. landed = {}
  <2> SUFFICES ASSUME NEW m \in landed PROVE FALSE
    OBVIOUS
  <2>1. m \in Message
    BY <1>0 DEF LandedType
  <2>2. \E r \in Run : m = Say("user", r) \/ m = Say("assistant", r)
    BY <2>1, EntryKinds
  <2>3. PICK r \in Run : m = Say("user", r) \/ m = Say("assistant", r)
    BY <2>2
  <2>4. CASE m = Say("assistant", r)
    <3>1. phase[r] = "over"
      BY <1>0, <2>4 DEF RepliesOver
    <3> QED
      BY <1>1, <1>2, <3>1
  <2>5. CASE m = Say("user", r)
    <3>1. phase[r] # "none"
      BY <1>0, <2>5 DEF SaysAsked
    <3>2. r = 1
      BY <1>1, <3>1
    <3>3. Pending(m)
      BY <1>1, <1>2, <2>5, <3>2 DEF Pending
    <3> QED
      BY <1>0, <2>1, <3>3 DEF SayOnce
  <2> QED
    BY <2>3, <2>4, <2>5
<1>4. landed' = landed
  <2>1. First.kind # "message"
    BY <1>1, Kinds
  <2> QED
    BY <1>1, <2>1 DEF Lands, Unheard, CutsOff
<1> QED
  BY <1>3, <1>4

(* Sets of messages are finite. *)
LEMMA Finite ==
  ASSUME NEW S \in SUBSET Message
  PROVE  IsFiniteSet(S) /\ Cardinality(S) \in Nat
<1>1. IsFiniteSet(Run)
  BY SessionLogAssumption, FS_Interval DEF Run
<1>2. IsFiniteSet({Say("user", r) : r \in Run}) /\ IsFiniteSet({Say("assistant", r) : r \in Run})
  <2> SUFFICES ASSUME NEW role \in {"user", "assistant"}
               PROVE  IsFiniteSet({Say(role, r) : r \in Run})
    OBVIOUS
  <2>1. [r \in Run |-> Say(role, r)] \in Surjection(Run, {Say(role, r) : r \in Run})
    BY DEF Surjection
  <2> QED
    BY <1>1, <2>1, FS_Surjection
<1>3. IsFiniteSet({Say("user", r) : r \in Run} \cup {Say("assistant", r) : r \in Run})
  BY <1>2, FS_Union
<1>4. S \subseteq {Say("user", r) : r \in Run} \cup {Say("assistant", r) : r \in Run}
  BY EntryKinds
<1> QED
  BY <1>3, <1>4, FS_Subset, FS_CardinalityType

(* How the number of messages grows with the set. *)
LEMMA Grown ==
  ASSUME NEW S \in SUBSET Message, NEW T \in SUBSET Message
  PROVE  /\ T \subseteq S => Cardinality(T) <= Cardinality(S)
         /\ \A x : T \subseteq S \cup {x} => Cardinality(T) <= Cardinality(S) + 1
         /\ Cardinality(S) \in Nat /\ Cardinality(T) \in Nat
<1>1. IsFiniteSet(S) /\ Cardinality(S) \in Nat /\ IsFiniteSet(T) /\ Cardinality(T) \in Nat
  BY Finite
<1>2. T \subseteq S => Cardinality(T) <= Cardinality(S)
  BY <1>1, FS_Subset
<1>3. ASSUME NEW x, T \subseteq S \cup {x} PROVE Cardinality(T) <= Cardinality(S) + 1
  <2>1. IsFiniteSet(S \cup {x}) /\ Cardinality(S \cup {x}) <= Cardinality(S) + 1
        /\ Cardinality(S \cup {x}) \in Nat
    <3>1. /\ IsFiniteSet(S \cup {x})
          /\ Cardinality(S \cup {x}) = IF x \in S THEN Cardinality(S) ELSE Cardinality(S) + 1
      BY <1>1, FS_AddElement
    <3> QED
      BY <1>1, <3>1
  <2>2. Cardinality(T) <= Cardinality(S \cup {x})
    BY <1>3, <2>1, FS_Subset
  <2> QED
    BY <1>1, <2>1, <2>2
<1> QED
  BY <1>1, <1>2, <1>3

(* Every step pays for the messages it loses: a failed write or a torn line each. *)
LEMMA PaidStep ==
  ASSUME Paid, [Next]_vars
  PROVE  Paid'
<1>0. /\ Once /\ History /\ IType /\ QueueType /\ FileType /\ LandedType /\ SayOnce
      /\ OpenUnheard /\ LossPaid
      /\ file \in File /\ Garbage \in Line
  BY Entries DEF Paid, Once, History, Order, IType, FileType
<1>1. Once' /\ file' \in File /\ landed' \subseteq Message /\ torn \in Nat /\ torn' \in Nat
  BY <1>0, OnceStep, FileStep, CountStep DEF Paid, FileType, LandedType, IType, CountType
<1>2. Lost \in SUBSET Message /\ Lost' \in SUBSET Message
  BY <1>0, <1>1 DEF Lost, LandedType
<1>a. landed' = landed \/ (Lands /\ landed' = landed \cup {First} /\ First.kind = "message")
  BY Writes, <1>0 DEF Keeps, Lands, Removes, CutsOff, Unheard
<1>b. ASSUME queue # <<>>, First \in Entry
      PROVE  First \in Line /\ (First.kind = "message" => First \notin landed)
  <2>0. First \in Line /\ Holds(Current, First) /\ Current = queue[1] /\ 1 \in DOMAIN queue
        /\ First # Remove
    BY <1>0, <1>b, AtHead, EntryKinds
  <2>1. First \in Line /\ Pending(First)
    BY <2>0, Zenon DEF Pending
  <2> QED
    BY <1>0, <2>1, EntryKinds DEF SayOnce
<1>c. Garbage \notin landed /\ Garbage \notin landed'
  <2>1. \A m \in Message : m # Garbage
    BY EntryKinds, Kinds
  <2> QED
    BY <1>0, <1>1, <2>1 DEF LandedType
<1>3. OpenUnheard'
  <2> SUFFICES ASSUME ~file'.closed
               PROVE  file'.lines # <<>> /\ file'.lines[Len(file'.lines)] \notin landed'
    BY DEF OpenUnheard
  <2>1. CASE Keeps
    BY <1>0, <2>1 DEF Keeps, OpenUnheard
  <2>2. CASE CutsOff
    <3>1. First \in Line /\ landed' = landed /\ queue # <<>> /\ First \in Entry
      BY <2>2 DEF CutsOff
    <3>2. PICK e \in {First, Garbage} : file'.lines = Joined(file, e) /\ e \in Line
      BY <1>0, <2>2, <3>1, FileParts DEF CutsOff
    <3>3. e \notin landed
      <4>1. CASE e = Garbage
        BY <1>c, <4>1
      <4>2. CASE e = First
        <5>1. \A m \in landed : m.kind = "message"
          BY <1>0, EntryKinds DEF LandedType
        <5> QED
          BY <1>b, <3>1, <4>2, <5>1
      <4> QED
        BY <4>1, <4>2
    <3>4. CASE file.closed
      BY <1>0, <3>1, <3>2, <3>3, <3>4, FoldsOn
    <3>5. CASE ~file.closed
      BY <1>0, <1>c, <3>1, <3>2, <3>5, FoldsOn DEF OpenUnheard
    <3> QED
      BY <3>4, <3>5
  <2>3. CASE Lands \/ Unheard \/ Removes
    BY <1>0, <2>3, FileParts DEF Lands, Unheard, Removes
  <2> QED
    BY <1>0, <2>1, <2>2, <2>3, Writes
<1>4. ASSUME Loads(file') PROVE Cardinality(Lost') + Debt' <= torn'
  <2>0. Debt \in {0, 1} /\ Debt' \in {0, 1} /\ (file'.closed => Debt' = 0)
        /\ (file.closed => Debt = 0) /\ (~file.closed => Debt = 1)
    BY DEF Debt
  <2>b. /\ Cardinality(Lost) \in Nat /\ Cardinality(Lost') \in Nat
        /\ Lost' \subseteq Lost => Cardinality(Lost') <= Cardinality(Lost)
        /\ \A x : Lost' \subseteq Lost \cup {x} => Cardinality(Lost') <= Cardinality(Lost) + 1
    BY <1>2, Grown
  <2>1. CASE ~Loads(file)
    <3>1. Lost' = {} /\ file.closed
      BY <1>0, <1>4, <2>1, NothingYet, BecomesSession DEF Lost
    <3>2. Cardinality(Lost') = 0
      BY <3>1, FS_EmptySet
    <3>3. Lands \/ Unheard \/ CutsOff
      BY <1>0, <1>4, <2>1, BecomesSession
    <3>4. CASE Lands \/ Unheard
      <4>1. file'.closed
        BY <1>0, <3>4, FileParts DEF Lands, Unheard
      <4>2. Debt' = 0
        BY <2>0, <4>1
      <4> QED
        BY <1>1, <3>2, <4>2
    <3>5. CASE CutsOff
      <4>1. file' # file
        BY <1>4, <2>1
      <4>2. torn' = torn + 1
        BY <3>5, <4>1 DEF CutsOff
      <4>3. torn \in Nat /\ Debt' <= 1
        BY <1>1, <2>0
      <4>4. Debt' \in {0, 1} /\ Debt' <= torn'
        BY <2>0, <4>2, <4>3
      <4> QED
        BY <3>2, <4>4
    <3> QED
      BY <3>3, <3>4, <3>5
  <2>2. CASE Loads(file)
    <3>0. Cardinality(Lost) + Debt <= torn
      BY <1>0, <2>2 DEF LossPaid
    <3>a. ~file.closed => file.lines[Len(file.lines)] \notin landed
      BY <1>0 DEF OpenUnheard
    <3>b. ASSUME NEW e \in Line, file'.lines = Joined(file, e), landed' = landed
          PROVE  Lost' \subseteq Lost
      <4>1. \A m \in FoldedMessages(file) : m \in landed => m \in FoldedMessages(file')
        <5>1. CASE file.closed
          BY <1>0, <3>b, <5>1, FoldsOn
        <5>2. CASE ~file.closed
          BY <1>0, <3>a, <3>b, <5>2, FoldsOn
        <5> QED
          BY <5>1, <5>2
      <4> QED
        BY <3>b, <4>1 DEF Lost
    <3>1. CASE Keeps
      <4>1. file' = file /\ landed' = landed /\ torn' = torn
        BY <3>1 DEF Keeps
      <4>2. Lost' = Lost /\ Debt' = Debt
        BY <4>1 DEF Lost, Debt, FoldedMessages
      <4> QED
        BY <3>0, <4>1, <4>2
    <3>2. CASE Removes
      BY <1>4, <3>2, FileParts DEF Removes, Loads
    <3>3. CASE Unheard
      <4>1. First \in Line /\ file'.lines = Joined(file, First) /\ file'.closed
            /\ landed' = landed /\ torn' = torn
        BY <1>0, <3>3, FileParts DEF Unheard
      <4>2. Lost' \subseteq Lost
        BY <3>b, <4>1
      <4> QED
        BY <1>1, <2>0, <2>b, <3>0, <4>1, <4>2
    <3>4. CASE CutsOff
      <4>1. First \in Line /\ landed' = landed /\ torn' = (IF file' = file THEN torn ELSE torn + 1)
            /\ (file'.lines = Joined(file, First) \/ file'.lines = Joined(file, Garbage))
        BY <1>0, <3>4, FileParts DEF CutsOff
      <4>2. Lost' \subseteq Lost
        BY <1>0, <3>b, <4>1
      <4>3. CASE file' = file
        <5>1. Debt' = Debt
          BY <4>3 DEF Debt
        <5> QED
          BY <1>1, <2>0, <2>b, <3>0, <4>1, <4>2, <4>3, <5>1
      <4>4. CASE file' # file
        BY <1>1, <2>0, <2>b, <3>0, <4>1, <4>2, <4>4
      <4> QED
        BY <4>3, <4>4
    <3>5. CASE Lands
      <4>1. First \in Line /\ First \in Entry /\ queue # <<>>
            /\ file'.lines = Joined(file, First) /\ file'.closed /\ torn' = torn
        BY <1>0, <3>5, FileParts DEF Lands
      <4>2. landed' \subseteq landed \cup {First}
        BY <1>a
      <4>3. CASE ~file.closed
        <5>1. \A m \in FoldedMessages(file) : m \in landed => m \in FoldedMessages(file')
          BY <1>0, <3>a, <4>1, <4>3, FoldsOn
        <5>2. Lost' \subseteq Lost \cup {First}
          BY <4>2, <5>1 DEF Lost
        <5>3. Cardinality(Lost') <= Cardinality(Lost) + 1
          BY <2>b, <5>2
        <5>4. Debt = 1 /\ Debt' = 0
          BY <2>0, <4>1, <4>3
        <5> QED
          BY <1>1, <2>b, <3>0, <4>1, <5>3, <5>4
      <4>4. CASE file.closed
        <5>1. FoldedMessages(file) \subseteq FoldedMessages(file')
          BY <1>0, <4>1, <4>4, FoldsOn
        <5>2. First.kind = "message" => First \in FoldedMessages(file')
          BY <1>0, <4>1, <4>4, FoldsOn
        <5>3. Lost' \subseteq Lost
          BY <1>a, <5>1, <5>2 DEF Lost
        <5> QED
          BY <1>1, <2>0, <2>b, <3>0, <4>1, <5>3
      <4> QED
        BY <4>3, <4>4
    <3> QED
      BY <1>0, <3>1, <3>2, <3>3, <3>4, <3>5, Writes
  <2> QED
    BY <2>1, <2>2
<1>5. LossPaid'
  BY <1>4 DEF LossPaid
<1> QED
  BY <1>1, <1>3, <1>5 DEF Paid

(* An append cut short costs at most one acknowledged message, the one glued to it, as  *)
(* long as the header survives.                                                         *)
THEOREM LossIsBounded == Spec => []LossBounded
<1>1. Init => Paid
  <2> SUFFICES ASSUME Init PROVE Paid
    OBVIOUS
  <2>1. file = NoFile /\ landed = {} /\ queue = <<>>
    BY DEF Init
  <2>2. ~Loads(file) /\ file.closed
    BY <2>1, FileParts DEF Loads
  <2>3. SaysAsked /\ RepliesOver /\ SayOnce
    BY <2>1 DEF SaysAsked, RepliesOver, SayOnce, Pending
  <2> QED
    BY <2>2, <2>3, HistoryInit DEF Paid, Once, OpenUnheard, LossPaid
<1>2. Paid /\ [Next]_vars => Paid'
  BY PaidStep
<1>3. Paid => LossBounded
  <2> SUFFICES ASSUME Paid, Loads(file) PROVE Cardinality(landed \ FoldedMessages(file)) <= torn
    BY DEF LossBounded
  <2>1. Cardinality(Lost) + Debt <= torn /\ torn \in Nat /\ Lost \in SUBSET Message
    BY DEF Paid, LossPaid, Once, History, Order, IType, CountType, LandedType, Lost
  <2>2. Cardinality(Lost) \in Nat /\ Debt \in {0, 1}
    BY <2>1, Finite DEF Debt
  <2>3. Cardinality(Lost) <= torn
    BY <2>1, <2>2
  <2> QED
    BY <2>3 DEF Lost
<1> QED
  BY <1>1, <1>2, <1>3, PTL DEF Spec

-----------------------------------------------------------------------------
(* Freezes.  A freeze that was resumed is spent: the log's last word is not this freeze *)
(* and no job will say it again; until the resuming run starts, a tombstone ahead of    *)
(* its job will see to it.                                                              *)
NoMishap == failed = 0 /\ torn = 0
Spent(s) == FoldedFreeze(file) # s /\ ~Pending(Paused(s))
Covered(s, j) ==
  /\ Final(queue[j]) = Tombstone
  /\ \A i \in DOMAIN queue : i > j => ~Holds(queue[i], Paused(s))
Gone(s, n) == (\E j \in DOMAIN queue : j <= n /\ Covered(s, j)) \/ Spent(s)

ResumesGone ==
  \A k \in DOMAIN queue : queue[k].op = "resume" => Gone(source[queue[k].run], k - 1)
StartedGone == \A r \in started : source[r] # 0 => Spent(source[r])
Bound(r) == r \in started \/ phase[r] = "queued"
OneHeir ==
  \A r, s \in Run : Bound(r) /\ Bound(s) /\ source[r] = source[s] /\ source[r] # 0 => r = s
FrozenNoHeir == session.frozen # 0 => \A r \in Run : Bound(r) => source[r] # session.frozen
FreezeKept == NoMishap => ResumesGone /\ StartedGone /\ OneHeir /\ FrozenNoHeir
Frozen == History /\ FreezeKept

(* Only a run that ends leaves a freeze. *)
LEMMA NoNewFreeze ==
  ASSUME NEW job, NewJob(job), NEW s \in Run, phase[s] = "over"
  PROVE  ~Holds(job, Paused(s))
<1> SUFFICES ASSUME Holds(job, Paused(s)) PROVE FALSE
  OBVIOUS
<1>1. Paused(s).kind = "paused" /\ Paused(s).run = s /\ s # 0
  BY Kinds DEF Run
<1>2. \E r \in Run : Finishes(r) /\ Paused(s) = Paused(r)
  BY <1>1, NewEntries, Kinds
<1>3. Finishes(s)
  BY <1>1, <1>2, Kinds
<1> QED
  BY <1>3 DEF Finishes

(* What an append does to the freeze that the file folds to. *)
LEMMA FreezeAppended ==
  ASSUME FileType, file.closed, NEW e \in Line, file' = Appended(file, e), NEW s \in Run
  PROVE  /\ e = Paused(s) \/ e = Tombstone \/ e.kind # "paused" \/ FoldedFreeze(file') # s
         /\ e = Tombstone => FoldedFreeze(file') = 0
         /\ e.kind # "paused" => FoldedFreeze(file') = FoldedFreeze(file)
<1>1. LastOf(file', "paused", Tombstone) =
        IF e.kind = "paused" THEN e ELSE LastOf(file, "paused", Tombstone)
  BY LastAppended DEF FileType
<1>2. e.kind = "paused" => \E r \in Run \cup {0} : e = Paused(r)
  BY EntryKinds
<1>3. \A r, t : Paused(r) = Paused(t) => r = t
  BY Kinds
<1> QED
  BY <1>1, <1>2, <1>3, Kinds DEF FoldedFreeze

(* A spent freeze stays spent while no line is torn. *)
LEMMA SpentStep ==
  ASSUME History, [Next]_vars, torn' = 0, NEW s \in Run, phase[s] = "over", Spent(s)
  PROVE  Spent(s)'
<1>0. IType /\ QueueType /\ FileType /\ ClosedUntorn
  BY DEF History, Order, IType
<1>1. file.closed /\ (Keeps \/ Lands \/ Removes \/ Unheard)
  BY <1>0, Untorn
<1>2. ~Pending(Paused(s))'
  BY <1>0, PendingStep, NoNewFreeze DEF Spent
<1>3. FoldedFreeze(file') # s
  <2>1. CASE Keeps
    BY <2>1 DEF Keeps, Spent
  <2>2. CASE Removes
    <3>1. file'.lines = <<>>
      BY <2>2, FileParts DEF Removes
    <3>2. LastOf(file', "paused", Tombstone) = Tombstone
      BY <3>1, LastOfNone
    <3> QED
      BY <3>2, Kinds DEF FoldedFreeze, Run
  <2>3. CASE Lands \/ Unheard
    <3>1. queue # <<>> /\ First \in Line /\ file' = Appended(file, First)
      BY <2>3 DEF Lands, Unheard
    <3>2. First # Paused(s)
      <4>1. Current = queue[1] /\ 1 \in DOMAIN queue /\ Holds(Current, First)
        BY <1>0, <3>1, AtHead
      <4> QED
        BY <4>1 DEF Spent, Pending
    <3> QED
      BY <1>0, <1>1, <3>1, <3>2, FreezeAppended DEF Spent, Run
  <2> QED
    BY <1>1, <2>1, <2>2, <2>3
<1> QED
  BY <1>2, <1>3 DEF Spent

(* A tombstone on its way moves up with the queue, and does its work when it lands. *)
LEMMA CoveredStep ==
  ASSUME History, [Next]_vars, torn' = 0, failed' = failed, ~Exit,
         NEW s \in Run, phase[s] = "over",
         NEW d \in {0, 1}, Requeued(d), d = 1 => Leaves /\ (Settles \/ WriteFails),
         Len(queue') >= Len(queue) - d,
         NEW j \in DOMAIN queue, Covered(s, j)
  PROVE  IF j > d THEN j - d \in DOMAIN queue' /\ Covered(s, j - d)' ELSE Spent(s)'
<1>0. IType /\ QueueType /\ FileType /\ ClosedUntorn /\ QueueType' /\ failed \in Nat
  BY QueueStep DEF History, Order, IType, CountType
<1>1. /\ j \in 1..Len(queue) /\ Len(queue) \in Nat /\ Len(queue') \in Nat
      /\ DOMAIN queue = 1..Len(queue) /\ DOMAIN queue' = 1..Len(queue')
  BY <1>0 DEF QueueType
<1>2. ASSUME NEW i \in DOMAIN queue', i + d > j PROVE ~Holds(queue'[i], Paused(s))
  <2>1. CASE i + d \in DOMAIN queue /\ Stems(queue'[i], queue[i + d])
    BY <1>2, <2>1 DEF Covered, Stems
  <2>2. CASE NewJob(queue'[i])
    BY <2>2, NoNewFreeze
  <2> QED
    BY <2>1, <2>2 DEF Requeued
<1>3. CASE j > d
  <2>1. j - d \in DOMAIN queue' /\ (j - d) + d = j /\ j - d \in Nat
    BY <1>1, <1>3
  <2>2. Stems(queue'[j - d], queue[j])
    <3>1. ~(j > Len(queue))
      BY <1>1
    <3> QED
      BY <2>1, <3>1 DEF Requeued
  <2>3. Final(queue'[j - d]) = Tombstone
    BY <2>2 DEF Covered, Stems
  <2>4. ASSUME NEW i \in DOMAIN queue', i > j - d PROVE ~Holds(queue'[i], Paused(s))
    <3>1. i + d > j
      BY <1>1, <2>1, <2>4
    <3> QED
      BY <1>2, <3>1
  <2>5. Covered(s, j - d)'
    <3> DEFINE m == j - d
    <3>1. PICK n : n = j - d
      OBVIOUS
    <3>2. Covered(s, n)'
      BY <2>3, <2>4, <3>1 DEF Covered
    <3> QED
      BY <3>1, <3>2
  <2> QED
    BY <1>3, <2>1, <2>5
<1>4. CASE ~(j > d)
  <2>1. j = 1 /\ d = 1
    BY <1>1, <1>4
  <2>2. Settles /\ queue # <<>>
    <3>1. ~WriteFails
      BY <1>0 DEF WriteFails
    <3> QED
      BY <2>1, <3>1 DEF Leaves
  <2>3. Len(Current.entries) = 1 /\ Current = queue[1] /\ First = Final(Current)
    BY <1>0, <2>2, AtHead DEF Settles, LastLands
  <2>4. First = Tombstone
    BY <2>1, <2>3 DEF Covered
  <2>5. file' = Appended(file, First) /\ First \in Line /\ file.closed
    <3>1. First # Remove
      BY <2>4, Kinds
    <3>2. file' = Appended(file, First)
      BY <2>2, <3>1 DEF Settles, LastLands
    <3> QED
      BY <1>0, <2>2, <3>1, <3>2, AtHead, Untorn
  <2>6. FoldedFreeze(file') # s
    BY <1>0, <2>4, <2>5, FreezeAppended DEF Run
  <2>7. ~Pending(Paused(s))'
    <3>1. \A i \in DOMAIN queue' : i + d > j
      BY <1>1, <2>1
    <3> QED
      BY <1>2, <3>1 DEF Pending
  <2> QED
    BY <1>4, <2>6, <2>7 DEF Spent
<1> QED
  BY <1>3, <1>4

(* Mishaps stay. *)
LEMMA MishapsStay ==
  ASSUME History, [Next]_vars, NoMishap'
  PROVE  NoMishap /\ file.closed /\ ~WriteFails /\ (Keeps \/ Lands \/ Removes \/ Unheard)
<1>0. IType /\ ClosedUntorn /\ failed \in Nat
  BY DEF History, Order, IType, CountType
<1>1. torn' = 0 /\ failed' = 0
  BY DEF NoMishap
<1>2. failed' = failed \/ (WriteFails /\ failed' = failed + 1)
  BY <1>0, Shapes DEF Grows, AppendLands, Settles, LastLands, WriteFails, Exit
<1>3. ~WriteFails
  BY <1>0, <1>1 DEF WriteFails
<1> QED
  BY <1>0, <1>1, <1>2, <1>3, Untorn DEF NoMishap

(* Only a resume gives a run a source, and it takes the freeze out of the window. *)
LEMMA ResumeOnly ==
  ASSUME Order, [Next]_vars, NEW r \in Run, Asks(r), source'[r] # 0
  PROVE  /\ source'[r] = session.frozen /\ session.frozen # 0 /\ session'.frozen = 0
         /\ ResumeSession(r)
<1>0. IType /\ InOrder /\ RunType /\ SourceOver /\ session \in Sessions
  BY DEF Order, IType, SessionType
<1>1. phase[r] = "none"
  BY <1>0, Stages
<1>2. source[r] = 0
  BY <1>0, <1>1 DEF SourceOver
<1>3. \/ UNCHANGED source \/ (\E s \in Run : ResumeSession(s))
      \/ \E s : source' = [source EXCEPT ![s] = 0]
  BY DEF Next, User, Agent, Writer, StartSession, SendMessage, ResumeSession, Enters, RenameSession,
     TogglePin, Edit, DeleteSession, TitleArrives, Finalize, AppendLands, StartSettles, SendSettles,
     ResumeSettles, DeleteSettles, PatchSettles, LastLands, WriteFails, Quit,
     Exit, Restart, vars, runVars
<1>4. PICK s \in Run : ResumeSession(s)
  BY <1>0, <1>2, <1>3 DEF RunType
<1>5. session' = [session EXCEPT !.frozen = 0] /\ session.frozen # 0
      /\ source' = [source EXCEPT ![s] = session.frozen]
  BY <1>4 DEF ResumeSession, Enters
<1>6. r = s /\ source'[r] = session.frozen
  BY <1>0, <1>2, <1>5 DEF RunType
<1> QED
  BY <1>0, <1>4, <1>5, <1>6 DEF Sessions

(* Every step keeps the freezes spent once. *)
LEMMA FrozenStep ==
  ASSUME Frozen, [Next]_vars
  PROVE  Frozen'
<1>0. /\ History /\ Order /\ IType /\ InOrder /\ QueueType /\ QueueType' /\ FileType /\ RunType
      /\ RunType'
      /\ QueuedJobs /\ SourceOver /\ StartedRan /\ DownIsQuiet /\ SourcedJobs /\ FreezeKept
      /\ session.frozen \in Run \cup {0} /\ 0 \notin Run
  BY QueueStep, RunStep DEF Frozen, History, Order, IType, InOrder, SessionType, Sessions, Run
<1>1. ASSUME NEW r \in Run, source[r] # 0 PROVE source[r] \in Run /\ phase[source[r]] = "over"
  BY <1>0, <1>1 DEF SourceOver, RunType
<1>2. ASSUME NEW r \in Run, Bound(r)' PROVE (Bound(r) /\ source'[r] = source[r]) \/ Asks(r)
  <2>1. r \in started' => r \in started \/ phase[r] = "queued"
    BY <1>0, Moves, Stages
  <2>2. phase'[r] = "queued" => phase[r] = "queued" \/ Asks(r)
    BY <1>0, Moves DEF Begins, Finishes, Drops, Fails
  <2>3. source'[r] = source[r] \/ Asks(r)
    BY <1>0, Moves
  <2> QED
    BY <1>2, <2>1, <2>2, <2>3 DEF Bound
<1>3. SUFFICES ASSUME NoMishap' PROVE (ResumesGone /\ StartedGone /\ OneHeir /\ FrozenNoHeir)'
  BY HistoryStep DEF Frozen, FreezeKept
<1>4. /\ NoMishap /\ ~WriteFails /\ torn' = 0 /\ failed' = failed
      /\ ResumesGone /\ StartedGone /\ OneHeir /\ FrozenNoHeir
  BY <1>0, <1>3, MishapsStay DEF FreezeKept, NoMishap
<1>5. ResumesGone'
  <2>0. SUFFICES ASSUME NEW k \in DOMAIN queue', queue'[k].op = "resume"
                 PROVE  \E s : s = source'[queue'[k].run] /\ \E n : n = k - 1 /\ Gone(s, n)'
    BY DEF ResumesGone, Gone, Spent, Covered, Pending
  <2>1. PICK d \in {0, 1} :
          /\ Requeued(d) /\ ~Exit /\ Len(queue') >= Len(queue) - d
          /\ d = 1 => Leaves /\ (Settles \/ WriteFails)
    <3>1. ~Exit
      BY <2>0 DEF Exit
    <3> QED
      BY <1>0, <3>1, Shift
  <2>2. k \in Nat /\ k >= 1 /\ queue'[k].run \in Run
    <3>1. queue'[k] \in Jobs /\ k \in Nat /\ k >= 1
      BY <1>0, <2>0 DEF QueueType
    <3> QED
      BY <1>0, <2>0, <3>1, JobEntries
  <2> DEFINE r == queue'[k].run
  <2>3. CASE k + d \in DOMAIN queue /\ Stems(queue'[k], queue[k + d])
    <3>1. queue[k + d].op = "resume" /\ queue[k + d].run = r /\ r # 0
      BY <1>0, <2>0, <2>2, <2>3 DEF Stems
    <3>2. source[r] # 0 /\ phase[r] = "queued"
      BY <1>0, <2>3, <3>1 DEF SourcedJobs, QueuedJobs
    <3>3. source'[r] = source[r]
      BY <1>0, <2>2, <3>2, Moves, Stages
    <3>4. PICK s : s = source[r] /\ s \in Run /\ phase[s] = "over"
      BY <1>1, <2>2, <3>2
    <3>5. Gone(s, (k + d) - 1)
      BY <1>4, <2>3, <3>1, <3>4 DEF ResumesGone
    <3>6. PICK n : n = k - 1
      OBVIOUS
    <3>7. CASE Spent(s)
      <4>1. Spent(s)'
        BY <1>0, <1>4, <3>4, <3>7, SpentStep
      <4>2. Gone(s, n)'
        BY <4>1 DEF Gone
      <4> QED
        BY <3>3, <3>4, <3>6, <4>2
    <3>8. ASSUME NEW j \in DOMAIN queue, j <= (k + d) - 1, Covered(s, j)
          PROVE  Gone(s, n)'
      <4>1. IF j > d THEN j - d \in DOMAIN queue' /\ Covered(s, j - d)' ELSE Spent(s)'
        BY <1>0, <1>4, <2>1, <3>4, <3>8, CoveredStep
      <4>2. CASE ~(j > d)
        BY <4>1, <4>2 DEF Gone
      <4>3. CASE j > d
        <5>1. j - d <= n
          BY <1>0, <2>2, <3>6, <3>8 DEF QueueType
        <5> QED
          BY <4>1, <4>3, <5>1 DEF Gone
      <4> QED
        BY <4>2, <4>3
    <3> QED
      BY <3>3, <3>4, <3>5, <3>6, <3>7, <3>8 DEF Gone
  <2>4. CASE NewJob(queue'[k]) /\ k = Len(queue')
    <3>1. Asks(r) /\ source'[r] = session.frozen /\ session.frozen # 0
      BY <2>0, <2>4 DEF NewJob, AsksFor, Job, Patch, Persist
    <3>2. ResumeSession(r)
      BY <1>0, <2>2, <3>1, ResumeOnly
    <3> DEFINE lead == Append(queue, Patch(Tombstone))
               job == Job("resume", r, <<Status>>)
    <3>3. queue' = Append(lead, job)
      BY <3>2 DEF ResumeSession, Enters, Cleared
    <3>4. /\ lead \in Seq(Jobs) /\ Len(lead) = Len(queue) + 1 /\ Len(queue) \in Nat
          /\ Len(lead) \in DOMAIN lead /\ lead[Len(lead)] = Patch(Tombstone)
      BY <1>0, NewJobs, AppendParts DEF QueueType
    <3>5. job \in Jobs
      BY <2>2, NewJobs
    <3> HIDE DEF lead, job
    <3>6. PICK n : n = Len(lead)
      OBVIOUS
    <3>7. /\ Len(queue') = n + 1 /\ n \in DOMAIN queue' /\ queue'[n] = Patch(Tombstone)
          /\ \A i \in DOMAIN queue' : i > n => queue'[i] = job
      BY <3>3, <3>4, <3>5, <3>6, AppendParts
    <3>8. PICK s : s = session.frozen
      OBVIOUS
    <3>9. Final(Patch(Tombstone)) = Tombstone
      BY DEF Final, Patch, Job
    <3>10. ~Holds(job, Paused(s))
      BY HeldBy, Kinds DEF job
    <3>11. Covered(s, n)'
      BY <3>7, <3>9, <3>10 DEF Covered
    <3>12. n = k - 1 /\ n <= n
      BY <2>4, <3>4, <3>6, <3>7
    <3>13. Gone(s, n)'
      BY <3>7, <3>11, <3>12 DEF Gone
    <3> QED
      BY <3>1, <3>8, <3>12, <3>13
  <2> QED
    BY <1>0, <2>0, <2>1, <2>2, <2>3, <2>4 DEF Requeued
<1>6. StartedGone'
  <2>0. SUFFICES ASSUME NEW r \in started', source'[r] # 0
                 PROVE  \E s : s = source'[r] /\ Spent(s)'
    BY DEF StartedGone, Spent, Pending
  <2>1. r \in Run
    BY <1>0 DEF RunType
  <2>2. source'[r] = source[r] /\ Spent(source[r])
    <3>1. CASE r \in started
      <4>1. source'[r] = source[r]
        BY <1>0, <2>1, <3>1, Moves, Stages DEF StartedRan
      <4> QED
        BY <1>4, <2>0, <3>1, <4>1 DEF StartedGone
    <3>2. CASE Begins(r)
      <4>1. /\ queue # <<>> /\ r = Current.run /\ Current.op \in {"start", "send", "resume"}
            /\ phase[r] = "queued"
        BY <1>0, <2>1, <3>2, Stages DEF Begins
      <4>2. Current = queue[1] /\ 1 \in DOMAIN queue
        BY <1>0, <4>1, AtHead
      <4>3. source'[r] = source[r]
        BY <1>0, <2>1, <4>1, Moves, Stages
      <4>4. Current.op = "resume"
        BY <1>0, <2>0, <4>1, <4>2, <4>3 DEF SourcedJobs
      <4>5. Gone(source[r], 1 - 1)
        BY <1>4, <4>1, <4>2, <4>4 DEF ResumesGone
      <4>6. \A j \in DOMAIN queue : ~(j <= 1 - 1)
        BY <1>0 DEF QueueType
      <4> QED
        BY <4>3, <4>5, <4>6 DEF Gone
    <3> QED
      BY <1>0, <2>1, <3>1, <3>2, Moves
  <2>3. PICK s : s = source[r] /\ s \in Run /\ phase[s] = "over"
    BY <1>1, <2>0, <2>1, <2>2
  <2>4. Spent(s)'
    BY <1>0, <1>4, <2>2, <2>3, SpentStep
  <2> QED
    BY <2>2, <2>3, <2>4
<1>7. OneHeir'
  <2> SUFFICES ASSUME NEW r \in Run, NEW s \in Run, Bound(r)', Bound(s)', source'[r] = source'[s],
                      source'[r] # 0, r # s
               PROVE  FALSE
    BY DEF OneHeir
  <2>1. ASSUME NEW x \in Run, Asks(x), source'[x] # 0, NEW y \in Run, y # x, Bound(y)'
        PROVE  source'[x] # source'[y]
    <3>1. source'[x] = session.frozen /\ session.frozen # 0
      BY <1>0, <2>1, ResumeOnly
    <3>2. ~Asks(y)
      BY <2>1 DEF Asks, NewRun
    <3>3. Bound(y) /\ source'[y] = source[y]
      BY <1>2, <2>1, <3>2
    <3> QED
      BY <1>4, <3>1, <3>3 DEF FrozenNoHeir
  <2>2. CASE Asks(r) \/ Asks(s)
    BY <2>1, <2>2
  <2>3. CASE ~Asks(r) /\ ~Asks(s)
    BY <1>2, <1>4, <2>3 DEF OneHeir
  <2> QED
    BY <2>2, <2>3
<1>8. FrozenNoHeir'
  <2> SUFFICES ASSUME session'.frozen # 0, NEW r \in Run, Bound(r)', source'[r] = session'.frozen
               PROVE  FALSE
    BY DEF FrozenNoHeir
  <2>1. Bound(r) /\ source'[r] = source[r]
    BY <1>0, <1>2, ResumeOnly
  <2>2. CASE session'.frozen = session.frozen
    BY <1>4, <2>1, <2>2 DEF FrozenNoHeir
  <2>3. CASE \E s \in Run : Finishes(s) /\ session'.frozen = s
    BY <1>1, <2>1, <2>3 DEF Finishes
  <2>4. CASE Restart
    <3>1. session' = Hydrated(file) /\ window = "down"
      BY <2>4 DEF Restart
    <3>2. session'.frozen = FoldedFreeze(file)
      BY <3>1 DEF Hydrated
    <3>3. r \in started
      BY <1>0, <2>1, <3>1 DEF DownIsQuiet, Bound
    <3> QED
      BY <1>4, <2>1, <3>2, <3>3 DEF StartedGone, Spent
  <2> QED
    BY <1>0, <2>2, <2>3, <2>4, SessionMoves
<1> QED
  BY <1>5, <1>6, <1>7, <1>8

(* "A freeze is resumed at most once": unless an append failed, no two runs were        *)
(* started from one frozen transcript, and one that was resumed is not offered again,   *)
(* not even by the next start of the program.                                           *)
THEOREM FreezesSpentOnce == Spec => []FreezeSpentOnce
<1>1. Init => Frozen
  <2> SUFFICES ASSUME Init PROVE Frozen
    OBVIOUS
  <2>1. /\ queue = <<>> /\ started = {} /\ source = [r \in Run |-> 0]
        /\ phase = [r \in Run |-> "none"] /\ session = Hydrated(NoFile) /\ ~Loads(NoFile)
    BY FileParts DEF Init, Loads
  <2>2. session.frozen = 0
    BY <2>1 DEF Hydrated
  <2> QED
    BY <2>1, <2>2, HistoryInit DEF Frozen, FreezeKept, ResumesGone, StartedGone, OneHeir,
       FrozenNoHeir,
       Bound
<1>2. Frozen /\ [Next]_vars => Frozen'
  BY FrozenStep
<1>3. Frozen => FreezeSpentOnce
  <2> SUFFICES ASSUME Frozen, failed = 0 /\ torn = 0
               PROVE  /\ \A r, s \in started : source[r] = source[s] /\ source[r] # 0 => r = s
                      /\ session.frozen # 0 => \A r \in started : source[r] # session.frozen
    BY DEF FreezeSpentOnce
  <2>1. OneHeir /\ FrozenNoHeir /\ started \subseteq Run
    BY DEF Frozen, FreezeKept, NoMishap, History, Order, IType, RunType
  <2> QED
    BY <2>1 DEF OneHeir, FrozenNoHeir, Bound
<1> QED
  BY <1>1, <1>2, <1>3, PTL DEF Spec

-----------------------------------------------------------------------------
(* What the file will end up with: the last entry of a kind that the first `n` jobs     *)
(* of the queue leave, Garbage if there is none.                                        *)
Ends(kind, e, n) ==
  \/ /\ e.kind = kind
     /\ \E k \in 1..n : /\ Final(queue[k]) = e
                        /\ \A j \in 1..n : j > k => Final(queue[j]).kind # kind
  \/ /\ \A j \in 1..n : Final(queue[j]).kind # kind
     /\ LastOf(file, kind, Garbage) = e

(* The first `d` jobs leave, the next ones up to the `n`th end as they did.             *)
SameEnds(n, d) == \A k \in 1..(n - d) : Final(queue'[k]) = Final(queue[k + d])

(* A step that neither reorders jobs nor changes what they end with keeps what their    *)
(* beginning ends up with; only a delete takes away what was in the file.               *)
LEMMA EndsStep ==
  ASSUME History, [Next]_vars, NoMishap',
         NEW d \in {0, 1}, d = 0 => AppendLands \/ UNCHANGED file, d = 1 => Settled,
         NEW kind \in {"title", "pinned", "paused"}, NEW e,
         NEW n \in Nat, n >= d, SameEnds(n, d), Ends(kind, e, n)
  PROVE  \/ Ends(kind, e, n - d)'
         \/ d = 1 /\ DeleteSettles /\ Ends(kind, Garbage, n - d)'
<1>1. IType /\ QueueType /\ queue \in Seq(Jobs) /\ FileType /\ file \in File
  BY DEF History, Order, IType, QueueType, FileType
<1>3. file.closed
  BY MishapsStay
<1>4. ASSUME NEW k \in 1..(n - d)
      PROVE  k + d \in 1..n /\ Final(queue'[k]) = Final(queue[k + d])
  BY DEF SameEnds
<1> DEFINE last == LastOf(file, kind, Garbage)
           last2 == LastOf(file', kind, Garbage)
<1>5. CASE d = 0
  <2>1. last2 = last
    <3>1. CASE UNCHANGED file
      BY <3>1
    <3>2. CASE AppendLands
      <4>1. queue # <<>> /\ Len(Current.entries) > 1 /\ file' = Appended(file, First)
        BY <3>2 DEF AppendLands, Writing
      <4>2. Current \in Jobs /\ First \in {Header} \cup Message
        BY <1>1, <4>1, AtHead, JobAdvance DEF First
      <4>3. First \in Line /\ First.kind # kind
        BY <4>2, Entries, EntryKinds, Kinds
      <4> QED
        BY <1>1, <1>3, <4>1, <4>3, LastAppended
    <3> QED
      BY <1>5, <3>1, <3>2
  <2>2. n - d = n /\ \A k \in 1..n : k + d = k
    BY <1>5
  <2>3. \A k \in 1..n : Final(queue'[k]) = Final(queue[k])
    BY <1>4, <2>2
  <2>4. Ends(kind, e, n)'
    BY <2>1, <2>3 DEF Ends
  <2> QED
    BY <2>2, <2>4
<1>6. CASE d = 1
  <2>1. /\ queue # <<>> /\ Len(Current.entries) = 1
        /\ file' = (IF First = Remove THEN NoFile ELSE Appended(file, First))
        /\ (Current.op = "delete" => DeleteSettles)
    BY <1>6 DEF Settled, StartSettles, SendSettles, ResumeSettles, DeleteSettles, PatchSettles,
                LastLands, Writing
  <2>2. /\ Current = queue[1] /\ First = Final(queue[1]) /\ (First = Remove <=> Current.op = "delete")
        /\ First # Remove => First \in Line
    BY <1>1, <2>1, AtHead
  <2>3. /\ First = Remove => last2 = Garbage /\ First.kind # kind
        /\ First # Remove => last2 = IF First.kind = kind THEN First ELSE last
    <3>1. ASSUME First = Remove PROVE last2 = Garbage /\ First.kind # kind
      <4>1. file'.lines = <<>>
        BY <2>1, <3>1, FileParts
      <4>2. \A i \in DOMAIN file'.lines : file'.lines[i].kind # kind
        BY <4>1
      <4> QED
        BY <3>1, <4>2, LastOfNone, Kinds
    <3>2. ASSUME First # Remove PROVE last2 = IF First.kind = kind THEN First ELSE last
      BY <1>1, <1>3, <2>1, <2>2, <3>2, LastAppended
    <3> QED
      BY <3>1, <3>2
  <2>4. \A k \in 1..(n - 1) : k + 1 \in 1..n /\ Final(queue'[k]) = Final(queue[k + 1])
    BY <1>4, <1>6
  <2>5. \A j \in 1..n : j = 1 \/ (j - 1 \in 1..(n - 1) /\ (j - 1) + 1 = j)
    OBVIOUS
  <2>a. n >= 1 /\ 1 \in 1..n
    BY <1>6
  <2> HIDE DEF last, last2
  <2>6. CASE e.kind = kind /\ \E k \in 1..n : /\ Final(queue[k]) = e
                                              /\ \A j \in 1..n : j > k => Final(queue[j]).kind # kind
    <3>1. PICK k \in 1..n : /\ Final(queue[k]) = e
                            /\ \A j \in 1..n : j > k => Final(queue[j]).kind # kind
      BY <2>6
    <3>2. CASE k = 1
      <4>1. First = e /\ First # Remove
        BY <2>2, <2>3, <2>6, <3>1, <3>2
      <4>2. last2 = e
        BY <2>3, <2>6, <4>1
      <4>3. \A j \in 1..(n - 1) : Final(queue'[j]).kind # kind
        BY <2>4, <3>1, <3>2
      <4>4. Ends(kind, e, n - 1)'
        BY <4>2, <4>3 DEF Ends, last2
      <4> QED
        BY <1>6, <4>4
    <3>3. CASE k # 1
      <4>1. k - 1 \in 1..(n - 1) /\ Final(queue'[k - 1]) = e
        BY <2>4, <2>5, <3>1, <3>3
      <4>2. ASSUME NEW j \in 1..(n - 1), j > k - 1 PROVE Final(queue'[j]).kind # kind
        BY <2>4, <3>1, <4>2
      <4>3. Ends(kind, e, n - 1)'
        BY <2>6, <4>1, <4>2 DEF Ends
      <4> QED
        BY <1>6, <4>3
    <3> QED
      BY <3>2, <3>3
  <2>7. CASE last = e /\ \A j \in 1..n : Final(queue[j]).kind # kind
    <3>1. First.kind # kind
      BY <2>a, <2>2, <2>7
    <3>2. \A j \in 1..(n - 1) : Final(queue'[j]).kind # kind
      BY <2>4, <2>7
    <3>3. IF First = Remove THEN last2 = Garbage ELSE last2 = e
      BY <2>3, <2>7, <3>1
    <3>4. IF First = Remove THEN Ends(kind, Garbage, n - 1)' ELSE Ends(kind, e, n - 1)'
      BY <3>2, <3>3 DEF Ends, last2
    <3> QED
      BY <1>6, <2>1, <2>2, <3>4
  <2> QED
    BY <2>6, <2>7 DEF Ends, last
<1> QED
  BY <1>5, <1>6

(* A step that adds no job which ends with an entry of the kind.                        *)
Quiet(kind) ==
  \E d \in {0, 1} :
    /\ SameEnds(Len(queue), d) /\ d <= Len(queue) /\ Len(queue') >= Len(queue) - d
    /\ d = 0 => AppendLands \/ UNCHANGED file
    /\ d = 1 => Settled
    /\ \A k \in 1..Len(queue') : k + d > Len(queue) => Final(queue'[k]).kind # kind

(* A step that is quiet about a kind leaves what the file ends up with. *)
LEMMA EndsStay ==
  ASSUME History, [Next]_vars, NoMishap', NEW kind \in {"title", "pinned", "paused"}, NEW e,
         Quiet(kind), Ends(kind, e, Len(queue))
  PROVE  Ends(kind, e, Len(queue))' \/ DeleteSettles
<1>1. Len(queue) \in Nat /\ Len(queue') \in Nat
  BY QueueStep DEF History, Order, IType, QueueType
<1>2. PICK d \in {0, 1} :
        /\ SameEnds(Len(queue), d) /\ d <= Len(queue) /\ Len(queue') >= Len(queue) - d
        /\ d = 0 => AppendLands \/ UNCHANGED file
        /\ d = 1 => Settled
        /\ \A k \in 1..Len(queue') : k + d > Len(queue) => Final(queue'[k]).kind # kind
  BY DEF Quiet
<1>3. PICK n \in Nat : n = Len(queue)
  BY <1>1
<1>4. PICK m \in Nat : m = Len(queue')
  BY <1>1
<1>5. CASE Ends(kind, e, n - d)'
  <2>1. n - d \in Nat /\ n - d <= m
    BY <1>2, <1>3, <1>4
  <2>2. ASSUME NEW k \in 1..m, k > n - d PROVE Final(queue'[k]).kind # kind
    BY <1>2, <1>3, <1>4, <2>2
  <2>3. \A k \in 1..(n - d) : k \in 1..m
    BY <2>1
  <2>4. \A k \in 1..m : k \in 1..(n - d) \/ k > n - d
    BY <2>1
  <2>5. CASE (\A j \in 1..(n - d) : Final(queue'[j]).kind # kind) /\ LastOf(file', kind, Garbage) = e
    <3>1. \A j \in 1..m : Final(queue'[j]).kind # kind
      BY <2>2, <2>4, <2>5
    <3> QED
      BY <1>4, <2>5, <3>1 DEF Ends
  <2>6. CASE e.kind = kind /\ \E k \in 1..(n - d) :
               /\ Final(queue'[k]) = e
               /\ \A j \in 1..(n - d) : j > k => Final(queue'[j]).kind # kind
    <3>1. \E k \in 1..m : /\ Final(queue'[k]) = e
                          /\ \A j \in 1..m : j > k => Final(queue'[j]).kind # kind
      BY <2>2, <2>3, <2>4, <2>6
    <3> QED
      BY <1>4, <2>6, <3>1 DEF Ends
  <2> QED
    BY <1>5, <2>5, <2>6 DEF Ends
<1> QED
  BY <1>2, <1>3, <1>5, EndsStep

(* Quiet steps.                                                                         *)
LEMMA QuietKeep ==
  ASSUME IType, UNCHANGED <<queue, file>>, NEW kind
  PROVE  Quiet(kind)
<1>1. Len(queue) \in Nat
  BY DEF IType, QueueType
<1>2. SameEnds(Len(queue), 0)
  BY <1>1 DEF SameEnds
<1> QED
  BY <1>1, <1>2 DEF Quiet

(* A job that ends with another kind is quiet about this one. *)
LEMMA QuietAppend ==
  ASSUME IType, NEW job \in Jobs, queue' = Append(queue, job), UNCHANGED file,
         NEW kind, Final(job).kind # kind
  PROVE  Quiet(kind)
<1>1. queue \in Seq(Jobs) /\ Len(queue) \in Nat /\ DOMAIN queue = 1..Len(queue)
  BY DEF IType, QueueType
<1>2. /\ queue' \in Seq(Jobs) /\ Len(queue') = Len(queue) + 1 /\ DOMAIN queue' = 1..Len(queue')
      /\ \A j \in DOMAIN queue : queue'[j] = queue[j]
      /\ queue'[Len(queue) + 1] = job
  BY <1>1, AppendParts
<1>3. SameEnds(Len(queue), 0)
  <2>1. \A k \in 1..(Len(queue) - 0) : k \in DOMAIN queue /\ k + 0 = k
    BY <1>1
  <2> QED
    BY <1>2, <2>1 DEF SameEnds
<1>4. ASSUME NEW k \in 1..Len(queue'), k + 0 > Len(queue) PROVE Final(queue'[k]).kind # kind
  <2>1. k = Len(queue) + 1
    BY <1>1, <1>2, <1>4
  <2> QED
    BY <1>2, <2>1
<1>5. Len(queue') >= Len(queue) - 0 /\ 0 <= Len(queue)
  BY <1>1, <1>2
<1> QED
  BY <1>3, <1>4, <1>5 DEF Quiet

(* So are two. *)
LEMMA QuietAppendTwo ==
  ASSUME IType, NEW lead \in Jobs, NEW job \in Jobs,
         queue' = Append(Append(queue, lead), job), UNCHANGED file,
         NEW kind, Final(lead).kind # kind, Final(job).kind # kind
  PROVE  Quiet(kind)
<1>1. queue \in Seq(Jobs) /\ Len(queue) \in Nat /\ DOMAIN queue = 1..Len(queue)
  BY DEF IType, QueueType
<1> DEFINE q == Append(queue, lead)
<1>a. /\ q \in Seq(Jobs) /\ Len(q) = Len(queue) + 1 /\ DOMAIN q = 1..Len(q)
      /\ \A j \in DOMAIN queue : j \in DOMAIN q /\ q[j] = queue[j]
      /\ q[Len(queue) + 1] = lead
  BY <1>1, AppendParts
<1>b. queue' = Append(q, job)
  OBVIOUS
<1> HIDE DEF q
<1>c. /\ queue' \in Seq(Jobs) /\ Len(queue') = Len(q) + 1 /\ DOMAIN queue' = 1..Len(queue')
      /\ \A j \in DOMAIN q : queue'[j] = q[j]
      /\ queue'[Len(q) + 1] = job
  BY <1>a, <1>b, AppendParts
<1>2. /\ Len(queue') = Len(queue) + 2
      /\ \A j \in DOMAIN queue : queue'[j] = queue[j]
      /\ queue'[Len(queue) + 1] = lead /\ queue'[Len(queue) + 2] = job
  <2>1. Len(queue) + 1 \in DOMAIN q
    BY <1>1, <1>a
  <2> QED
    BY <1>1, <1>a, <1>c, <2>1
<1>3. SameEnds(Len(queue), 0)
  <2>1. \A k \in 1..(Len(queue) - 0) : k \in DOMAIN queue /\ k + 0 = k
    BY <1>1
  <2> QED
    BY <1>2, <2>1 DEF SameEnds
<1>4. ASSUME NEW k \in 1..Len(queue'), k + 0 > Len(queue) PROVE Final(queue'[k]).kind # kind
  <2>1. k = Len(queue) + 1 \/ k = Len(queue) + 2
    BY <1>1, <1>2, <1>4
  <2> QED
    BY <1>2, <2>1
<1>5. Len(queue') >= Len(queue) - 0 /\ 0 <= Len(queue)
  BY <1>1, <1>2
<1> QED
  BY <1>3, <1>4, <1>5 DEF Quiet

(* An append that lands is quiet: the file takes over what the job held. *)
LEMMA QuietAdvance ==
  ASSUME IType, AppendLands, NEW kind
  PROVE  Quiet(kind)
<1>1. queue \in Seq(Jobs) /\ Len(queue) \in Nat /\ DOMAIN queue = 1..Len(queue)
  BY DEF IType, QueueType
<1>2. queue # <<>> /\ Len(Current.entries) > 1 /\ queue' = <<Rest(Current)>> \o Tail(queue)
  BY DEF AppendLands, Writing
<1>3. Rest(Current) \in Jobs /\ Tail(queue) \in Seq(Jobs) /\ Len(Tail(queue)) = Len(queue) - 1
  BY <1>1, <1>2, AtHead, JobAdvance, TailShifts DEF QueueType
<1>4. Len(queue') = Len(queue) /\ DOMAIN queue' = 1..Len(queue)
  <2>1. <<Rest(Current)>> \in Seq(Jobs) /\ Len(<<Rest(Current)>>) = 1
    BY <1>3
  <2>2. /\ queue' \in Seq(Jobs) /\ DOMAIN queue' = 1..Len(queue')
        /\ Len(queue') = Len(<<Rest(Current)>>) + Len(Tail(queue))
    BY <1>2, <1>3, <2>1, ConcatParts
  <2>3. Len(queue') = Len(queue)
    BY <1>1, <1>3, <2>1, <2>2
  <2> QED
    BY <2>2, <2>3
<1>5. SameEnds(Len(queue), 0)
  <2>1. Requeued(0)
    BY Advanced
  <2>2. ASSUME NEW k \in 1..(Len(queue) - 0) PROVE Final(queue'[k]) = Final(queue[k + 0])
    <3>1. k \in DOMAIN queue' /\ ~(k + 0 > Len(queue))
      BY <1>1, <1>4
    <3> QED
      BY <2>1, <3>1 DEF Requeued, Stems
  <2> QED
    BY <2>2 DEF SameEnds
<1>6. \A k \in 1..Len(queue') : ~(k + 0 > Len(queue))
  BY <1>1, <1>4
<1> QED
  BY <1>1, <1>4, <1>5, <1>6 DEF Quiet

(* A job that settles is quiet, but for the tombstone of a resume. *)
LEMMA QuietLeave ==
  ASSUME IType, Settled, NEW kind, queue' = Tail(queue) \/ kind # "paused"
  PROVE  Quiet(kind)
<1>1. queue \in Seq(Jobs) /\ Len(queue) \in Nat /\ DOMAIN queue = 1..Len(queue) /\ Len(queue) >= 1
  <2>1. queue # <<>>
    BY DEF Settled, StartSettles, SendSettles, ResumeSettles, DeleteSettles, PatchSettles,
           LastLands, Writing
  <2> QED
    BY <2>1, LenCases DEF IType, QueueType
<1>2. /\ Tail(queue) \in Seq(Jobs) /\ Len(Tail(queue)) = Len(queue) - 1
      /\ DOMAIN Tail(queue) = 1..(Len(queue) - 1)
      /\ \A j \in DOMAIN Tail(queue) : Tail(queue)[j] = queue[j + 1]
  BY <1>1, TailShifts
<1>3. CASE queue' = Tail(queue)
  <2>1. SameEnds(Len(queue), 1)
    BY <1>2, <1>3 DEF SameEnds
  <2>2. \A k \in 1..Len(queue') : ~(k + 1 > Len(queue))
    BY <1>1, <1>2, <1>3
  <2> QED
    BY <1>1, <1>2, <1>3, <2>1, <2>2 DEF Quiet
<1>4. CASE queue' = Append(Tail(queue), Patch(Tombstone)) /\ kind # "paused"
  <2>1. PICK n \in Nat : n = Len(queue)
    BY <1>1
  <2>2. PICK t \in Seq(Jobs) : t = Tail(queue)
    BY <1>2
  <2>3. Len(t) = n - 1 /\ DOMAIN t = 1..(n - 1) /\ \A j \in 1..(n - 1) : t[j] = queue[j + 1]
    BY <1>2, <2>1, <2>2
  <2>4. /\ Len(queue') = Len(t) + 1
        /\ \A j \in DOMAIN t : queue'[j] = t[j]
        /\ queue'[Len(t) + 1] = Patch(Tombstone)
    BY <1>4, <2>2, NewJobs, AppendParts
  <2>5. /\ Len(queue') = n /\ queue'[n] = Patch(Tombstone) /\ n >= 1
        /\ \A j \in 1..(n - 1) : queue'[j] = queue[j + 1]
    BY <1>1, <2>1, <2>3, <2>4
  <2>6. SameEnds(n, 1)
    BY <2>5 DEF SameEnds
  <2>7. Final(Patch(Tombstone)) = Tombstone /\ Tombstone.kind # kind
    BY <1>4, Kinds DEF Final, Patch, Job
  <2>8. \A k \in 1..n : k + 1 > n => k = n
    OBVIOUS
  <2>9. \A k \in 1..n : k + 1 > n => Final(queue'[k]).kind # kind
    BY <2>5, <2>7, <2>8
  <2> QED
    BY <2>1, <2>5, <2>6, <2>9 DEF Quiet
<1> QED
  BY <1>3, <1>4 DEF Settled, StartSettles, SendSettles, ResumeSettles, DeleteSettles, PatchSettles,
                    Cleared

(* A window that quits is quiet: what it flushes was queued. *)
LEMMA QuietQuit ==
  ASSUME IType, Quit, NEW kind, kind # "status"
  PROVE  Quiet(kind)
<1>1. queue \in Seq(Jobs) /\ Len(queue) \in Nat /\ DOMAIN queue = 1..Len(queue) /\ UNCHANGED file
  BY DEF IType, QueueType, Quit
<1>2. PICK ends \in Seq(Jobs) :
        queue' = queue \o ends /\ \A i \in DOMAIN ends : \E r \in Live : ends[i] = Persist(r, Status)
  BY QuitQueue
<1>3. \A i \in DOMAIN ends : Final(ends[i]).kind # kind
  <2>1. \A r : Final(Persist(r, Status)) = Status
    BY DEF Final, Persist, Job
  <2> QED
    BY <1>2, <2>1, Kinds
<1>4. /\ Len(queue') = Len(queue) + Len(ends) /\ Len(ends) \in Nat /\ DOMAIN queue' = 1..Len(queue')
      /\ \A j \in DOMAIN queue : queue'[j] = queue[j]
      /\ \A j \in DOMAIN queue' :
           j \in DOMAIN queue \/ (j - Len(queue) \in DOMAIN ends /\ queue'[j] = ends[j - Len(queue)])
  BY <1>1, <1>2, ConcatParts
<1>5. SameEnds(Len(queue), 0)
  <2>1. \A k \in 1..(Len(queue) - 0) : k \in DOMAIN queue /\ k + 0 = k
    BY <1>1
  <2> QED
    BY <1>4, <2>1 DEF SameEnds
<1>6. ASSUME NEW k \in 1..Len(queue'), k + 0 > Len(queue) PROVE Final(queue'[k]).kind # kind
  <2>1. k \in DOMAIN queue' /\ k \notin DOMAIN queue
    BY <1>1, <1>4, <1>6
  <2> QED
    BY <1>3, <1>4, <2>1
<1>7. Len(queue') >= Len(queue) - 0 /\ 0 <= Len(queue)
  BY <1>1, <1>4
<1> QED
  BY <1>1, <1>5, <1>6, <1>7 DEF Quiet

(* The last job decides.                                                                *)
LEMMA EndsLast ==
  ASSUME IType, NEW job \in Jobs, NEW q \in Seq(Jobs), queue' = Append(q, job)
  PROVE  Ends(Final(job).kind, Final(job), Len(queue))'
<1>1. Len(q) \in Nat /\ Len(queue') = Len(q) + 1 /\ queue'[Len(q) + 1] = job
  BY AppendParts
<1>2. Len(q) + 1 \in 1..Len(queue') /\ \A j \in 1..Len(queue') : ~(j > Len(q) + 1)
  BY <1>1
<1> QED
  BY <1>1, <1>2 DEF Ends

-----------------------------------------------------------------------------
(* Until its first message is on disk, the session is its start job and no more: the    *)
(* file holds what the job no longer does.                                              *)
Opening ==
  /\ phase[1] = "none" => file = NoFile /\ queue = <<>>
  /\ phase[1] = "queued" =>
       /\ Len(queue) = 1 /\ queue[1].op = "start" /\ file.closed
       /\ Len(file.lines) + Len(queue[1].entries) = 3
       /\ Len(file.lines) >= 1 => file.lines[1] = Header
       /\ Len(file.lines) >= 2 => file.lines[2] = Say("user", 1)

(* What may happen in the meantime.                                                     *)
LEMMA OpeningMoves ==
  ASSUME History, Opening, [Next]_vars, phase[1] \in {"none", "queued"}
  PROVE  \/ StartSession /\ phase[1] = "none"
         \/ phase[1] = "queued" /\ AppendLands
         \/ phase'[1] \in {"live", "over"}
         \/ UNCHANGED <<queue, file>> /\ phase'[1] = phase[1]
<1> DEFINE Goal == \/ StartSession /\ phase[1] = "none"
                   \/ phase[1] = "queued" /\ AppendLands
                   \/ phase'[1] \in {"live", "over"}
                   \/ UNCHANGED <<queue, file>> /\ phase'[1] = phase[1]
<1> SUFFICES Goal
  OBVIOUS
<1>1. /\ IType /\ QueueType /\ RunType /\ 1 \in Run
      /\ ~session.listed /\ Live = {}
  <2>1. IType /\ QueueType /\ RunType /\ 1 \in Run
    BY SessionLogAssumption DEF History, Order, IType, Run
  <2>2. ~session.listed
    BY DEF History, Order, ListedBegun
  <2>3. \A r \in Run : phase[r] # "live"
    BY <2>1 DEF History, FirstAlone
  <2> QED
    BY <2>1, <2>2, <2>3, Zenon DEF Live
<1>2. queue # <<>> => phase[1] = "queued" /\ Current.op = "start" /\ Current.run = 1
  <2>1. ASSUME queue # <<>> PROVE phase[1] = "queued" /\ queue[1].op = "start"
    BY <2>1 DEF Opening
  <2> QED
    BY <1>1, <2>1, AtHead, HeadRun
<1>3. CASE StartSession
  BY <1>3 DEF StartSession
<1>4. ASSUME NEW r \in Run, SendMessage(r) \/ ResumeSession(r) PROVE Goal
  BY <1>1, <1>4 DEF SendMessage, ResumeSession, Shown
<1>5. CASE TogglePin \/ DeleteSession \/ \E t \in {"query", "renamed"} : RenameSession(t)
  BY <1>1, <1>5 DEF TogglePin, DeleteSession, RenameSession, Edit, Shown
<1>6. CASE TitleArrives
  BY <1>1, <1>6 DEF TitleArrives, runVars
<1>7. ASSUME NEW r \in Run, NEW reason \in {"settled", "paused"}, Finalize(r, reason) PROVE Goal
  BY <1>1, <1>7 DEF Finalize, Live
<1>8. CASE AppendLands
  BY <1>2, <1>8 DEF AppendLands, Writing
<1>9. CASE StartSettles
  <2>1. phase' = [phase EXCEPT ![1] = "live"]
    BY <1>2, <1>9 DEF StartSettles, LastLands, Writing, RunStarts
  <2> QED
    BY <1>1, <2>1 DEF RunType
<1>10. CASE SendSettles \/ ResumeSettles \/ DeleteSettles \/ PatchSettles
  BY <1>2, <1>10 DEF SendSettles, ResumeSettles, DeleteSettles, PatchSettles, LastLands, Writing
<1>11. CASE WriteFails
  <2>1. Current.run = 1 /\ phase' = [phase EXCEPT ![1] = "over"]
    <3>1. queue # <<>>
      BY <1>11 DEF WriteFails, Writing
    <3>2. phase' = IF Current.run # 0 THEN [phase EXCEPT ![Current.run] = "over"] ELSE phase
      BY <1>11 DEF WriteFails
    <3>3. Current.run = 1
      BY <1>2, <3>1
    <3> HIDE DEF Current
    <3> QED
      BY <3>2, <3>3
  <2> QED
    BY <1>1, <2>1 DEF RunType
<1>12. CASE Quit
  <2>1. PICK ends \in Seq(Jobs) :
          queue' = queue \o ends /\ \A i \in DOMAIN ends : \E r \in Live : ends[i] = Persist(r, Status)
    BY <1>12, QuitQueue
  <2>2. ends = <<>>
    <3>1. DOMAIN ends = {} /\ DOMAIN ends = 1..Len(ends) /\ Len(ends) \in Nat
      BY <1>1, <2>1
    <3>2. Len(ends) = 0
      BY <3>1
    <3> QED
      BY <3>2, LenCases
  <2>3. queue' = queue
    BY <1>1, <2>1, <2>2 DEF QueueType
  <2>4. phase' = [r \in Run |-> IF r \in Live THEN "over" ELSE phase[r]] /\ file' = file
    BY <1>12 DEF Quit
  <2> QED
    BY <1>1, <2>3, <2>4
<1>13. CASE Exit
  <2>1. phase' = [r \in Run |-> IF phase[r] \in {"queued", "live"} THEN "over" ELSE phase[r]]
        /\ queue' = <<>>
    BY <1>13 DEF Exit
  <2>2. CASE phase[1] = "queued"
    BY <1>1, <2>1, <2>2
  <2>3. CASE phase[1] = "none"
    <3>1. queue = <<>> /\ phase'[1] = "none"
      BY <1>1, <2>1, <2>3 DEF Opening
    <3> QED
      BY <1>13, <2>1, <2>3, <3>1 DEF Exit
  <2> QED
    BY <2>2, <2>3
<1>14. CASE Restart
  BY <1>14 DEF Restart, runVars
<1>15. CASE UNCHANGED vars
  BY <1>15 DEF vars, runVars
<1> QED
  BY <1>3, <1>4, <1>5, <1>6, <1>7, <1>8, <1>9, <1>10, <1>11, <1>12, <1>13, <1>14, <1>15
     DEF Next, User, Agent, Writer

(* Every step keeps the start job first and its title unheard until it settles. *)
LEMMA OpeningStep ==
  ASSUME History, Opening, [Next]_vars
  PROVE  Opening'
<1>1. /\ IType /\ InOrder /\ QueueType /\ FileType /\ RunType /\ 1 \in Run
  BY SessionLogAssumption DEF History, Order, IType, Run
<1>2. phase'[1] \in {"none", "queued"} => phase[1] \in {"none", "queued"}
  <2>1. phase[1] \in {"none", "queued", "live", "over"}
    BY <1>1 DEF RunType, Stage
  <2>2. phase[1] = "live" => phase'[1] \in {"live", "over"}
    BY <1>1, Stages DEF Finishes
  <2>3. phase[1] = "over" => phase'[1] = "over"
    BY <1>1, Stages
  <2> QED
    BY <2>1, <2>2, <2>3
<1>3. CASE phase'[1] \notin {"none", "queued"}
  BY <1>3 DEF Opening
<1>4. CASE StartSession /\ phase[1] = "none"
  <2> DEFINE job == Job("start", 1, <<Header, Say("user", 1), Titled("query")>>)
  <2>1. queue' = Append(queue, job) /\ phase' = [phase EXCEPT ![1] = "queued"] /\ file' = file
    BY <1>4 DEF StartSession, Enters
  <2>2. queue = <<>> /\ file = NoFile
    BY <1>4 DEF Opening
  <2>3. job \in Jobs /\ job.op = "start" /\ Len(job.entries) = 3
    BY <1>1, NewJobs, Three DEF Job
  <2> HIDE DEF job
  <2>4. Len(queue') = 1 /\ queue'[1] = job
    BY <2>1, <2>2, <2>3
  <2>5. file'.closed /\ Len(file'.lines) = 0
    BY <2>1, <2>2, FileParts
  <2>6. phase'[1] = "queued"
    BY <1>1, <2>1 DEF RunType
  <2> QED
    BY <2>3, <2>4, <2>5, <2>6 DEF Opening
<1>5. CASE phase[1] = "queued" /\ AppendLands
  <2>1. /\ queue # <<>> /\ Len(Current.entries) > 1 /\ file' = Appended(file, First)
        /\ queue' = <<Rest(Current)>> \o Tail(queue)
    BY <1>5 DEF AppendLands, Writing
  <2>2. /\ Len(queue) = 1 /\ queue[1].op = "start" /\ file.closed
        /\ Len(file.lines) + Len(queue[1].entries) = 3
        /\ Len(file.lines) >= 1 => file.lines[1] = Header
        /\ Len(file.lines) >= 2 => file.lines[2] = Say("user", 1)
    BY <1>5 DEF Opening
  <2>3. Current = queue[1] /\ Current \in Jobs /\ First = Current.entries[1] /\ First \in Line
        /\ Startwise(Current.entries) /\ Tail(queue) \in Seq(Jobs)
    <3>1. /\ Current = queue[1] /\ Current \in Jobs /\ First = Current.entries[1]
          /\ First # Remove => First \in Line
          /\ First = Remove <=> Current.op = "delete"
          /\ Tail(queue) \in Seq(Jobs)
      BY <1>1, <2>1, AtHead
    <3> QED
      BY <2>2, <3>1, JobParts
  <2>4. queue'[1] = Rest(Current) /\ Rest(Current) \in Jobs /\ Rest(Current).op = "start"
        /\ Len(Rest(Current).entries) = Len(Current.entries) - 1
    BY <1>1, <1>5, <2>1, <2>2, <2>3, Advanced, JobAdvance
  <2>5. Len(queue') = 1
    <3>1. Len(Tail(queue)) = 0
      BY <1>1, <2>1, <2>2, TailShifts DEF QueueType
    <3>2. <<Rest(Current)>> \in Seq(Jobs) /\ Len(<<Rest(Current)>>) = 1
      BY <2>4
    <3>3. Len(queue') = Len(<<Rest(Current)>>) + Len(Tail(queue))
      BY <2>1, <2>3, <3>2, ConcatParts
    <3> QED
      BY <3>1, <3>2, <3>3
  <2>6. /\ file'.closed /\ Len(file'.lines) = Len(file.lines) + 1
        /\ \A j \in 1..Len(file.lines) : file'.lines[j] = file.lines[j]
        /\ file'.lines[Len(file.lines) + 1] = First
        /\ Len(file.lines) \in Nat
    <3>1. file \in File /\ file.closed /\ DOMAIN file.lines = 1..Len(file.lines)
          /\ Len(file.lines) \in Nat /\ First \in Line
      BY <1>1, <2>2, <2>3, FileParts DEF FileType
    <3>2. file'.closed /\ file'.lines = Joined(file, First)
      BY <2>1, <3>1, FileParts
    <3>3. /\ Len(Joined(file, First)) = Len(file.lines) + 1
          /\ \A j \in DOMAIN file.lines : Joined(file, First)[j] = file.lines[j]
          /\ Joined(file, First)[Len(file.lines) + 1] = First
      BY <3>1, Joins
    <3> QED
      BY <3>1, <3>2, <3>3
  <2> DEFINE n == Len(file.lines)
             m == Len(Current.entries)
  <2>7. /\ n \in Nat /\ m \in 2..3 /\ n + m = 3
        /\ Len(file'.lines) = n + 1 /\ Len(queue'[1].entries) = m - 1
    <3>1. m \in 1..3
      BY <2>3, JobParts
    <3>2. m > 1
      BY <2>1
    <3>3. n \in Nat /\ n + m = 3
      BY <2>2, <2>3, <2>6
    <3>4. Len(file'.lines) = n + 1 /\ Len(queue'[1].entries) = m - 1
      BY <2>4, <2>6
    <3> HIDE DEF n, m
    <3> QED
      BY <3>1, <3>2, <3>3, <3>4
  <2>a. phase' = phase
    BY <1>5 DEF AppendLands, runVars
  <2>8. CASE m = 3
    <3>1. n = 0 /\ file'.lines[1] = Header
      <4> HIDE DEF n
      <4>1. n = 0
        BY <2>7, <2>8
      <4>2. First = Header
        BY <2>3, <2>8 DEF Startwise
      <4> QED
        BY <2>6, <4>1, <4>2 DEF n
    <3>2. Len(file'.lines) = 1 /\ Len(queue'[1].entries) = 2
      BY <2>7, <2>8, <3>1
    <3>3. /\ Len(queue') = 1 /\ queue'[1].op = "start" /\ file'.closed
          /\ phase'[1] = "queued"
      BY <1>5, <2>4, <2>5, <2>6, <2>a
    <3> QED
      BY <3>1, <3>2, <3>3 DEF Opening
  <2>9. CASE m = 2
    <3>1. n = 1 /\ file'.lines[1] = Header /\ file'.lines[2] = Say("user", 1)
      <4> HIDE DEF n
      <4>1. n = 1
        BY <2>7, <2>9
      <4>2. First = Say("user", 1)
        BY <2>3, <2>9 DEF Startwise
      <4> QED
        BY <2>2, <2>6, <4>1, <4>2 DEF n
    <3>2. Len(file'.lines) = 2 /\ Len(queue'[1].entries) = 1
      BY <2>7, <2>9, <3>1
    <3>3. /\ Len(queue') = 1 /\ queue'[1].op = "start" /\ file'.closed
          /\ phase'[1] = "queued"
      BY <1>5, <2>4, <2>5, <2>6, <2>a
    <3> QED
      BY <3>1, <3>2, <3>3 DEF Opening
  <2> QED
    BY <2>7, <2>8, <2>9
<1>6. CASE UNCHANGED <<queue, file>> /\ phase'[1] = phase[1]
  BY <1>6 DEF Opening
<1> QED
  BY <1>2, <1>3, <1>4, <1>5, <1>6, OpeningMoves

(* The provider starts before any start job. *)
LEMMA OpeningInit == Init => Opening
BY SessionLogAssumption DEF Init, Opening, Run

-----------------------------------------------------------------------------
(* Titles. *)

(* The title that the session has once `e` is the last entry with one.                  *)
TitleOf(e) == IF e = Garbage THEN Untitled ELSE e.title

(* The window shows the title that the file will end up with; a generated title is      *)
(* queued only after the placeholder or where there is no title at all.                 *)
TitleFollows == \E e \in Line : Ends("title", e, Len(queue)) /\ session.title = TitleOf(e)
GeneratedAfter ==
  \A j \in DOMAIN queue :
    Final(queue[j]) = Titled("generated") =>
      Ends("title", Titled("query"), j - 1) \/ Ends("title", Garbage, j - 1)
Renames ==
  \A i, j \in DOMAIN file.lines :
    i < j /\ file.lines[i] = Titled("renamed") /\ file.lines[j] = Titled("generated")
      => \E k \in i..j : file.lines[k] = Titled("query")
Titles ==
  /\ History /\ Opening
  /\ NoMishap => GeneratedAfter /\ Renames
  /\ NoMishap /\ window # "down" /\ session.listed => TitleFollows

(* The last entry of a kind with one default and with another.                          *)
LEMMA LastOfDefaults ==
  ASSUME NEW f \in File, NEW kind, kind # "garbage", NEW default
  PROVE  /\ LastOf(f, kind, Garbage) \in Line
         /\ LastOf(f, kind, Garbage) = Garbage \/ LastOf(f, kind, Garbage).kind = kind
         /\ LastOf(f, kind, default) =
              IF LastOf(f, kind, Garbage) = Garbage THEN default ELSE LastOf(f, kind, Garbage)
<1>1. f.lines \in Seq(Line) /\ DOMAIN f.lines = 1..Len(f.lines)
      /\ \A i \in DOMAIN f.lines : f.lines[i] \in Line
  BY FileParts
<1>2. CASE \A i \in DOMAIN f.lines : f.lines[i].kind # kind
  BY <1>2, LastOfNone, Entries
<1>3. CASE \E i \in DOMAIN f.lines :
             /\ f.lines[i].kind = kind
             /\ \A j \in DOMAIN f.lines : j > i => f.lines[j].kind # kind
             /\ LastOf(f, kind, Garbage) = f.lines[i]
  <2>1. PICK i \in DOMAIN f.lines :
          /\ f.lines[i].kind = kind
          /\ \A j \in DOMAIN f.lines : j > i => f.lines[j].kind # kind
          /\ LastOf(f, kind, Garbage) = f.lines[i]
    BY <1>3
  <2>2. LastOf(f, kind, default) = f.lines[i]
    BY <1>1, <2>1, LastOfAt
  <2> QED
    BY <1>1, <2>1, <2>2, Kinds
<1> QED
  BY <1>1, <1>2, <1>3, LastOfIs

(* What the file ends up with is a line of the kind, if there is one.                   *)
LEMMA EndsType ==
  ASSUME IType, NEW kind, kind \in {"title", "pinned", "paused"}, NEW e, NEW n \in 0..Len(queue),
         Ends(kind, e, n)
  PROVE  e \in Line /\ (e = Garbage \/ e.kind = kind)
<1>1. CASE e.kind = kind /\ \E k \in 1..n : Final(queue[k]) = e
  <2>1. PICK k \in 1..n : Final(queue[k]) = e
    BY <1>1
  <2>2. queue[k] \in Jobs
    BY <2>1 DEF IType, QueueType
  <2>3. /\ queue[k].entries \in Seq(Entry \cup {Remove}) /\ Len(queue[k].entries) \in 1..3
        /\ DOMAIN queue[k].entries = 1..Len(queue[k].entries)
    BY <2>2, JobEntries
  <2>4. PICK m \in 1..3 : m = Len(queue[k].entries)
    BY <2>3
  <2>5. queue[k].entries[m] \in Entry \cup {Remove}
    <3>1. m \in 1..m
      BY <2>4
    <3>2. DOMAIN queue[k].entries = 1..m
      BY <2>3, <2>4, Zenon
    <3> QED
      BY <2>3, <3>1, <3>2
  <2>6. e \in Entry \cup {Remove}
    BY <2>1, <2>4, <2>5 DEF Final
  <2> QED
    BY <1>1, <2>6, Kinds, Entries
<1>2. CASE LastOf(file, kind, Garbage) = e
  BY <1>2, LastOfDefaults DEF IType, FileType
<1> QED
  BY <1>1, <1>2 DEF Ends

(* What the jobs end with.                                                              *)
LEMMA Finals ==
  /\ \A e : Final(Patch(e)) = e
  /\ \A r, e : Final(Persist(r, e)) = e
  /\ \A op, r, e : Final(Job(op, r, <<e>>)) = e
  /\ \A op, r, e, f : Final(Job(op, r, <<e, f>>)) = f
  /\ \A op, r, e, f, g : Final(Job(op, r, <<e, f, g>>)) = g
BY DEF Final, Patch, Persist, Job

(* What a step does about the title.                                                    *)
Retitles(t) ==
  /\ queue' = Append(queue, Patch(Titled(t))) /\ UNCHANGED file
  /\ session'.title = t /\ session.listed /\ window # "down"
  /\ t = "generated" => session.title = "query"

(* What a step without a mishap can do about the title. *)
LEMMA TitleMoves ==
  ASSUME History, [Next]_vars, ~Exit, ~WriteFails
  PROVE  \/ Quiet("title") /\ (session'.title = session.title \/ StartSettles \/ Restart)
         \/ \E t \in Title : Retitles(t)
         \/ StartSession
<1> DEFINE Goal == \/ Quiet("title") /\ (session'.title = session.title \/ StartSettles \/ Restart)
                   \/ \E t \in Title : Retitles(t)
                   \/ StartSession
<1> SUFFICES Goal
  OBVIOUS
<1>1. IType /\ session \in Sessions
  BY DEF History, Order, IType, SessionType
<1>2. /\ Status.kind # "title" /\ Remove.kind # "title" /\ Tombstone.kind # "title"
      /\ \A b : Pinned(b).kind # "title" /\ \A r : Paused(r).kind # "title"
      /\ {"query", "renamed", "generated"} = Title /\ Patch(Tombstone) \in Jobs
  BY Kinds, NewJobs DEF Title
<1>3. CASE StartSession
  BY <1>3
<1>4. ASSUME NEW r \in Run, SendMessage(r) PROVE Goal
  <2>1. queue' = Append(queue, Job("send", r, <<Say("user", r), Status>>))
        /\ UNCHANGED <<file, session>>
    BY <1>4 DEF SendMessage, Enters
  <2> QED
    BY <1>1, <1>2, <2>1, QuietAppend, NewJobs, Finals
<1>5. ASSUME NEW r \in Run, ResumeSession(r) PROVE Goal
  <2>1. /\ queue' = Append(Append(queue, Patch(Tombstone)), Job("resume", r, <<Status>>))
        /\ UNCHANGED file /\ session' = [session EXCEPT !.frozen = 0]
    BY <1>5 DEF ResumeSession, Enters, Cleared
  <2>2. session'.title = session.title
    BY <1>1, <2>1 DEF Sessions
  <2> QED
    <3>1. Job("resume", r, <<Status>>) \in Jobs /\ Final(Job("resume", r, <<Status>>)) = Status
          /\ Final(Patch(Tombstone)) = Tombstone
      BY NewJobs DEF Final, Patch, Job
    <3>2. Quiet("title")
      BY <1>1, <1>2, <2>1, <3>1, QuietAppendTwo
    <3> QED
      BY <2>2, <3>2
<1>6. ASSUME NEW t \in {"query", "renamed"}, RenameSession(t) PROVE Goal
  <2>1. /\ queue' = Append(queue, Patch(Titled(t))) /\ UNCHANGED file
        /\ session' = [session EXCEPT !.title = t] /\ session.listed /\ window # "down"
    BY <1>6 DEF RenameSession, Edit, Shown
  <2>2. session'.title = t
    BY <1>1, <2>1 DEF Sessions
  <2> QED
    BY <1>2, <2>1, <2>2 DEF Retitles
<1>7. CASE TogglePin
  <2>1. queue' = Append(queue, Patch(Pinned(~session.isPinned))) /\ UNCHANGED <<file, session>>
    BY <1>7 DEF TogglePin, Edit
  <2>2. Patch(Pinned(~session.isPinned)) \in Jobs
    BY <1>1, NewJobs DEF Sessions
  <2> QED
    BY <1>1, <1>2, <2>1, <2>2, QuietAppend, Finals
<1>8. CASE DeleteSession
  <2>1. /\ queue' = Append(queue, Job("delete", 0, <<Remove>>)) /\ UNCHANGED file
        /\ session' = [session EXCEPT !.frozen = 0]
    BY <1>8 DEF DeleteSession
  <2>2. session'.title = session.title
    BY <1>1, <2>1 DEF Sessions
  <2> QED
    BY <1>1, <1>2, <2>1, <2>2, QuietAppend, NewJobs, Finals
<1>9. CASE TitleArrives
  <2>1. CASE session.title = "query" /\ session.listed
    <3>1. /\ queue' = Append(queue, Patch(Titled("generated"))) /\ UNCHANGED file
          /\ session' = [session EXCEPT !.title = "generated"] /\ window # "down"
      BY <1>9, <2>1 DEF TitleArrives
    <3>2. session'.title = "generated"
      BY <1>1, <3>1 DEF Sessions
    <3> QED
      BY <1>2, <2>1, <3>1, <3>2 DEF Retitles
  <2>2. CASE ~(session.title = "query" /\ session.listed)
    BY <1>1, <1>9, <2>2, QuietKeep DEF TitleArrives
  <2> QED
    BY <2>1, <2>2
<1>10. ASSUME NEW r \in Run, NEW reason \in {"settled", "paused"}, Finalize(r, reason) PROVE Goal
  <2>1. PICK end \in {Status, Paused(r)} : queue' = Append(queue, Persist(r, end))
    BY <1>10 DEF Finalize
  <2>2. UNCHANGED file
    BY <1>10 DEF Finalize
  <2>3. session'.title = session.title
    BY <1>1, <1>10 DEF Finalize, Sessions
  <2> QED
    <3>1. Persist(r, end) \in Jobs
      BY <2>1, NewJobs
    <3>2. Final(Persist(r, end)) = end /\ end.kind # "title"
      BY <1>2, <2>1, Finals
    <3>3. Quiet("title")
      BY <1>1, <2>1, <2>2, <3>1, <3>2, QuietAppend
    <3> QED
      BY <2>3, <3>3
<1>11. CASE AppendLands
  BY <1>1, <1>11, QuietAdvance DEF AppendLands
<1>12. CASE Settled
  <2>1. Quiet("title")
    BY <1>1, <1>12, QuietLeave
  <2>2. session'.title = session.title \/ StartSettles
    BY <1>1, <1>12 DEF Settled, SendSettles, ResumeSettles, DeleteSettles, PatchSettles, Sessions
  <2>3. CASE session'.title = session.title
    BY <2>1, <2>3
  <2>4. CASE StartSettles
    BY <2>1, <2>4
  <2> QED
    BY <2>2, <2>3, <2>4
<1>13. CASE Quit
  <2>1. Quiet("title")
    BY <1>1, <1>13, QuietQuit
  <2>2. session'.title = session.title
    BY <1>1, <1>13 DEF Quit, Sessions
  <2> QED
    BY <2>1, <2>2
<1>14. CASE Restart
  BY <1>1, <1>14, QuietKeep DEF Restart
<1>15. CASE UNCHANGED vars
  BY <1>1, <1>15, QuietKeep DEF vars
<1> QED
  BY <1>3, <1>4, <1>5, <1>6, <1>7, <1>8, <1>9, <1>10, <1>11, <1>12, <1>13, <1>14, <1>15
     DEF Next, User, Agent, Writer, Settled

(* What a job added at the end leaves as it was.                                        *)
LEMMA AppendedBehind ==
  ASSUME IType, NEW job \in Jobs, queue' = Append(queue, job)
  PROVE  /\ \A n \in 0..Len(queue) : SameEnds(n, 0)
         /\ \A k \in DOMAIN queue' :
              \/ k \in DOMAIN queue /\ k - 1 \in 0..Len(queue) /\ queue'[k] = queue[k]
              \/ k = Len(queue) + 1 /\ queue'[k] = job
<1>1. queue \in Seq(Jobs) /\ Len(queue) \in Nat /\ DOMAIN queue = 1..Len(queue)
  BY DEF IType, QueueType
<1>2. \A j \in DOMAIN queue : queue'[j] = queue[j]
  BY <1>1, AppendParts
<1>3. ASSUME NEW n \in 0..Len(queue) PROVE SameEnds(n, 0)
  <2>1. \A k \in 1..(n - 0) : k \in DOMAIN queue /\ k + 0 = k
    BY <1>1
  <2> QED
    BY <1>2, <2>1 DEF SameEnds
<1>4. ASSUME NEW k \in DOMAIN queue'
      PROVE  \/ k \in DOMAIN queue /\ k - 1 \in 0..Len(queue) /\ queue'[k] = queue[k]
             \/ k = Len(queue) + 1 /\ queue'[k] = job
  <2>1. \/ k \in DOMAIN queue /\ queue'[k] = queue[k]
        \/ k = Len(queue) + 1 /\ queue'[k] = job
    BY <1>1, <1>4, AppendParts
  <2>2. k \in DOMAIN queue => k - 1 \in 0..Len(queue)
    BY <1>1
  <2> QED
    BY <2>1, <2>2
<1> QED
  BY <1>3, <1>4

(* The title of the window stays the one the file ends up with. *)
LEMMA TitleStep ==
  ASSUME Titles, [Next]_vars, NoMishap', window' # "down", session'.listed
  PROVE  TitleFollows'
<1>1. /\ History /\ IType /\ Opening /\ FileType /\ file \in File
      /\ queue \in Seq(Jobs) /\ Len(queue) \in Nat
  BY DEF Titles, History, Order, IType, FileType, QueueType
<1>2. NoMishap /\ ~WriteFails /\ ~Exit /\ file.closed
  BY <1>1, MishapsStay DEF Exit
<1>3. CASE Restart
  <2>1. queue' = queue /\ file' = file /\ session' = Hydrated(file) /\ window = "down"
    BY <1>3 DEF Restart
  <2>2. queue = <<>>
    BY <1>1, <2>1 DEF History, Order, DownIsQuiet
  <2>a. PICK e \in Line : e = LastOf(file, "title", Garbage)
    BY <1>1, LastOfDefaults
  <2>3. session'.title = LastOf(file, "title", [title |-> Untitled]).title
    <3>1. Loads(file)
      BY <1>1, <2>1, HydratedType
    <3> QED
      BY <2>1, <3>1 DEF Hydrated, FoldedTitle
  <2>4. session'.title = TitleOf(e)
    BY <1>1, <2>3, <2>a, LastOfDefaults DEF TitleOf
  <2>5. Ends("title", e, Len(queue))'
    <3>1. Len(queue') = 0
      BY <2>1, <2>2
    <3> QED
      BY <2>1, <2>a, <3>1 DEF Ends
  <2> QED
    BY <2>4, <2>5 DEF TitleFollows
<1>4. CASE StartSettles
  <2>1. /\ queue # <<>> /\ Len(Current.entries) = 1 /\ Current.op = "start" /\ queue' = Tail(queue)
        /\ file' = (IF First = Remove THEN NoFile ELSE Appended(file, First))
        /\ session' = [listed |-> TRUE, messages |-> {Say("user", Current.run)},
                       title |-> "query", isPinned |-> FALSE, frozen |-> 0]
    BY <1>4 DEF StartSettles, LastLands, Writing
  <2>2. First = Titled("query") /\ First \in Line /\ First # Remove
    <3>1. Current \in Jobs /\ First = Current.entries[1] /\ (First # Remove => First \in Line)
          /\ (First = Remove <=> Current.op = "delete")
      BY <1>1, <2>1, AtHead DEF IType
    <3>2. Startwise(Current.entries)
      BY <2>1, <3>1, JobParts
    <3> QED
      BY <2>1, <3>1, <3>2 DEF Startwise
  <2>3. LastOf(file', "title", Garbage) = Titled("query")
    BY <1>1, <1>2, <2>1, <2>2, LastAppended, Kinds
  <2>4. Len(queue') = 0
    <3>1. Current.run = 1 /\ phase[1] = "queued"
      BY <1>1, <2>1, HeadQueued DEF History, Order, IType, InOrder
    <3>2. Len(queue) = 1
      BY <1>1, <3>1 DEF Opening
    <3> QED
      BY <1>1, <2>1, <3>2, TailShifts
  <2>5. Ends("title", Titled("query"), Len(queue))'
    BY <2>3, <2>4 DEF Ends
  <2>6. session'.title = TitleOf(Titled("query"))
    BY <2>1, Kinds DEF TitleOf
  <2> QED
    BY <2>2, <2>5, <2>6 DEF TitleFollows
<1>5. CASE ~Restart /\ ~StartSettles
  <2>1. session.listed /\ window # "down"
    <3>1. session.listed
      BY <1>1, <1>5, SessionMoves
    <3>2. window # "down"
      BY <1>1, <1>5, WindowMoves DEF IType, vars
    <3> QED
      BY <3>1, <3>2
  <2>2. PICK e \in Line : Ends("title", e, Len(queue)) /\ session.title = TitleOf(e)
    BY <1>2, <2>1 DEF Titles, TitleFollows
  <2>3. CASE Quiet("title") /\ session'.title = session.title
    <3>1. ~DeleteSettles
      <4>1. ASSUME DeleteSettles PROVE FALSE
        <5>1. session' = [session EXCEPT !.listed = FALSE] /\ session \in Sessions
          BY <1>1, <4>1 DEF DeleteSettles, IType, SessionType
        <5>2. session'.listed = FALSE
          BY <5>1 DEF Sessions
        <5> QED
          BY <5>2
      <4> QED
        BY <4>1
    <3>2. Ends("title", e, Len(queue))'
      BY <1>1, <2>2, <2>3, <3>1, EndsStay
    <3> QED
      BY <2>2, <2>3, <3>2 DEF TitleFollows
  <2>4. ASSUME NEW t \in Title, Retitles(t) PROVE TitleFollows'
    <3>1. queue' = Append(queue, Patch(Titled(t))) /\ session'.title = t
      BY <2>4 DEF Retitles
    <3>2. Patch(Titled(t)) \in Jobs /\ Final(Patch(Titled(t))) = Titled(t)
      BY NewJobs, Finals
    <3>3. Ends(Titled(t).kind, Titled(t), Len(queue))'
      BY <1>1, <3>1, <3>2, EndsLast
    <3>4. Titled(t) \in Line /\ Titled(t).kind = "title" /\ t = TitleOf(Titled(t))
      BY Entries, Kinds DEF TitleOf
    <3> QED
      BY <3>1, <3>3, <3>4 DEF TitleFollows
  <2>5. ~StartSession
    <3>1. phase[1] # "none"
      BY <1>1, <2>1 DEF History, Order, ListedBegun
    <3> QED
      BY <3>1 DEF StartSession
  <2> QED
    BY <1>1, <1>2, <1>5, <2>3, <2>4, <2>5, TitleMoves
<1> QED
  BY <1>3, <1>4, <1>5

(* A generated title is only ever queued over the query's. *)
LEMMA GeneratedStep ==
  ASSUME Titles, [Next]_vars, NoMishap'
  PROVE  GeneratedAfter'
<1>1. /\ History /\ IType /\ Opening
      /\ queue \in Seq(Jobs) /\ Len(queue) \in Nat /\ DOMAIN queue = 1..Len(queue)
  BY DEF Titles, History, Order, IType, QueueType
<1>2. NoMishap /\ ~WriteFails /\ GeneratedAfter
  BY <1>1, MishapsStay DEF Titles
<1> DEFINE After(k) == Ends("title", Titled("query"), k - 1)' \/ Ends("title", Garbage, k - 1)'
<1>3. SUFFICES ASSUME NEW k \in DOMAIN queue', Final(queue'[k]) = Titled("generated")
               PROVE  After(k)
  BY DEF GeneratedAfter
<1>4. queue' \in Seq(Jobs) /\ k \in Nat /\ k >= 1 /\ k <= Len(queue') /\ Len(queue') \in Nat
  BY <1>1, <1>3, QueueStep DEF QueueType
<1>5. CASE Exit
  <2>1. queue' = <<>>
    BY <1>5 DEF Exit
  <2> QED
    BY <1>3, <2>1
<1>6. ASSUME NEW d \in {0, 1}, d = 0 => AppendLands \/ UNCHANGED file, d = 1 => Settled,
             NEW n \in Nat, n >= d, SameEnds(n, d), n - d = k - 1,
             NEW e, e \in {Titled("query"), Garbage}, Ends("title", e, n)
      PROVE  After(k)
  <2>1. Ends("title", e, n - d)' \/ Ends("title", Garbage, n - d)'
    BY <1>1, <1>6, EndsStep
  <2> QED
    BY <1>6, <2>1
<1>7. CASE Quiet("title")
  <2>1. PICK d \in {0, 1} :
          /\ SameEnds(Len(queue), d) /\ d <= Len(queue) /\ Len(queue') >= Len(queue) - d
          /\ d = 0 => AppendLands \/ UNCHANGED file
          /\ d = 1 => Settled
          /\ \A j \in 1..Len(queue') : j + d > Len(queue) => Final(queue'[j]).kind # "title"
    BY <1>7 DEF Quiet
  <2>2. ~(k + d > Len(queue))
    <3>1. Final(queue'[k]).kind = "title"
      BY <1>3, Kinds
    <3> QED
      BY <1>4, <2>1, <3>1
  <2>3. k + d \in DOMAIN queue /\ Final(queue[k + d]) = Titled("generated")
    <3>1. k \in 1..(Len(queue) - d)
      BY <1>1, <1>4, <2>2
    <3> QED
      BY <1>1, <1>3, <1>4, <2>1, <2>2, <3>1 DEF SameEnds
  <2>4. PICK e \in {Titled("query"), Garbage} : Ends("title", e, (k + d) - 1)
    BY <1>2, <2>3 DEF GeneratedAfter
  <2>5. PICK n \in Nat : n = (k + d) - 1
    BY <1>4
  <2>6. n >= d /\ n <= Len(queue) /\ n - d = k - 1
    BY <1>1, <1>4, <2>2, <2>5
  <2>7. SameEnds(n, d)
    <3>1. \A j \in 1..(n - d) : j \in 1..(Len(queue) - d)
      BY <1>1, <2>6
    <3> QED
      BY <2>1, <3>1 DEF SameEnds
  <2>8. Ends("title", e, n)
    BY <2>4, <2>5
  <2> QED
    BY <1>6, <2>1, <2>6, <2>7, <2>8
<1>8. ASSUME NEW job \in Jobs, queue' = Append(queue, job), UNCHANGED file,
             Final(job) = Titled("generated") =>
               \E e \in {Titled("query"), Garbage} : Ends("title", e, Len(queue))
      PROVE  After(k)
  <2>1. CASE k \in DOMAIN queue /\ k - 1 \in 0..Len(queue) /\ queue'[k] = queue[k]
    <3>1. PICK e \in {Titled("query"), Garbage} : Ends("title", e, k - 1)
      BY <1>2, <1>3, <2>1 DEF GeneratedAfter
    <3>2. k - 1 \in Nat /\ SameEnds(k - 1, 0) /\ k - 1 >= 0 /\ (k - 1) - 0 = k - 1
      BY <1>1, <1>4, <1>8, <2>1, AppendedBehind
    <3> QED
      BY <1>6, <1>8, <3>1, <3>2
  <2>2. CASE k = Len(queue) + 1 /\ queue'[k] = job
    <3>1. PICK e \in {Titled("query"), Garbage} : Ends("title", e, Len(queue))
      BY <1>3, <1>8, <2>2
    <3>2. k - 1 = Len(queue)
      BY <1>1, <2>2
    <3>3. k - 1 \in Nat /\ SameEnds(k - 1, 0) /\ k - 1 >= 0 /\ (k - 1) - 0 = k - 1
      BY <1>1, <1>8, <3>2, AppendedBehind
    <3>4. Ends("title", e, k - 1)
      BY <3>1, <3>2
    <3> QED
      BY <1>6, <1>8, <3>3, <3>4
  <2> QED
    BY <1>1, <1>3, <1>8, <2>1, <2>2, AppendedBehind
<1>9. ASSUME NEW t \in Title, Retitles(t) PROVE After(k)
  <2>1. /\ queue' = Append(queue, Patch(Titled(t))) /\ UNCHANGED file
        /\ session.listed /\ window # "down"
        /\ t = "generated" => session.title = "query"
    BY <1>9 DEF Retitles
  <2>2. Patch(Titled(t)) \in Jobs /\ Final(Patch(Titled(t))) = Titled(t)
    BY NewJobs, Finals
  <2>3. ASSUME Titled(t) = Titled("generated")
        PROVE  \E e \in {Titled("query"), Garbage} : Ends("title", e, Len(queue))
    <3>1. t = "generated"
      BY <2>3, Kinds
    <3>2. PICK e \in Line : Ends("title", e, Len(queue)) /\ "query" = TitleOf(e)
      BY <1>2, <2>1, <3>1 DEF Titles, TitleFollows
    <3>3. e = Garbage \/ e.kind = "title"
      BY <1>1, <3>2, EndsType
    <3>4. e.kind = "title" => e = Titled("query")
      <4>1. ASSUME e.kind = "title" PROVE e = Titled("query")
        <5>1. PICK u \in Title : e = Titled(u)
          BY <4>1, EntryKinds
        <5>2. u = "query"
          BY <3>2, <5>1, Kinds DEF TitleOf
        <5> QED
          BY <5>1, <5>2
      <4> QED
        BY <4>1
    <3> QED
      BY <3>2, <3>3, <3>4
  <2> QED
    BY <1>8, <2>1, <2>2, <2>3
<1>10. CASE StartSession
  <2>1. queue' = Append(queue, Job("start", 1, <<Header, Say("user", 1), Titled("query")>>))
        /\ UNCHANGED file
    BY <1>10 DEF StartSession, Enters
  <2>2. Job("start", 1, <<Header, Say("user", 1), Titled("query")>>) \in Jobs
    BY SessionLogAssumption, NewJobs DEF Run
  <2>3. Final(Job("start", 1, <<Header, Say("user", 1), Titled("query")>>)) = Titled("query")
    BY DEF Final, Job
  <2>4. Titled("query") # Titled("generated")
    BY Kinds
  <2> QED
    BY <1>8, <2>1, <2>2, <2>3, <2>4
<1> QED
  BY <1>1, <1>2, <1>5, <1>7, <1>9, <1>10, TitleMoves

(* A rename that is queued or logged is not followed by a generated title. *)
LEMMA RenamesStep ==
  ASSUME Titles, [Next]_vars, NoMishap'
  PROVE  Renames'
<1>1. History /\ IType /\ FileType /\ QueueType /\ file \in File
  BY DEF Titles, History, Order, IType, FileType
<1>2. NoMishap /\ file.closed /\ (Keeps \/ Lands \/ Removes \/ Unheard) /\ Renames /\ GeneratedAfter
  BY <1>1, MishapsStay DEF Titles
<1>3. CASE Keeps
  BY <1>2, <1>3 DEF Keeps, Renames
<1>4. CASE Removes
  <2>1. file'.lines = <<>>
    BY <1>4, FileParts DEF Removes
  <2> QED
    BY <2>1 DEF Renames
<1>5. CASE Lands \/ Unheard
  <2>1. queue # <<>> /\ First \in Line /\ file' = Appended(file, First)
    BY <1>5 DEF Lands, Unheard
  <2> DEFINE n == Len(file.lines)
  <2>2. /\ \A j \in DOMAIN file.lines : j \in DOMAIN file'.lines /\ file'.lines[j] = file.lines[j]
        /\ \A j \in DOMAIN file'.lines :
             \/ j \in DOMAIN file.lines /\ file'.lines[j] = file.lines[j]
             \/ j = n + 1 /\ file'.lines[j] = First
        /\ n \in Nat /\ DOMAIN file.lines = 1..n
    BY <1>1, <1>2, <2>1, NewLine
  <2> HIDE DEF n
  <2>3. SUFFICES ASSUME NEW i \in DOMAIN file'.lines, NEW j \in DOMAIN file'.lines, i < j,
                        file'.lines[i] = Titled("renamed"), file'.lines[j] = Titled("generated")
                 PROVE  \E k \in i..j : file'.lines[k] = Titled("query")
    BY DEF Renames
  <2>4. i \in DOMAIN file.lines /\ file.lines[i] = Titled("renamed") /\ i \in 1..n
    BY <2>2, <2>3
  <2>5. CASE j \in DOMAIN file.lines
    <3>1. PICK k \in i..j : file.lines[k] = Titled("query")
      BY <1>2, <2>2, <2>3, <2>4, <2>5 DEF Renames
    <3>2. k \in DOMAIN file.lines
      BY <2>2, <2>4, <2>5
    <3> QED
      BY <2>2, <3>1, <3>2
  <2>6. CASE j = n + 1 /\ First = Titled("generated")
    <3>1. Final(queue[1]) = Titled("generated") /\ 1 \in DOMAIN queue
      <4>1. Current = queue[1] /\ Current \in Jobs /\ First = Current.entries[1]
            /\ 1 \in DOMAIN Current.entries /\ 1 \in DOMAIN queue
        BY <1>1, <2>1, AtHead
      <4>2. Current.entries[1].kind = "title"
        BY <2>6, <4>1, Kinds
      <4>3. 1 = Len(Current.entries)
        BY <4>1, <4>2, JobOrder
      <4> QED
        BY <2>6, <4>1, <4>3 DEF Final
    <3>2. Ends("title", Titled("query"), 1 - 1) \/ Ends("title", Garbage, 1 - 1)
      BY <1>2, <3>1 DEF GeneratedAfter
    <3>3. LastOf(file, "title", Garbage) \in {Titled("query"), Garbage}
      <4>1. \A k \in 1..(1 - 1) : FALSE
        OBVIOUS
      <4> QED
        BY <3>2, <4>1 DEF Ends
    <3>4. PICK m \in DOMAIN file.lines :
            /\ file.lines[m].kind = "title"
            /\ \A l \in DOMAIN file.lines : l > m => file.lines[l].kind # "title"
            /\ LastOf(file, "title", Garbage) = file.lines[m]
      <4>1. file.lines \in Seq(Line) /\ file.lines[i].kind = "title"
        BY <1>1, <2>4, FileParts, Kinds
      <4> QED
        BY <2>4, <4>1, LastOfIs
    <3>5. file.lines[m] = Titled("query")
      BY <3>3, <3>4, Kinds
    <3>6. ~(i > m)
      BY <2>4, <3>4, Kinds
    <3>7. m \in i..j
      BY <2>2, <2>4, <2>6, <3>4, <3>6
    <3> QED
      BY <2>2, <3>4, <3>5, <3>7
  <2> QED
    BY <2>2, <2>3, <2>5, <2>6
<1> QED
  BY <1>2, <1>3, <1>4, <1>5

(* Every step keeps the titles. *)
LEMMA TitlesStep ==
  ASSUME Titles, [Next]_vars
  PROVE  Titles'
<1>1. History' /\ Opening'
  BY HistoryStep, OpeningStep DEF Titles
<1>2. NoMishap' => (GeneratedAfter' /\ Renames')
  BY GeneratedStep, RenamesStep
<1>3. NoMishap' /\ window' # "down" /\ session'.listed => TitleFollows'
  BY TitleStep
<1> QED
  BY <1>1, <1>2, <1>3 DEF Titles

(* The provider starts without a title. *)
LEMMA TitlesInit == Init => Titles
<1> SUFFICES ASSUME Init PROVE Titles
  OBVIOUS
<1>1. History /\ Opening
  BY HistoryInit, OpeningInit
<1>2. queue = <<>> /\ file.lines = <<>> /\ ~session.listed
  <2>1. queue = <<>> /\ file.lines = <<>> /\ session = Hydrated(NoFile)
    BY FileParts DEF Init
  <2>2. ~Loads(NoFile)
    BY FileParts DEF Loads
  <2> QED
    BY <2>1, <2>2, HydratedType, FileParts
<1> QED
  BY <1>1, <1>2 DEF Titles, GeneratedAfter, Renames

(* The titles hold in every reachable state. *)
LEMMA TitlesInvariant == Spec => []Titles
<1>1. Init => Titles
  BY TitlesInit
<1>2. Titles /\ [Next]_vars => Titles'
  BY TitlesStep
<1> QED
  BY <1>1, <1>2, PTL DEF Spec

(* A generated title never covers a rename in the log, unless the user went back to the *)
(* placeholder in between (renameSession against generateTitle).                        *)
THEOREM RenamesStick == Spec => []RenameSticks
<1>1. Titles => RenameSticks
  BY DEF Titles, RenameSticks, Renames, NoMishap
<1> QED
  BY <1>1, TitlesInvariant, PTL

-----------------------------------------------------------------------------
(* What the queue and the file hold, from one step to the next. *)

(* A run is queued by a job of its own.                                                 *)
LEMMA AskedEnters ==
  ASSUME History, [Next]_vars, NEW r \in Run, Asks(r)
  PROVE  \E from, entries, op, q :
           /\ Enters(r, from, entries, op, q) /\ Job(op, r, entries) \in Jobs
           /\ q = queue \/ q = Append(queue, Patch(Tombstone))
<1> DEFINE Goal == \E from, entries, op, q :
                     /\ Enters(r, from, entries, op, q) /\ Job(op, r, entries) \in Jobs
                     /\ q = queue \/ q = Append(queue, Patch(Tombstone))
<1> SUFFICES Goal
  OBVIOUS
<1>1. IType /\ InOrder /\ RunType /\ QueueType /\ phase[r] = "none" /\ phase'[r] = "queued"
  <2>1. IType /\ InOrder /\ RunType /\ QueueType
    BY DEF History, Order, IType
  <2> QED
    BY <2>1, Stages DEF Asks
<1>a. ASSUME UNCHANGED phase PROVE FALSE
  BY <1>1, <1>a
<1>b. ASSUME NEW s \in Run, NEW v, v # "queued", phase' = [phase EXCEPT ![s] = v] PROVE FALSE
  BY <1>1, <1>b DEF RunType
<1>c. ASSUME NEW s \in Run, phase' = [phase EXCEPT ![s] = "queued"] PROVE r = s
  BY <1>1, <1>c DEF RunType
<1>1a. CASE StartSession
  <2>1. 1 \in Run /\ Enters(1, 0, <<Header, Say("user", 1), Titled("query")>>, "start", queue)
    BY <1>1a, SessionLogAssumption DEF StartSession, Run
  <2>2. r = 1
    BY <1>c, <2>1 DEF Enters
  <2> QED
    BY <2>1, <2>2, NewJobs
<1>2. ASSUME NEW s \in Run, SendMessage(s) PROVE Goal
  <2>1. Enters(s, 0, <<Say("user", s), Status>>, "send", queue)
    BY <1>2 DEF SendMessage
  <2>2. r = s
    BY <1>c, <2>1 DEF Enters
  <2> QED
    BY <2>1, <2>2, NewJobs
<1>3. ASSUME NEW s \in Run, ResumeSession(s) PROVE Goal
  <2>1. Enters(s, session.frozen, <<Status>>, "resume", Append(queue, Patch(Tombstone)))
    BY <1>3 DEF ResumeSession, Cleared
  <2>2. r = s
    BY <1>c, <2>1 DEF Enters
  <2> QED
    BY <2>1, <2>2, NewJobs
<1>4. CASE TogglePin \/ \E t \in {"query", "renamed"} : RenameSession(t)
  BY <1>a, <1>4 DEF TogglePin, RenameSession, Edit, runVars
<1>5. CASE DeleteSession \/ TitleArrives \/ AppendLands \/ Restart \/ UNCHANGED vars
  BY <1>a, <1>5 DEF DeleteSession, TitleArrives, AppendLands, Restart, vars, runVars
<1>6. ASSUME NEW s \in Run, NEW reason \in {"settled", "paused"}, Finalize(s, reason) PROVE Goal
  BY <1>b, <1>6 DEF Finalize
<1>7. CASE StartSettles \/ SendSettles \/ ResumeSettles
  <2>1. queue # <<>> /\ Current.op \in {"start", "send", "resume"} /\ RunStarts
    BY <1>7 DEF StartSettles, SendSettles, ResumeSettles, LastLands, Writing
  <2>2. Current.run \in Run /\ phase' = [phase EXCEPT ![Current.run] = "live"]
    BY <1>1, <2>1, HeadRun DEF RunStarts
  <2> QED
    BY <1>b, <2>2
<1>8. CASE DeleteSettles \/ PatchSettles
  BY <1>a, <1>8 DEF DeleteSettles, PatchSettles
<1>9. CASE WriteFails
  <2>1. queue # <<>>
        /\ phase' = (IF Current.run # 0 THEN [phase EXCEPT ![Current.run] = "over"] ELSE phase)
    BY <1>9 DEF WriteFails, Writing
  <2>2. Current.run \in Run \cup {0}
    BY <1>1, <2>1, HeadRun
  <2>3. CASE Current.run = 0
    BY <1>a, <2>1, <2>3
  <2>4. CASE Current.run # 0
    BY <1>b, <2>1, <2>2, <2>4
  <2> QED
    BY <2>3, <2>4
<1>10. CASE Quit
  <2>1. phase' = [s \in Run |-> IF s \in Live THEN "over" ELSE phase[s]]
    BY <1>10 DEF Quit
  <2>2. phase'[r] # "queued"
    BY <1>1, <2>1
  <2> QED
    BY <1>1, <2>2
<1>11. CASE Exit
  <2>1. phase' = [s \in Run |-> IF phase[s] \in {"queued", "live"} THEN "over" ELSE phase[s]]
    BY <1>11 DEF Exit
  <2>2. phase'[r] # "queued"
    BY <1>1, <2>1
  <2> QED
    BY <1>1, <2>2
<1> QED
  BY <1>1a, <1>2, <1>3, <1>4, <1>5, <1>6, <1>7, <1>8, <1>9, <1>10, <1>11
     DEF Next, User, Agent, Writer

QueuedWaits ==
  \A r \in Run : phase[r] = "queued" => \E k \in DOMAIN queue : queue[k].run = r

(* Every step keeps a job in the queue for each run that waits to be sent. *)
LEMMA WaitsStep ==
  ASSUME History, QueuedWaits, [Next]_vars
  PROVE  QueuedWaits'
<1>1. /\ IType /\ InOrder /\ RunType /\ QueueType /\ QueueType'
      /\ queue \in Seq(Jobs) /\ Len(queue) \in Nat /\ DOMAIN queue = 1..Len(queue)
      /\ Len(queue') \in Nat /\ DOMAIN queue' = 1..Len(queue')
  BY QueueStep DEF History, Order, IType, QueueType
<1>2. SUFFICES ASSUME NEW r \in Run, phase'[r] = "queued"
               PROVE  \E k \in DOMAIN queue' : queue'[k].run = r
  BY DEF QueuedWaits
<1>3. CASE Asks(r)
  <2>1. PICK from, entries, op, q :
          /\ Enters(r, from, entries, op, q) /\ Job(op, r, entries) \in Jobs
          /\ q = queue \/ q = Append(queue, Patch(Tombstone))
    BY <1>3, AskedEnters
  <2>2. q \in Seq(Jobs) /\ queue' = Append(q, Job(op, r, entries))
    BY <1>1, <2>1, NewJobs, AppendParts DEF Enters
  <2>3. Len(q) + 1 \in DOMAIN queue' /\ queue'[Len(q) + 1] = Job(op, r, entries)
    BY <2>1, <2>2, AppendParts
  <2> QED
    BY <2>3 DEF Job
<1>4. CASE ~Asks(r)
  <2>1. phase[r] = "queued"
    BY <1>1, <1>2, <1>4, Stages DEF RunType, Stage, Finishes
  <2>2. PICK k \in DOMAIN queue : queue[k].run = r
    BY <2>1 DEF QueuedWaits
  <2>3. ~Exit
    <3>1. ASSUME Exit PROVE FALSE
      <4>1. phase' = [s \in Run |-> IF phase[s] \in {"queued", "live"} THEN "over" ELSE phase[s]]
        BY <3>1 DEF Exit
      <4> QED
        BY <1>2, <2>1, <4>1
    <3> QED
      BY <3>1
  <2>4. PICK d \in {0, 1} :
          /\ Requeued(d) /\ Len(queue') >= Len(queue) - d
          /\ d = 1 => Leaves /\ (Settles \/ WriteFails)
    BY <1>1, <2>3, Shift
  <2>5. CASE k > d
    <3>1. k - d \in DOMAIN queue' /\ (k - d) + d = k /\ ~((k - d) + d > Len(queue))
      BY <1>1, <2>4, <2>5
    <3>2. Stems(queue'[k - d], queue[k])
      BY <2>4, <3>1 DEF Requeued
    <3> QED
      BY <2>2, <3>1, <3>2 DEF Stems
  <2>6. CASE ~(k > d)
    <3>1. k = 1 /\ d = 1
      BY <1>1, <2>6
    <3>2. queue # <<>> /\ Current = queue[1] /\ Current.run = r /\ (Settled \/ WriteFails)
      BY <1>1, <2>2, <2>4, <3>1, AtHead DEF Leaves, Settles
    <3>3. r # 0
      BY DEF Run
    <3>4. CASE WriteFails
      <4>1. phase' = (IF Current.run # 0 THEN [phase EXCEPT ![Current.run] = "over"] ELSE phase)
        BY <3>4 DEF WriteFails
      <4>2. phase' = [phase EXCEPT ![r] = "over"]
        BY <3>2, <3>3, <4>1
      <4> QED
        BY <1>1, <1>2, <4>2 DEF RunType
    <3>5. CASE StartSettles \/ SendSettles \/ ResumeSettles
      <4>1. phase' = [phase EXCEPT ![r] = "live"]
        BY <3>2, <3>5 DEF StartSettles, SendSettles, ResumeSettles, RunStarts
      <4> QED
        BY <1>1, <1>2, <4>1 DEF RunType
    <3>6. CASE DeleteSettles \/ PatchSettles
      <4>1. Current.op \in {"patch", "delete"}
        BY <3>6 DEF DeleteSettles, PatchSettles, LastLands
      <4> QED
        BY <1>1, <3>2, <3>3, <4>1, HeadRun
    <3> QED
      BY <3>2, <3>4, <3>5, <3>6 DEF Settled
  <2> QED
    BY <2>5, <2>6
<1> QED
  BY <1>3, <1>4

(* A question in the queue or in the file is that of a run which was asked for by a new *)
(* message.                                                                             *)
QuestionAsked ==
  \A r \in Run : Pending(Say("user", r)) \/ Logged(Say("user", r)) =>
                   phase[r] # "none" /\ source[r] = 0

(* Only a new message asks a question.                                                  *)
LEMMA NewQuestion ==
  ASSUME NEW job, NewJob(job), NEW r \in Run, Holds(job, Say("user", r))
  PROVE  r = job.run /\ AsksFor(job, 0)
<1> DEFINE m == Say("user", r)
<1>a. /\ m.kind = "message" /\ m.role = "user" /\ m.run = r
      /\ m # Header /\ m # Status /\ m # Tombstone /\ m # Remove
      /\ \A t : m # Titled(t)
      /\ \A b : m # Pinned(b)
      /\ \A s : m # Paused(s) /\ m # Say("assistant", s)
      /\ \A s : m = Say("user", s) => r = s
  BY Kinds
<1>b. Holds(job, m)
  OBVIOUS
<1> HIDE DEF m
<1>1. CASE AsksFor(job, 0) /\ job = Job("start", 1, <<Header, Say("user", 1), Titled("query")>>)
  <2>1. job.run = 1
    BY <1>1 DEF Job
  <2>2. m = Header \/ m = Say("user", 1) \/ m = Titled("query")
    BY <1>1, <1>b, HeldBy
  <2> QED
    BY <1>1, <1>a, <2>1, <2>2
<1>2. CASE AsksFor(job, 0) /\ job = Job("send", job.run, <<Say("user", job.run), Status>>)
  <2>1. m = Say("user", job.run) \/ m = Status
    BY <1>2, <1>b, HeldBy
  <2> QED
    BY <1>2, <1>a, <2>1
<1>3. CASE job = Job("resume", job.run, <<Status>>)
  BY <1>3, <1>a, <1>b, HeldBy
<1>4. CASE \E s \in Run : Finishes(s) /\ (job = Persist(s, Status) \/ job = Persist(s, Paused(s)))
  <2>1. PICK s \in Run : job = Persist(s, Status) \/ job = Persist(s, Paused(s))
    BY <1>4
  <2>2. m = Say("assistant", s) \/ m = Status \/ m = Paused(s)
    BY <1>b, <2>1, HeldBy
  <2> QED
    BY <1>a, <2>2
<1>5. CASE (\E t \in Title : job = Patch(Titled(t))) \/ (\E b \in BOOLEAN : job = Patch(Pinned(b)))
  BY <1>5, <1>a, <1>b, HeldBy
<1>6. CASE job = Patch(Tombstone) \/ job = Job("delete", 0, <<Remove>>)
  BY <1>6, <1>a, <1>b, HeldBy
<1> QED
  BY <1>1, <1>2, <1>3, <1>4, <1>5, <1>6 DEF NewJob

(* Every step keeps the question in the window for each run that was asked. *)
LEMMA QuestionAskedStep ==
  ASSUME History, QuestionAsked, [Next]_vars
  PROVE  QuestionAsked'
<1>1. IType /\ InOrder /\ RunType /\ RunType'
  BY RunStep DEF History, Order, IType
<1>2. SUFFICES ASSUME NEW r \in Run, Pending(Say("user", r))' \/ Logged(Say("user", r))'
               PROVE  phase'[r] # "none" /\ source'[r] = 0
  BY DEF QuestionAsked
<1>3. CASE Pending(Say("user", r)) \/ Logged(Say("user", r))
  <2>1. phase[r] # "none" /\ source[r] = 0
    BY <1>3 DEF QuestionAsked
  <2>2. ~Asks(r) /\ phase'[r] # "none"
    BY <1>1, <2>1, Stages DEF RunType, Stage, Begins, Finishes
  <2> QED
    BY <1>1, <2>1, <2>2, Moves
<1>4. CASE ~Pending(Say("user", r)) /\ ~Logged(Say("user", r))
  <2>1. PICK job : NewJob(job) /\ Holds(job, Say("user", r))
    BY <1>1, <1>2, <1>4, PendingStep, LoggedStep, Kinds
  <2>2. r = job.run /\ AsksFor(job, 0)
    BY <2>1, NewQuestion
  <2> QED
    BY <2>2 DEF AsksFor, Asks
<1> QED
  BY <1>3, <1>4

-----------------------------------------------------------------------------
(* What the window shows of the conversation. *)

(* A delete is queued.                                                                  *)
Deleting == \E k \in DOMAIN queue : Final(queue[k]) = Remove

(* It stays in the queue until it is done.                                              *)
LEMMA DeletingStays ==
  ASSUME IType, [Next]_vars, ~Exit, ~WriteFails, Deleting
  PROVE  Deleting' \/ DeleteSettles
<1>1. /\ QueueType /\ queue \in Seq(Jobs) /\ Len(queue) \in Nat /\ DOMAIN queue = 1..Len(queue)
      /\ queue' \in Seq(Jobs) /\ Len(queue') \in Nat /\ DOMAIN queue' = 1..Len(queue')
  BY QueueStep DEF IType, QueueType
<1>2. PICK k \in DOMAIN queue : Final(queue[k]) = Remove
  BY DEF Deleting
<1>3. PICK d \in {0, 1} :
        /\ Requeued(d) /\ Len(queue') >= Len(queue) - d
        /\ d = 1 => Leaves /\ (Settles \/ WriteFails)
  BY Shift
<1>4. CASE k > d
  <2>1. k - d \in DOMAIN queue' /\ (k - d) + d = k /\ ~((k - d) + d > Len(queue))
    BY <1>1, <1>3, <1>4
  <2>2. Stems(queue'[k - d], queue[k])
    BY <1>3, <2>1 DEF Requeued
  <2> QED
    BY <1>2, <2>1, <2>2 DEF Stems, Deleting
<1>5. CASE ~(k > d)
  <2>1. k = 1 /\ d = 1
    BY <1>1, <1>5
  <2>2. queue # <<>> /\ Settled /\ Current = queue[1] /\ Current \in Jobs
    BY <1>1, <1>3, <2>1, AtHead DEF Leaves, Settles
  <2>3. Current.op = "delete"
    <3>1. PICK i \in 1..3 : i = Len(Current.entries)
      BY <2>2, JobEntries
    <3>2. i \in DOMAIN Current.entries /\ Current.entries[i].kind = "remove"
      BY <1>2, <2>1, <2>2, <3>1, JobEntries, Kinds DEF Final
    <3> QED
      BY <2>2, <3>2, JobOrder
  <2> QED
    BY <2>2, <2>3 DEF Settled, StartSettles, SendSettles, ResumeSettles, PatchSettles, LastLands
<1> QED
  BY <1>4, <1>5

(* A message stays in the queue until it is appended.                                   *)
LEMMA PendingStays ==
  ASSUME IType, [Next]_vars, ~Exit, ~WriteFails, NEW m, m.kind = "message", Pending(m)
  PROVE  Pending(m)' \/ (AppendLands /\ m = First)
<1>1. /\ QueueType /\ queue \in Seq(Jobs) /\ Len(queue) \in Nat /\ DOMAIN queue = 1..Len(queue)
      /\ queue' \in Seq(Jobs) /\ Len(queue') \in Nat /\ DOMAIN queue' = 1..Len(queue')
  BY QueueStep DEF IType, QueueType
<1>2. PICK k \in DOMAIN queue : Holds(queue[k], m)
  BY DEF Pending
<1>3. PICK d \in {0, 1} :
        /\ Requeued(d) /\ Len(queue') >= Len(queue) - d
        /\ d = 1 => Leaves /\ (Settles \/ WriteFails)
  BY Shift
<1>4. CASE k > d
  <2>1. k - d \in DOMAIN queue' /\ (k - d) + d = k /\ ~((k - d) + d > Len(queue))
    BY <1>1, <1>3, <1>4
  <2>2. Stems(queue'[k - d], queue[k])
    BY <1>3, <2>1 DEF Requeued
  <2>3. Holds(queue'[k - d], m) \/ (AppendLands /\ m = First)
    BY <1>2, <2>2 DEF Stems
  <2>4. Holds(queue'[k - d], m) => Pending(m)'
    BY <2>1 DEF Pending, Holds
  <2> QED
    BY <2>3, <2>4
<1>5. CASE ~(k > d)
  <2>1. k = 1 /\ d = 1
    BY <1>1, <1>5
  <2>2. queue # <<>> /\ Settled /\ Current = queue[1] /\ Current \in Jobs
    BY <1>1, <1>3, <2>1, AtHead DEF Leaves, Settles
  <2>3. Len(Current.entries) = 1
    BY <2>2 DEF Settled, StartSettles, SendSettles, ResumeSettles, DeleteSettles, PatchSettles,
       LastLands
  <2>4. PICK i \in DOMAIN Current.entries : Current.entries[i] = m
    BY <1>2, <2>1, <2>2 DEF Holds
  <2>5. i = 1 /\ i # Len(Current.entries)
    BY <2>2, <2>3, <2>4, JobEntries, JobOrder
  <2> QED
    BY <2>3, <2>5
<1> QED
  BY <1>4, <1>5

(* What a step shows: the question whose write settles, and what a run says at its end. *)
Speaks ==
  /\ session.messages \subseteq session'.messages
  /\ \A m \in session'.messages :
       \/ m \in session.messages
       \/ SendSettles /\ m = Say("user", Current.run)
       \/ \E r \in Run : Finishes(r) /\ m = Say("assistant", r)
  /\ \A r \in Run :
       Finishes(r) => Say("assistant", r) \in session'.messages /\ Pending(Say("assistant", r))'
  /\ \A r \in Run :
       phase[r] = "queued" =>
         phase'[r] = "queued" \/ ((SendSettles \/ ResumeSettles) /\ r = Current.run)

(* A step that adds no message says nothing new. *)
LEMMA SpeaksNot ==
  ASSUME session'.messages = session.messages, \A r \in Run : phase'[r] \in {phase[r], "queued"}
  PROVE  Speaks
<1>1. \A r \in Run : ~Finishes(r)
  BY DEF Finishes
<1> QED
  BY <1>1 DEF Speaks

(* What the end of a run says is in the queue.                                          *)
LEMMA SaysPending ==
  ASSUME NEW r, NEW e, NEW k \in DOMAIN queue', queue'[k] = Persist(r, e)
  PROVE  Pending(Say("assistant", r))'
<1>1. 1 \in DOMAIN Persist(r, e).entries /\ Persist(r, e).entries[1] = Say("assistant", r)
  BY Two DEF Persist, Job
<1>2. Holds(queue'[k], Say("assistant", r))
  BY <1>1 DEF Holds
<1> QED
  BY <1>2 DEF Pending, Holds

(* What a step may say: the question of a run it queues, the reply of one it finishes. *)
LEMMA SpeaksStep ==
  ASSUME IType, InOrder, [Next]_vars, ~Exit, ~WriteFails, ~Restart, ~StartSettles
  PROVE  Speaks
<1>1. /\ session \in Sessions /\ RunType /\ QueueType /\ queue \in Seq(Jobs)
      /\ phase \in [Run -> Stage]
  BY DEF IType, SessionType, RunType, QueueType
<1>a. ASSUME session' = session \/ (\E f : session' = [session EXCEPT !.frozen = f])
                \/ (\E t : session' = [session EXCEPT !.title = t])
                \/ (\E b : session' = [session EXCEPT !.isPinned = b])
                \/ (\E l : session' = [session EXCEPT !.listed = l])
      PROVE  session'.messages = session.messages
  BY <1>1, <1>a DEF Sessions
<1>b. ASSUME UNCHANGED phase \/ \E r : phase' = [phase EXCEPT ![r] = "queued"]
      PROVE  \A r \in Run : phase'[r] \in {phase[r], "queued"}
  BY <1>1, <1>b
<1>2. CASE StartSession \/ \E r \in Run : SendMessage(r)
  BY <1>a, <1>b, <1>2, SpeaksNot DEF StartSession, SendMessage, Enters
<1>3. CASE \E r \in Run : ResumeSession(r)
  BY <1>a, <1>b, <1>3, SpeaksNot DEF ResumeSession, Enters
<1>4. CASE TogglePin \/ (\E t \in {"query", "renamed"} : RenameSession(t)) \/ DeleteSession
  BY <1>a, <1>b, <1>4, SpeaksNot DEF TogglePin, RenameSession, Edit, DeleteSession, runVars
<1>5. CASE TitleArrives
  BY <1>a, <1>b, <1>5, SpeaksNot DEF TitleArrives, runVars
<1>6. CASE AppendLands \/ DeleteSettles
  BY <1>a, <1>b, <1>6, SpeaksNot DEF AppendLands, DeleteSettles, runVars
<1>7. CASE PatchSettles
  BY <1>a, <1>b, <1>7, SpeaksNot DEF PatchSettles
<1>8. CASE UNCHANGED vars
  BY <1>a, <1>b, <1>8, SpeaksNot DEF vars, runVars
<1>9. CASE SendSettles \/ ResumeSettles
  <2>1. phase' = [phase EXCEPT ![Current.run] = "live"]
    BY <1>9 DEF SendSettles, ResumeSettles, RunStarts
  <2>2. \A r \in Run : phase'[r] \in {phase[r], "live"} /\ (r # Current.run => phase'[r] = phase[r])
    BY <1>1, <2>1
  <2>3. \A r \in Run : ~Finishes(r)
    BY <2>2 DEF Finishes
  <2>4. \/ session'.messages = session.messages
        \/ SendSettles /\ session'.messages = session.messages \cup {Say("user", Current.run)}
    BY <1>1, <1>9 DEF SendSettles, ResumeSettles, Sessions
  <2> QED
    BY <1>9, <2>2, <2>3, <2>4 DEF Speaks
<1>10. ASSUME NEW r \in Run, NEW reason \in {"settled", "paused"}, Finalize(r, reason) PROVE Speaks
  <2>1. PICK e \in {Status, Paused(r)} : queue' = Append(queue, Persist(r, e))
    BY <1>10 DEF Finalize
  <2>2. phase[r] = "live" /\ phase' = [phase EXCEPT ![r] = "over"]
    BY <1>10 DEF Finalize
  <2>3. session'.messages = session.messages \cup {Say("assistant", r)}
    BY <1>1, <1>10 DEF Finalize, Sessions
  <2>4. Pending(Say("assistant", r))'
    <3>1. Persist(r, e) \in Jobs
      BY <2>1, NewJobs
    <3>2. Len(queue) + 1 \in DOMAIN queue' /\ queue'[Len(queue) + 1] = Persist(r, e)
      BY <1>1, <2>1, <3>1, AppendParts
    <3> QED
      BY <3>2, SaysPending
  <2>5. Finishes(r) /\ \A s \in Run : s # r => phase'[s] = phase[s] /\ ~Finishes(s)
    BY <1>1, <2>2 DEF Finishes
  <2> QED
    BY <2>2, <2>3, <2>4, <2>5 DEF Speaks
<1>11. CASE Quit
  <2>1. PICK ends \in Seq(Jobs) :
          queue' = queue \o ends /\ \A s \in Live : \E i \in DOMAIN ends : ends[i] = Persist(s, Status)
    BY <1>11, QuitQueue
  <2>2. phase' = [s \in Run |-> IF s \in Live THEN "over" ELSE phase[s]]
    BY <1>11 DEF Quit
  <2>3. session'.messages = session.messages \cup {Say("assistant", s) : s \in Live}
    BY <1>1, <1>11 DEF Quit, Sessions
  <2>4. \A s \in Run : Finishes(s) <=> s \in Live
    BY <1>1, <2>2 DEF Finishes, Live
  <2>5. ASSUME NEW s \in Live PROVE Pending(Say("assistant", s))'
    <3>1. PICK i \in DOMAIN ends : ends[i] = Persist(s, Status)
      BY <2>1
    <3>2. Len(queue) + i \in DOMAIN queue' /\ queue'[Len(queue) + i] = Persist(s, Status)
      BY <1>1, <2>1, <3>1, ConcatParts
    <3> QED
      BY <3>2, SaysPending
  <2>6. \A s \in Run : phase[s] = "queued" => phase'[s] = "queued"
    BY <2>2 DEF Live
  <2>7. Live \subseteq Run
    BY DEF Live
  <2> QED
    BY <2>3, <2>4, <2>5, <2>6, <2>7 DEF Speaks
<1> QED
  BY <1>2, <1>3, <1>4, <1>5, <1>6, <1>7, <1>8, <1>9, <1>10, <1>11
     DEF Next, User, Agent, Writer

-----------------------------------------------------------------------------
(* The freeze and the pin. *)

(* A freeze is written with the end of its run, and dropped with a tombstone.           *)
Freezes ==
  \/ Quiet("paused") /\ session'.frozen = session.frozen
  \/ \E q \in Seq(Jobs), job \in Jobs, r \in Run \cup {0} :
       queue' = Append(q, job) /\ Final(job) = Paused(r) /\ session'.frozen = r
  \/ /\ \E job \in Jobs : /\ queue' = Append(Append(queue, Patch(Tombstone)), job)
                          /\ Final(job).kind # "paused"
     /\ session'.frozen = 0

(* What a step may do about the freeze. *)
LEMMA FreezesStep ==
  ASSUME IType, [Next]_vars, ~Exit, ~WriteFails, ~Restart, ~StartSettles, ~Deleting'
  PROVE  Freezes
<1>1. session \in Sessions /\ QueueType /\ queue \in Seq(Jobs)
  BY DEF IType, SessionType, QueueType
<1>2. /\ Status.kind # "paused" /\ Remove.kind # "paused" /\ Patch(Tombstone) \in Jobs
      /\ \A b : Pinned(b).kind # "paused"
      /\ \A t : Titled(t).kind # "paused"
      /\ Tombstone = Paused(0)
  BY Kinds, NewJobs DEF Tombstone
<1>a. ASSUME session' = session \/ (\E m : session' = [session EXCEPT !.messages = m])
                \/ (\E t : session' = [session EXCEPT !.title = t])
                \/ (\E b : session' = [session EXCEPT !.isPinned = b])
                \/ (\E l : session' = [session EXCEPT !.listed = l])
      PROVE  session'.frozen = session.frozen
  BY <1>1, <1>a DEF Sessions
<1>b. ASSUME NEW job \in Jobs, queue' = Append(queue, job), UNCHANGED file, Final(job).kind # "paused",
             session'.frozen = session.frozen
      PROVE  Freezes
  BY <1>b, QuietAppend DEF Freezes
<1>3. CASE StartSession
  <2>1. /\ queue' = Append(queue, Job("start", 1, <<Header, Say("user", 1), Titled("query")>>))
        /\ UNCHANGED <<file, session>>
    BY <1>3 DEF StartSession, Enters
  <2>2. Job("start", 1, <<Header, Say("user", 1), Titled("query")>>) \in Jobs
    BY SessionLogAssumption, NewJobs DEF Run
  <2> QED
    BY <1>2, <1>b, <2>1, <2>2, Finals
<1>4. ASSUME NEW r \in Run, SendMessage(r) PROVE Freezes
  <2>1. /\ queue' = Append(queue, Job("send", r, <<Say("user", r), Status>>))
        /\ UNCHANGED <<file, session>>
    BY <1>4 DEF SendMessage, Enters
  <2> QED
    BY <1>2, <1>b, <2>1, NewJobs, Finals
<1>5. ASSUME NEW r \in Run, ResumeSession(r) PROVE Freezes
  <2>1. /\ queue' = Append(Append(queue, Patch(Tombstone)), Job("resume", r, <<Status>>))
        /\ session' = [session EXCEPT !.frozen = 0]
    BY <1>5 DEF ResumeSession, Enters, Cleared
  <2>2. session'.frozen = 0
    BY <1>1, <2>1 DEF Sessions
  <2>3. /\ Job("resume", r, <<Status>>) \in Jobs
        /\ Final(Job("resume", r, <<Status>>)) = Status
    BY NewJobs DEF Final, Job
  <2>4. \E job \in Jobs : /\ queue' = Append(Append(queue, Patch(Tombstone)), job)
                          /\ Final(job).kind # "paused"
    BY <1>2, <2>1, <2>3
  <2> QED
    BY <2>2, <2>4 DEF Freezes
<1>6. ASSUME NEW t \in {"query", "renamed"}, RenameSession(t) PROVE Freezes
  <2>1. /\ queue' = Append(queue, Patch(Titled(t))) /\ UNCHANGED file
        /\ session' = [session EXCEPT !.title = t]
    BY <1>6 DEF RenameSession, Edit
  <2>2. Patch(Titled(t)) \in Jobs
    BY NewJobs DEF Title
  <2> QED
    BY <1>2, <1>a, <1>b, <2>1, <2>2, Finals
<1>7. CASE TogglePin
  <2>1. queue' = Append(queue, Patch(Pinned(~session.isPinned))) /\ UNCHANGED <<file, session>>
    BY <1>7 DEF TogglePin, Edit
  <2>2. Patch(Pinned(~session.isPinned)) \in Jobs
    BY <1>1, NewJobs DEF Sessions
  <2> QED
    BY <1>2, <1>b, <2>1, <2>2, Finals
<1>8. CASE DeleteSession
  <2>1. queue' = Append(queue, Job("delete", 0, <<Remove>>))
    BY <1>8 DEF DeleteSession
  <2>2. Len(queue) + 1 \in DOMAIN queue' /\ queue'[Len(queue) + 1] = Job("delete", 0, <<Remove>>)
    BY <1>1, <2>1, NewJobs, AppendParts
  <2>3. Final(Job("delete", 0, <<Remove>>)) = Remove
    BY Finals
  <2>4. \E k \in DOMAIN queue' : Final(queue'[k]) = Remove
    BY <2>2, <2>3
  <2> QED
    BY <2>4 DEF Deleting, Final
<1>9. CASE TitleArrives
  <2>1. CASE session.title = "query" /\ session.listed
    <3>1. /\ queue' = Append(queue, Patch(Titled("generated"))) /\ UNCHANGED file
          /\ session' = [session EXCEPT !.title = "generated"]
      BY <1>9, <2>1 DEF TitleArrives
    <3>2. Patch(Titled("generated")) \in Jobs
      BY NewJobs DEF Title
    <3> QED
      BY <1>2, <1>a, <1>b, <3>1, <3>2, Finals
  <2>2. CASE ~(session.title = "query" /\ session.listed)
    BY <1>9, <2>2, QuietKeep DEF TitleArrives, Freezes
  <2> QED
    BY <2>1, <2>2
<1>10. ASSUME NEW r \in Run, NEW reason \in {"settled", "paused"}, Finalize(r, reason) PROVE Freezes
  <2>1. CASE reason = "paused"
    <3>1. queue' = Append(queue, Persist(r, Paused(r)))
      BY <1>10, <2>1 DEF Finalize
    <3>2. session'.frozen = r
      BY <1>1, <1>10, <2>1 DEF Finalize, Sessions
    <3>3. Persist(r, Paused(r)) \in Jobs /\ Final(Persist(r, Paused(r))) = Paused(r)
      BY NewJobs, Finals
    <3> QED
      BY <1>1, <3>1, <3>2, <3>3 DEF Freezes
  <2>2. CASE reason = "settled"
    <3>1. queue' = Append(queue, Persist(r, Status)) /\ UNCHANGED file
      BY <1>10, <2>2 DEF Finalize
    <3>2. session'.frozen = session.frozen
      BY <1>1, <1>10, <2>2 DEF Finalize, Sessions
    <3>3. Persist(r, Status) \in Jobs /\ Final(Persist(r, Status)) = Status
      BY NewJobs, Finals
    <3> QED
      BY <1>2, <1>b, <3>1, <3>2, <3>3
  <2> QED
    BY <2>1, <2>2
<1>11. CASE AppendLands
  BY <1>11, QuietAdvance DEF AppendLands, Freezes
<1>12. CASE SendSettles
  <2>1. queue # <<>> /\ Tail(queue) \in Seq(Jobs)
    <3>1. queue # <<>>
      BY <1>12 DEF SendSettles, LastLands, Writing
    <3> QED
      BY <1>1, <3>1, AtHead
  <2>2. session'.frozen = 0
    BY <1>1, <1>12 DEF SendSettles, Sessions
  <2>3. CASE session.frozen = 0
    <3>1. queue' = Tail(queue)
      BY <1>12, <2>3 DEF SendSettles, Cleared
    <3>2. Quiet("paused")
      BY <1>12, <3>1, QuietLeave DEF Settled
    <3> QED
      BY <2>2, <2>3, <3>2 DEF Freezes
  <2>4. CASE session.frozen # 0
    <3>1. queue' = Append(Tail(queue), Patch(Tombstone))
      BY <1>12, <2>4 DEF SendSettles, Cleared
    <3>2. Final(Patch(Tombstone)) = Paused(0)
      BY <1>2, Finals
    <3> QED
      BY <1>2, <2>1, <2>2, <3>1, <3>2 DEF Freezes
  <2> QED
    BY <2>3, <2>4
<1>13. CASE ResumeSettles \/ DeleteSettles \/ PatchSettles
  <2>1. queue' = Tail(queue)
    BY <1>13 DEF ResumeSettles, DeleteSettles, PatchSettles
  <2>2. Quiet("paused")
    BY <1>13, <2>1, QuietLeave DEF Settled
  <2>3. session'.frozen = session.frozen
    BY <1>a, <1>13 DEF ResumeSettles, DeleteSettles, PatchSettles
  <2> QED
    BY <2>2, <2>3 DEF Freezes
<1>14. CASE Quit
  <2>1. session'.frozen = session.frozen
    BY <1>a, <1>14 DEF Quit
  <2>2. Quiet("paused")
    BY <1>14, QuietQuit
  <2> QED
    BY <2>1, <2>2 DEF Freezes
<1>15. CASE UNCHANGED vars
  BY <1>15, QuietKeep DEF vars, Freezes
<1> QED
  BY <1>3, <1>4, <1>5, <1>6, <1>7, <1>8, <1>9, <1>10, <1>11, <1>12, <1>13, <1>14, <1>15
     DEF Next, User, Agent, Writer

(* The freeze that the session has once `e` is the last entry about it.                 *)
FreezeOf(e) == IF e = Garbage THEN 0 ELSE e.run
FreezeFollows == \E e \in Line : Ends("paused", e, Len(queue)) /\ session.frozen = FreezeOf(e)

(* The freeze of the window stays the one the file ends up with. *)
LEMMA FreezeFollowsStep ==
  ASSUME History, [Next]_vars, NoMishap', ~Exit, ~Restart, ~StartSettles, ~DeleteSettles, ~Deleting',
         FreezeFollows
  PROVE  FreezeFollows'
<1>1. IType /\ queue \in Seq(Jobs) /\ ~WriteFails
  BY MishapsStay DEF History, Order, IType, QueueType
<1>2. PICK e \in Line : Ends("paused", e, Len(queue)) /\ session.frozen = FreezeOf(e)
  BY DEF FreezeFollows
<1>3. CASE Quiet("paused") /\ session'.frozen = session.frozen
  <2>1. Ends("paused", e, Len(queue))'
    BY <1>2, <1>3, EndsStay
  <2> QED
    BY <1>2, <1>3, <2>1 DEF FreezeFollows
<1>4. ASSUME NEW q \in Seq(Jobs), NEW job \in Jobs, NEW r \in Run \cup {0},
             queue' = Append(q, job), Final(job) = Paused(r), session'.frozen = r
      PROVE  FreezeFollows'
  <2>1. Paused(r) \in Line /\ Paused(r).kind = "paused" /\ r = FreezeOf(Paused(r))
    BY Entries, Kinds DEF FreezeOf, Tombstone
  <2>2. Ends(Final(job).kind, Final(job), Len(queue))'
    BY <1>1, <1>4, EndsLast
  <2>3. Ends("paused", Paused(r), Len(queue))'
    BY <1>4, <2>1, <2>2
  <2> QED
    BY <1>4, <2>1, <2>3 DEF FreezeFollows
<1>5. ASSUME NEW job \in Jobs, queue' = Append(Append(queue, Patch(Tombstone)), job),
             Final(job).kind # "paused", session'.frozen = 0
      PROVE  FreezeFollows'
  <2> DEFINE q == Append(queue, Patch(Tombstone))
  <2>1. PICK n \in Nat : n = Len(queue)
    BY <1>1
  <2>2. q \in Seq(Jobs) /\ Len(q) = n + 1 /\ DOMAIN q = 1..(n + 1) /\ q[n + 1] = Patch(Tombstone)
    BY <1>1, <2>1, NewJobs, AppendParts
  <2>3. queue' = Append(q, job)
    BY <1>5
  <2> HIDE DEF q
  <2>4. Len(queue') = n + 2 /\ queue'[n + 1] = Patch(Tombstone) /\ queue'[n + 2] = job
    BY <2>2, <2>3, AppendParts
  <2>5. Final(queue'[n + 1]) = Tombstone /\ Final(queue'[n + 2]).kind # "paused"
    BY <1>5, <2>4, Finals
  <2>6. n + 1 \in 1..(n + 2) /\ \A j \in 1..(n + 2) : j > n + 1 => j = n + 2
    OBVIOUS
  <2>7. \E k \in 1..Len(queue') : /\ Final(queue'[k]) = Tombstone
                                  /\ \A j \in 1..Len(queue') : j > k => Final(queue'[j]).kind # "paused"
    BY <2>4, <2>5, <2>6
  <2>8. Tombstone \in Line /\ Tombstone.kind = "paused" /\ FreezeOf(Tombstone) = 0
    BY Entries, Kinds DEF FreezeOf
  <2>9. Ends("paused", Tombstone, Len(queue))'
    BY <2>7, <2>8 DEF Ends, Final
  <2> QED
    BY <1>5, <2>8, <2>9 DEF FreezeFollows
<1> QED
  BY <1>1, <1>3, <1>4, <1>5, FreezesStep DEF Freezes

(* A pin is shown once it has landed.                                                   *)
PinFollows == session.isPinned = FoldedPinned(file)

(* The pin of the window stays the one the file ends up with. *)
LEMMA PinFollowsStep ==
  ASSUME History, [Next]_vars, NoMishap', ~Exit, ~Restart, ~StartSettles, ~DeleteSettles, PinFollows
  PROVE  PinFollows'
<1>1. IType /\ session \in Sessions /\ QueueType /\ FileType /\ file \in File
      /\ ~WriteFails /\ file.closed
  BY MishapsStay DEF History, Order, IType, SessionType, FileType
<1>a. ASSUME session' = session \/ (\E m : session' = [session EXCEPT !.messages = m])
                \/ (\E t : session' = [session EXCEPT !.title = t])
                \/ (\E f : session' = [session EXCEPT !.frozen = f])
                \/ (\E m, f : session' = [session EXCEPT !.messages = m, !.frozen = f])
      PROVE  session'.isPinned = session.isPinned
  BY <1>1, <1>a DEF Sessions
<1>2. ASSUME session'.isPinned = session.isPinned, UNCHANGED file PROVE PinFollows'
  BY <1>2 DEF PinFollows
<1>3. CASE StartSession \/ \E r \in Run : SendMessage(r) \/ ResumeSession(r)
  BY <1>2, <1>3, <1>a DEF StartSession, SendMessage, ResumeSession, Enters
<1>4. CASE TogglePin \/ (\E t \in {"query", "renamed"} : RenameSession(t)) \/ DeleteSession
  BY <1>2, <1>4, <1>a DEF TogglePin, RenameSession, Edit, DeleteSession
<1>5. CASE TitleArrives
  BY <1>2, <1>5, <1>a DEF TitleArrives
<1>6. ASSUME NEW r \in Run, NEW reason \in {"settled", "paused"}, Finalize(r, reason)
      PROVE  PinFollows'
  BY <1>2, <1>6, <1>a DEF Finalize
<1>7. CASE Quit
  BY <1>2, <1>7, <1>a DEF Quit
<1>8. CASE UNCHANGED vars
  BY <1>2, <1>8, <1>a DEF vars
<1>9. CASE AppendLands \/ SendSettles \/ ResumeSettles \/ PatchSettles
  <2>1. queue # <<>> /\ Current.op # "delete"
    <3>1. queue # <<>>
      BY <1>9 DEF AppendLands, SendSettles, ResumeSettles, PatchSettles, LastLands, Writing
    <3>2. Current \in Jobs
      BY <1>1, <3>1, AtHead
    <3>3. CASE AppendLands
      <4>1. Len(Current.entries) > 1
        BY <3>3 DEF AppendLands
      <4>2. Current.op # "delete"
        BY <3>2, <4>1, JobAdvance
      <4> QED
        BY <3>1, <4>2
    <3>4. CASE ~AppendLands
      BY <1>9, <3>1, <3>4 DEF SendSettles, ResumeSettles, PatchSettles, LastLands
    <3> QED
      BY <3>1, <3>3, <3>4
  <2>2. /\ Current \in Jobs /\ First = Current.entries[1] /\ 1 \in DOMAIN Current.entries
        /\ First # Remove /\ First \in Line
    BY <1>1, <2>1, AtHead
  <2>3. file' = Appended(file, First)
    BY <1>9, <2>2 DEF AppendLands, SendSettles, ResumeSettles, PatchSettles, LastLands
  <2>4. FoldedPinned(file') = IF First.kind = "pinned" THEN First.pinned ELSE FoldedPinned(file)
    <3> DEFINE default == Pinned(FALSE)
    <3>1. /\ FoldedPinned(file') = LastOf(file', "pinned", default).pinned
          /\ FoldedPinned(file) = LastOf(file, "pinned", default).pinned
      BY DEF FoldedPinned
    <3> HIDE DEF default
    <3>2. LastOf(file', "pinned", default) =
            IF First.kind = "pinned" THEN First ELSE LastOf(file, "pinned", default)
      BY <1>1, <2>2, <2>3, LastAppended
    <3> QED
      BY <3>1, <3>2
  <2>5. First.kind = "pinned" => Current.op = "patch" /\ Len(Current.entries) = 1
    BY <2>2, JobOrder
  <2>6. CASE PatchSettles
    <3>1. session' =
            IF First.kind = "pinned" THEN [session EXCEPT !.isPinned = First.pinned] ELSE session
      BY <2>6 DEF PatchSettles
    <3>2. session'.isPinned = IF First.kind = "pinned" THEN First.pinned ELSE session.isPinned
      BY <1>1, <3>1 DEF Sessions
    <3> QED
      BY <2>4, <3>2 DEF PinFollows
  <2>7. CASE AppendLands \/ SendSettles \/ ResumeSettles
    <3>1. First.kind # "pinned"
      <4>1. CASE AppendLands
        <5>1. Len(Current.entries) > 1
          BY <4>1 DEF AppendLands
        <5>2. First \in {Header} \cup Message
          BY <2>2, <5>1, JobAdvance DEF First
        <5> QED
          BY <5>2, EntryKinds, Kinds
      <4>2. CASE SendSettles \/ ResumeSettles
        BY <2>5, <4>2 DEF SendSettles, ResumeSettles, LastLands
      <4> QED
        BY <2>7, <4>1, <4>2
    <3>2. session'.isPinned = session.isPinned
      BY <1>a, <2>7 DEF AppendLands, SendSettles, ResumeSettles
    <3> QED
      BY <2>4, <3>1, <3>2 DEF PinFollows
  <2> QED
    BY <1>9, <2>6, <2>7
<1> QED
  BY <1>1, <1>3, <1>4, <1>5, <1>6, <1>7, <1>8, <1>9 DEF Next, User, Agent, Writer

-----------------------------------------------------------------------------
(* The messages.  A question is shown once its run starts, and by then it is on disk; a *)
(* reply is shown as soon as it is in the queue.                                        *)
QuestionsShown ==
  \A r \in Run : Say("user", r) \in session.messages <=>
                   Logged(Say("user", r)) /\ phase[r] # "queued"
RepliesShown ==
  \A r \in Run : Say("assistant", r) \in session.messages <=>
                   Logged(Say("assistant", r)) \/ Pending(Say("assistant", r))

(* What is said in the file.                                                            *)
LEMMA LoggedMoves ==
  ASSUME History, [Next]_vars, NoMishap', Loads(file'), NEW m, m.kind = "message"
  PROVE  /\ Logged(m) => Logged(m)'
         /\ AppendLands /\ m = First => Logged(m)'
         /\ Logged(m)' => Logged(m) \/ (queue # <<>> /\ m = First /\ Pending(m) /\ Holds(Current, m))
<1>1. IType /\ QueueType /\ FileType /\ torn' = 0
  BY DEF History, Order, IType, NoMishap
<1>2. Logged(m)' <=> Logs(m)
  BY DEF Logged, Logs
<1>3. Logged(m) => Logged(m)'
  BY <1>1, <1>2, KeepsLines
<1>4. ASSUME AppendLands, m = First PROVE Logged(m)'
  <2>1. queue # <<>> /\ file' = Appended(file, First) /\ file.closed
    BY <1>4, MishapsStay DEF AppendLands, Writing
  <2>2. First \in Line
    BY <1>1, <1>4, <2>1, AtHead, Kinds
  <2> QED
    BY <1>1, <1>2, <1>4, <2>1, <2>2, NewLine
<1>5. Logged(m)' => Logged(m) \/ (queue # <<>> /\ m = First /\ Pending(m) /\ Holds(Current, m))
  BY <1>1, LoggedStep, Kinds
<1> QED
  BY <1>3, <1>4, <1>5

(* The questions of the file stay in the window, and those of the window on their way. *)
LEMMA QuestionsShownStep ==
  ASSUME Answers, QuestionAsked, [Next]_vars, NoMishap', Loads(file), Loads(file'),
         ~Exit, ~Restart, ~StartSettles, QuestionsShown
  PROVE  QuestionsShown'
<1>1. /\ History /\ IType /\ InOrder /\ QueueType /\ RunType /\ FileType /\ NoMishap /\ ~WriteFails
      /\ session \in Sessions /\ QueuedJobs
  BY MishapsStay DEF Answers, History, Order, IType, SessionType, InOrder
<1>2. Speaks
  BY <1>1, SpeaksStep
<1>3. SUFFICES ASSUME NEW r \in Run
               PROVE  Say("user", r) \in session'.messages <=>
                        (Logged(Say("user", r))' /\ phase'[r] # "queued")
  BY DEF QuestionsShown
<1> DEFINE m == Say("user", r)
<1>4. /\ m.kind = "message"
      /\ \A s : m # Say("assistant", s)
      /\ \A s : m = Say("user", s) => s = r
      /\ m # Status
  BY Kinds
<1>5. m \in session.messages <=> (Logged(m) /\ phase[r] # "queued")
  BY DEF QuestionsShown
<1>6. /\ Logged(m) \/ Pending(m) => phase[r] # "none" /\ source[r] = 0
      /\ Pending(m) => phase[r] = "queued"
  BY <1>1, QuestionQueued DEF QuestionAsked
<1>7. /\ Logged(m) => Logged(m)'
      /\ Logged(m)' => Logged(m) \/ (queue # <<>> /\ m = First /\ Pending(m) /\ Holds(Current, m))
  <2> HIDE DEF m
  <2> QED
    BY <1>1, <1>4, LoggedMoves
<1>8. /\ m \in session.messages => m \in session'.messages
      /\ m \in session'.messages => m \in session.messages \/ (SendSettles /\ r = Current.run)
      /\ phase[r] = "queued" =>
           phase'[r] = "queued" \/ ((SendSettles \/ ResumeSettles) /\ r = Current.run)
  BY <1>2, <1>4 DEF Speaks
<1> SUFFICES m \in session'.messages <=> (Logged(m)' /\ phase'[r] # "queued")
  OBVIOUS
<1>9. CASE SendSettles /\ r = Current.run
  <2>1. /\ queue # <<>> /\ Len(Current.entries) = 1 /\ Current.op = "send" /\ Current = queue[1]
        /\ Current \in Jobs /\ 1 \in DOMAIN queue
    <3>1. queue # <<>> /\ Len(Current.entries) = 1 /\ Current.op = "send"
      BY <1>9 DEF SendSettles, LastLands, Writing
    <3> QED
      BY <1>1, <3>1, AtHead
  <2>2. Current.entries[1] = Status /\ DOMAIN Current.entries = 1..Len(Current.entries)
    <3>1. Sendwise(Current.entries, Current.run)
      BY <2>1, JobParts
    <3> QED
      BY <2>1, <3>1, JobEntries DEF Sendwise
  <2>3. ~Holds(Current, m)
    <3> HIDE DEF m
    <3>1. PICK n \in 1..3 : n = Len(Current.entries)
      BY <2>1, JobEntries
    <3>2. n = 1 /\ DOMAIN Current.entries = 1..n
      BY <2>1, <2>2, <3>1, Zenon
    <3>3. \A i \in 1..n : i = 1
      BY <3>2
    <3> QED
      BY <1>4, <2>2, <3>2, <3>3 DEF Holds
  <2>4. Logged(m)
    <3>1. torn = 0
      BY <1>1 DEF NoMishap
    <3> QED
      BY <1>9, <2>1, <2>3, <3>1 DEF Answers, QuestionFirst
  <2>5. phase'[r] # "queued"
    BY <1>1, <1>9 DEF SendSettles, RunStarts, RunType
  <2>6. m \in session'.messages
    BY <1>1, <1>9 DEF SendSettles, Sessions
  <2> QED
    BY <1>7, <2>4, <2>5, <2>6
<1>10. CASE ResumeSettles /\ r = Current.run
  <2>1. queue # <<>> /\ Current.op = "resume" /\ Current = queue[1] /\ 1 \in DOMAIN queue
    <3>1. queue # <<>> /\ Current.op = "resume"
      BY <1>10 DEF ResumeSettles, LastLands, Writing
    <3> QED
      BY <1>1, <3>1, AtHead
  <2>2. source[r] # 0
    BY <1>1, <1>10, <2>1 DEF History, SourcedJobs
  <2>3. ~Logged(m) /\ ~Pending(m)
    BY <1>6, <2>2
  <2>4. m \notin session'.messages
    <3>1. ~SendSettles
      BY <2>1 DEF SendSettles, LastLands
    <3> QED
      BY <1>5, <1>8, <2>3, <3>1
  <2> QED
    BY <1>7, <2>3, <2>4
<1>11. CASE ~(SendSettles /\ r = Current.run) /\ ~(ResumeSettles /\ r = Current.run)
  <2>1. m \in session'.messages <=> m \in session.messages
    BY <1>8, <1>11
  <2>2. CASE phase[r] = "queued"
    BY <1>5, <1>8, <1>11, <2>1, <2>2
  <2>3. CASE phase[r] # "queued" /\ phase'[r] = "queued"
    <3>1. phase[r] = "none"
      BY <1>1, <2>3, Stages DEF RunType, Stage, Finishes
    <3> QED
      BY <1>5, <1>6, <2>1, <2>3, <3>1
  <2>4. CASE phase[r] # "queued" /\ phase'[r] # "queued"
    BY <1>5, <1>6, <1>7, <2>1, <2>4
  <2> QED
    BY <2>2, <2>3, <2>4
<1> QED
  BY <1>9, <1>10, <1>11

(* The replies of the file stay in the window, and those of the window on their way. *)
LEMMA RepliesShownStep ==
  ASSUME History, [Next]_vars, NoMishap', Loads(file'), ~Exit, ~Restart, ~StartSettles, RepliesShown
  PROVE  RepliesShown'
<1>1. IType /\ InOrder /\ ~WriteFails
  BY MishapsStay DEF History, Order
<1>2. Speaks
  BY <1>1, SpeaksStep
<1>3. SUFFICES ASSUME NEW r \in Run
               PROVE  Say("assistant", r) \in session'.messages <=>
                        (Logged(Say("assistant", r))' \/ Pending(Say("assistant", r))')
  BY DEF RepliesShown
<1> DEFINE m == Say("assistant", r)
<1>4. /\ m.kind = "message"
      /\ \A s : m # Say("user", s)
      /\ \A s : m = Say("assistant", s) => s = r
      /\ m # Header /\ m # Tombstone
      /\ \A s : m # Paused(s)
      /\ m.kind \notin {"status", "remove", "title", "pinned"}
  BY Kinds
<1>5. m \in session.messages <=> (Logged(m) \/ Pending(m))
  BY DEF RepliesShown
<1>6. /\ m \in session.messages => m \in session'.messages
      /\ m \in session'.messages => m \in session.messages \/ Finishes(r)
      /\ Finishes(r) => m \in session'.messages /\ Pending(m)'
  BY <1>2, <1>4 DEF Speaks
<1> HIDE DEF m
<1>7. /\ Logged(m) => Logged(m)'
      /\ AppendLands /\ m = First => Logged(m)'
      /\ Logged(m)' => Logged(m) \/ Pending(m)
  BY <1>4, LoggedMoves
<1>8. Pending(m) => Pending(m)' \/ Logged(m)'
  BY <1>1, <1>4, <1>7, PendingStays
<1>9. Pending(m)' => Pending(m) \/ Finishes(r)
  <2>1. ASSUME NEW job, NewJob(job), Holds(job, m) PROVE Finishes(r)
    <3>1. PICK s \in Run : Finishes(s) /\ m = Say("assistant", s)
      BY <1>4, <2>1, NewEntries
    <3> QED
      BY <1>4, <3>1
  <2> QED
    BY <1>1, <2>1, PendingStep
<1> SUFFICES m \in session'.messages <=> (Logged(m)' \/ Pending(m)')
  BY DEF m
<1> QED
  BY <1>5, <1>6, <1>7, <1>8, <1>9

-----------------------------------------------------------------------------
(* The window is the fold of the file as the queue will leave it. *)

WindowAhead ==
  NoMishap /\ window # "down" /\ session.listed /\ ~Deleting =>
    Loads(file) /\ FreezeFollows /\ PinFollows /\ QuestionsShown /\ RepliesShown
Ahead == Titles /\ Answers /\ QueuedWaits /\ QuestionAsked /\ WindowAhead

(* The messages of the fold are those of the file.                                      *)
LEMMA FoldedLogged ==
  ASSUME NEW m, m.kind = "message"
  PROVE  m \in FoldedMessages(file) <=> Logged(m)
BY DEF FoldedMessages, Logged

(* What the start of the program shows.                                                 *)
LEMMA RestartShows ==
  ASSUME History, Restart, session'.listed
  PROVE  Loads(file') /\ FreezeFollows' /\ PinFollows' /\ QuestionsShown' /\ RepliesShown'
<1>1. /\ IType /\ file \in File
      /\ session' = Hydrated(file) /\ file' = file /\ queue' = queue /\ phase' = phase
      /\ window = "down"
  BY DEF History, Order, IType, FileType, Restart, runVars
<1>2. queue = <<>> /\ \A r \in Run : phase[r] # "queued"
  BY <1>1 DEF History, Order, DownIsQuiet
<1>3. Loads(file)
  BY <1>1, HydratedType
<1>4. /\ session'.messages = FoldedMessages(file) /\ session'.isPinned = FoldedPinned(file)
      /\ session'.frozen = FoldedFreeze(file)
  BY <1>1, <1>3 DEF Hydrated
<1>5. FreezeFollows'
  <2>1. PICK e \in Line : e = LastOf(file, "paused", Garbage)
    BY <1>1, LastOfDefaults
  <2>2. session'.frozen = FreezeOf(e)
    BY <1>1, <1>4, <2>1, LastOfDefaults, Kinds DEF FreezeOf, FoldedFreeze
  <2>3. Ends("paused", e, Len(queue))'
    <3>1. Len(queue') = 0
      BY <1>1, <1>2
    <3> QED
      BY <1>1, <2>1, <3>1 DEF Ends
  <2> QED
    BY <2>2, <2>3 DEF FreezeFollows
<1>6. PinFollows'
  BY <1>1, <1>4 DEF PinFollows
<1>7. \A e : Logged(e)' <=> Logged(e)
  BY <1>1 DEF Logged
<1>8. \A e : ~Pending(e)'
  BY <1>1, <1>2 DEF Pending
<1>9. QuestionsShown'
  <2> SUFFICES ASSUME NEW r \in Run
               PROVE  Say("user", r) \in session'.messages <=>
                        (Logged(Say("user", r))' /\ phase'[r] # "queued")
    BY DEF QuestionsShown
  <2> DEFINE m == Say("user", r)
  <2>1. m.kind = "message"
    BY Kinds
  <2> HIDE DEF m
  <2>2. m \in session'.messages <=> Logged(m)'
    BY <1>4, <1>7, <2>1, FoldedLogged
  <2> QED
    BY <1>1, <1>2, <2>2 DEF m
<1>10. RepliesShown'
  <2> SUFFICES ASSUME NEW r \in Run
               PROVE  Say("assistant", r) \in session'.messages <=>
                        (Logged(Say("assistant", r))' \/ Pending(Say("assistant", r))')
    BY DEF RepliesShown
  <2> DEFINE m == Say("assistant", r)
  <2>1. m.kind = "message"
    BY Kinds
  <2> HIDE DEF m
  <2>2. m \in session'.messages <=> Logged(m)'
    BY <1>4, <1>7, <2>1, FoldedLogged
  <2> QED
    BY <1>8, <2>2 DEF m
<1> QED
  BY <1>1, <1>3, <1>5, <1>6, <1>9, <1>10

(* What a new session shows: its first message.                                         *)
LEMMA StartShows ==
  ASSUME History, Opening, StartSettles
  PROVE  Loads(file') /\ FreezeFollows' /\ PinFollows' /\ QuestionsShown' /\ RepliesShown'
<1>1. /\ IType /\ QueueType /\ RunType /\ queue \in Seq(Jobs) /\ Len(queue) \in Nat /\ file \in File
      /\ queue # <<>> /\ Len(Current.entries) = 1 /\ Current.op = "start" /\ queue' = Tail(queue)
      /\ file' = (IF First = Remove THEN NoFile ELSE Appended(file, First))
      /\ session' = [listed |-> TRUE, messages |-> {Say("user", Current.run)},
                     title |-> "query", isPinned |-> FALSE, frozen |-> 0]
      /\ phase' = [phase EXCEPT ![Current.run] = "live"]
  BY DEF StartSettles, LastLands, Writing, RunStarts, History, Order, IType, FileType, QueueType
<1>2. Current = queue[1] /\ Current \in Jobs /\ Current.run = 1 /\ phase[1] = "queued"
  BY <1>1, HeadQueued, AtHead DEF History, Order, InOrder
<1>3. First = Titled("query") /\ First \in Line /\ First # Remove
  <2>1. First = Current.entries[1] /\ (First # Remove => First \in Line)
        /\ (First = Remove <=> Current.op = "delete")
    BY <1>1, AtHead
  <2>2. Startwise(Current.entries)
    BY <1>1, <1>2, JobParts
  <2> QED
    BY <1>1, <2>1, <2>2 DEF Startwise
<1>4. /\ Len(queue) = 1 /\ file.closed /\ Len(file.lines) + Len(queue[1].entries) = 3
      /\ Len(file.lines) >= 1 => file.lines[1] = Header
      /\ Len(file.lines) >= 2 => file.lines[2] = Say("user", 1)
  BY <1>2 DEF Opening
<1>5. PICK n \in Nat : n = Len(file.lines) /\ DOMAIN file.lines = 1..n
  BY <1>1, FileParts
<1>6. n = 2 /\ file.lines[1] = Header /\ file.lines[2] = Say("user", 1)
  <2>1. Len(queue[1].entries) = 1
    BY <1>1, <1>2
  <2>2. n + Len(queue[1].entries) = 3
    BY <1>4, <1>5
  <2>3. n = 2
    BY <2>1, <2>2
  <2> QED
    BY <1>4, <1>5, <2>3
<1>7. /\ file'.lines[1] = Header /\ file'.lines[2] = Say("user", 1)
      /\ file'.lines[3] = Titled("query")
      /\ DOMAIN file'.lines \subseteq {1, 2, 3} /\ 1 \in DOMAIN file'.lines
      /\ 2 \in DOMAIN file'.lines
  <2>1. file' = Appended(file, First)
    BY <1>1, <1>3
  <2>2. /\ \A j \in DOMAIN file.lines : j \in DOMAIN file'.lines /\ file'.lines[j] = file.lines[j]
        /\ \A j \in DOMAIN file'.lines :
             \/ j \in DOMAIN file.lines /\ file'.lines[j] = file.lines[j]
             \/ j = Len(file.lines) + 1 /\ file'.lines[j] = First
        /\ file'.lines[Len(file.lines) + 1] = First
    BY <1>1, <1>3, <1>4, <2>1, NewLine DEF FileType
  <2>3. DOMAIN file.lines = {1, 2} /\ Len(file.lines) + 1 = 3
    BY <1>5, <1>6
  <2> QED
    BY <1>3, <1>6, <2>2, <2>3
<1>8. Loads(file')
  BY <1>7 DEF Loads
<1>9. queue' = <<>> /\ Len(queue') = 0
  <2>1. queue' \in Seq(Jobs) /\ Len(queue') = 0
    BY <1>1, <1>4, TailShifts
  <2> QED
    BY <2>1, LenCases
<1>10. FreezeFollows'
  <2>1. \A i \in DOMAIN file'.lines : file'.lines[i].kind # "paused"
    BY <1>7, Kinds
  <2>2. LastOf(file', "paused", Garbage) = Garbage
    BY <2>1, LastOfNone
  <2>3. Ends("paused", Garbage, Len(queue))'
    BY <1>9, <2>2 DEF Ends
  <2>4. session'.frozen = FreezeOf(Garbage) /\ Garbage \in Line
    BY <1>1, Entries DEF FreezeOf
  <2> QED
    BY <2>3, <2>4 DEF FreezeFollows
<1>11. PinFollows'
  <2>1. \A i \in DOMAIN file'.lines : file'.lines[i].kind # "pinned"
    BY <1>7, Kinds
  <2> DEFINE default == Pinned(FALSE)
  <2>a. FoldedPinned(file') = LastOf(file', "pinned", default).pinned
    BY DEF FoldedPinned
  <2>b. default.pinned = FALSE
    BY DEF Pinned
  <2> HIDE DEF default
  <2>c. LastOf(file', "pinned", default) = default
    BY <2>1, LastOfNone
  <2>2. FoldedPinned(file') = FALSE
    BY <2>a, <2>b, <2>c
  <2>3. session'.isPinned = FALSE
    BY <1>1
  <2> QED
    BY <2>2, <2>3 DEF PinFollows
<1>12. \A e : Logged(e)' <=> (\E i \in DOMAIN file'.lines : file'.lines[i] = e)
  BY DEF Logged
<1>13. \A e : e.kind = "message" => (Logged(e)' <=> e = Say("user", 1))
  BY <1>7, <1>12, Kinds
<1>14. \A e : ~Pending(e)'
  BY <1>9 DEF Pending
<1>15. session'.messages = {Say("user", 1)}
  BY <1>1, <1>2
<1>16. QuestionsShown'
  <2> SUFFICES ASSUME NEW r \in Run
               PROVE  Say("user", r) \in session'.messages <=>
                        (Logged(Say("user", r))' /\ phase'[r] # "queued")
    BY DEF QuestionsShown
  <2>1. Say("user", r).kind = "message" /\ (Say("user", r) = Say("user", 1) <=> r = 1)
    BY Kinds
  <2>2. phase'[1] # "queued"
    <3>1. 1 \in Run
      BY SessionLogAssumption DEF Run
    <3> QED
      BY <1>1, <1>2, <3>1 DEF RunType
  <2> QED
    BY <1>13, <1>15, <2>1, <2>2
<1>17. RepliesShown'
  <2> SUFFICES ASSUME NEW r \in Run
               PROVE  Say("assistant", r) \in session'.messages <=>
                        (Logged(Say("assistant", r))' \/ Pending(Say("assistant", r))')
    BY DEF RepliesShown
  <2>1. Say("assistant", r).kind = "message" /\ Say("assistant", r) # Say("user", 1)
    BY Kinds
  <2> QED
    BY <1>13, <1>14, <1>15, <2>1
<1> QED
  BY <1>8, <1>10, <1>11, <1>16, <1>17

(* Every step keeps the window the length of the queue ahead of the file. *)
LEMMA AheadStep ==
  ASSUME Ahead, [Next]_vars
  PROVE  WindowAhead'
<1>1. /\ History /\ Opening /\ Answers /\ QuestionAsked /\ IType /\ InOrder /\ QueueType /\ FileType
      /\ file \in File
  BY DEF Ahead, Titles, History, Order, IType, FileType
<1>2. SUFFICES ASSUME NoMishap', window' # "down", session'.listed, ~Deleting'
               PROVE  Loads(file') /\ FreezeFollows' /\ PinFollows' /\ QuestionsShown' /\ RepliesShown'
  BY DEF WindowAhead
<1>3. NoMishap /\ ~WriteFails /\ ~Exit /\ file.closed /\ (Keeps \/ Lands \/ Removes \/ Unheard)
  BY <1>1, <1>2, MishapsStay DEF Exit
<1>4. CASE Restart
  BY <1>1, <1>2, <1>4, RestartShows
<1>5. CASE StartSettles
  BY <1>1, <1>5, StartShows
<1>6. CASE ~Restart /\ ~StartSettles
  <2>1. session.listed /\ window # "down"
    <3>1. session.listed
      BY <1>1, <1>2, <1>6, SessionMoves
    <3>2. window # "down"
      BY <1>1, <1>2, <1>6, WindowMoves DEF IType, vars
    <3> QED
      BY <3>1, <3>2
  <2>2. ~DeleteSettles
    <3>1. ASSUME DeleteSettles PROVE FALSE
      <4>1. session' = [session EXCEPT !.listed = FALSE] /\ session \in Sessions
        BY <1>1, <3>1 DEF DeleteSettles, IType, SessionType
      <4>2. session'.listed = FALSE
        BY <4>1 DEF Sessions
      <4> QED
        BY <1>2, <4>2
    <3> QED
      BY <3>1
  <2>3. ~Deleting
    BY <1>1, <1>2, <1>3, <2>2, DeletingStays
  <2>4. Loads(file) /\ FreezeFollows /\ PinFollows /\ QuestionsShown /\ RepliesShown
    BY <1>3, <2>1, <2>3 DEF Ahead, WindowAhead
  <2>5. Loads(file')
    <3>1. CASE Keeps
      BY <2>4, <3>1 DEF Keeps
    <3>2. CASE Lands \/ Unheard
      <4>1. First \in Line /\ file' = Appended(file, First)
        BY <3>2 DEF Lands, Unheard
      <4>2. /\ \A j \in DOMAIN file.lines : j \in DOMAIN file'.lines /\ file'.lines[j] = file.lines[j]
            /\ DOMAIN file.lines = 1..Len(file.lines) /\ Len(file.lines) \in Nat
        BY <1>1, <1>3, <4>1, NewLine
      <4>3. 1 \in DOMAIN file.lines
        <5>1. file.lines \in Seq(Line) /\ file.lines # <<>>
          BY <1>1, <2>4, FileParts DEF Loads
        <5> QED
          BY <5>1, TailShifts
      <4> QED
        BY <2>4, <4>2, <4>3 DEF Loads
    <3>3. CASE Removes
      <4>1. queue # <<>> /\ First = Remove
        BY <3>3 DEF Removes
      <4>2. Current = queue[1] /\ 1 \in DOMAIN queue /\ Current \in Jobs /\ Current.op = "delete"
            /\ First = Current.entries[1]
        BY <1>1, <4>1, AtHead
      <4>3. Len(Current.entries) = 1
        BY <4>2, JobEntries
      <4>4. Final(queue[1]) = Remove
        BY <4>1, <4>2, <4>3 DEF Final
      <4> QED
        BY <2>3, <4>2, <4>4 DEF Deleting
    <3> QED
      BY <1>3, <3>1, <3>2, <3>3
  <2>6. FreezeFollows'
    BY <1>1, <1>2, <1>3, <1>6, <2>2, <2>4, FreezeFollowsStep
  <2>7. PinFollows'
    BY <1>1, <1>2, <1>3, <1>6, <2>2, <2>4, PinFollowsStep
  <2>8. QuestionsShown'
    BY <1>1, <1>2, <1>3, <1>6, <2>4, <2>5, QuestionsShownStep
  <2>9. RepliesShown'
    BY <1>1, <1>2, <1>3, <1>6, <2>4, <2>5, RepliesShownStep
  <2> QED
    BY <2>5, <2>6, <2>7, <2>8, <2>9
<1> QED
  BY <1>4, <1>5, <1>6

(* With nothing in the queue, that is what the window shows.                            *)
LEMMA AheadMatches ==
  ASSUME Ahead
  PROVE  WindowMatchesLog
<1>1. /\ History /\ IType /\ FileType /\ file \in File /\ session \in Sessions
  BY DEF Ahead, Titles, History, Order, IType, FileType, SessionType
<1>2. SUFFICES ASSUME window # "down", session.listed, queue = <<>>, NoMishap
               PROVE  session = Hydrated(file)
  BY DEF WindowMatchesLog, NoMishap
<1>3. ~Deleting /\ (\A e : ~Pending(e)) /\ (\A r \in Run : phase[r] # "queued")
  BY <1>2 DEF Deleting, Pending, Ahead, QueuedWaits
<1>4. Loads(file) /\ FreezeFollows /\ PinFollows /\ QuestionsShown /\ RepliesShown /\ TitleFollows
  BY <1>2, <1>3 DEF Ahead, WindowAhead, Titles
<1>5. Len(queue) = 0
  BY <1>2
<1>6. session.title = FoldedTitle(file)
  <2>1. PICK e \in Line : Ends("title", e, Len(queue)) /\ session.title = TitleOf(e)
    BY <1>4 DEF TitleFollows
  <2>2. e = LastOf(file, "title", Garbage)
    BY <1>5, <2>1 DEF Ends
  <2> DEFINE default == [title |-> Untitled]
  <2>3. FoldedTitle(file) = LastOf(file, "title", default).title /\ default.title = Untitled
    BY DEF FoldedTitle
  <2> HIDE DEF default
  <2>4. LastOf(file, "title", default) = IF e = Garbage THEN default ELSE e
    BY <1>1, <2>2, LastOfDefaults
  <2> QED
    BY <2>1, <2>3, <2>4 DEF TitleOf
<1>7. session.frozen = FoldedFreeze(file)
  <2>1. PICK e \in Line : Ends("paused", e, Len(queue)) /\ session.frozen = FreezeOf(e)
    BY <1>4 DEF FreezeFollows
  <2>2. e = LastOf(file, "paused", Garbage)
    BY <1>5, <2>1 DEF Ends
  <2>3. LastOf(file, "paused", Tombstone) = IF e = Garbage THEN Tombstone ELSE e
    BY <1>1, <2>2, LastOfDefaults
  <2> QED
    BY <2>1, <2>3, Kinds DEF FreezeOf, FoldedFreeze
<1>8. session.isPinned = FoldedPinned(file)
  BY <1>4 DEF PinFollows
<1>9. session.messages = FoldedMessages(file)
  <2>1. session.messages \subseteq Message /\ FoldedMessages(file) \subseteq Message
    BY <1>1, Folds DEF Sessions
  <2>2. ASSUME NEW m \in Message PROVE m \in session.messages <=> m \in FoldedMessages(file)
    <3>1. /\ m.kind = "message" /\ m.run \in Run
          /\ m = Say("user", m.run) \/ m = Say("assistant", m.run)
      <4>1. m.kind = "message" /\ m = Say(m.role, m.run) /\ m.run \in Run
            /\ (m.role = "user" \/ m.role = "assistant")
        BY EntryKinds
      <4> QED
        BY <4>1
    <3>2. m \in session.messages <=> Logged(m)
      BY <1>3, <1>4, <3>1 DEF QuestionsShown, RepliesShown
    <3> QED
      BY <3>1, <3>2, FoldedLogged
  <2> QED
    BY <2>1, <2>2
<1>10. Hydrated(file) = [listed |-> TRUE, messages |-> FoldedMessages(file),
                         title |-> FoldedTitle(file),
                         isPinned |-> FoldedPinned(file), frozen |-> FoldedFreeze(file)]
  BY <1>4 DEF Hydrated
<1> QED
  BY <1>1, <1>2, <1>6, <1>7, <1>8, <1>9, <1>10 DEF Sessions

(* The window is ahead of the file by its queue in every reachable state. *)
LEMMA AheadIsInvariant == Spec => []Ahead
<1>1. Init => Ahead
  <2> SUFFICES ASSUME Init PROVE Ahead
    OBVIOUS
  <2>1. Titles
    BY TitlesInit
  <2>2. Answers
    BY AnswersInit
  <2>3. queue = <<>> /\ file = NoFile /\ session = Hydrated(NoFile) /\ phase = [r \in Run |-> "none"]
    BY DEF Init
  <2>4. ~session.listed
    BY <2>3, HydratedType, FileParts DEF Loads
  <2>5. QueuedWaits
    BY <2>3 DEF QueuedWaits
  <2>6. QuestionAsked
    <3>1. \A e : ~Pending(e) /\ ~Logged(e)
      BY <2>3, FileParts DEF Pending, Logged
    <3> QED
      BY <3>1 DEF QuestionAsked
  <2> QED
    BY <2>1, <2>2, <2>4, <2>5, <2>6 DEF Ahead, WindowAhead
<1>2. Ahead /\ [Next]_vars => Ahead'
  <2> SUFFICES ASSUME Ahead, [Next]_vars PROVE Ahead'
    OBVIOUS
  <2>1. Titles /\ Answers /\ QueuedWaits /\ QuestionAsked /\ History
    BY DEF Ahead, Titles
  <2>2. Titles' /\ Answers' /\ QueuedWaits' /\ QuestionAsked'
    BY <2>1, TitlesStep, AnswersStep, WaitsStep, QuestionAskedStep
  <2>3. WindowAhead'
    BY AheadStep
  <2> QED
    BY <2>2, <2>3 DEF Ahead
<1> QED
  BY <1>1, <1>2, PTL DEF Spec

(* The fold gives back what the window shows: with no append lost and none under way, a *)
(* restart now would change nothing, whatever mixture of memory-first edits (rename,    *)
(* finalize, freeze) and disk-first ones (send, pin) went before (fileSessionsProvider: *)
(* updateX, then enqueueWrite).                                                         *)
THEOREM WindowMatches == Spec => []WindowMatchesLog
<1>1. Ahead => WindowMatchesLog
  BY AheadMatches
<1> QED
  BY <1>1, AheadIsInvariant, PTL
=============================================================================
