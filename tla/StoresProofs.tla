---------------------------- MODULE StoresProofs ----------------------------
(***************************************************************************)
(* The stores behind the settings pages: the registry of models, the data  *)
(* sources, the code roots and the skills, and the proofs that they keep   *)
(* what was saved, for any overlap of handlers and any end of the program. *)
(* Each has an invariant that says where a handler alone stands between    *)
(* what it read and the history.  They share no state: MCMainProcess runs  *)
(* one of them at a time.                                                  *)
(***************************************************************************)
EXTENDS Naturals, Sequences, FiniteSets, FiniteSetTheorems, WellFoundedInduction, TLAPS

CONSTANTS
  None,
  \* ModelRegistry
  RegistrySeed, RegistryIds, ApiKeys, Efforts, AskedIds, RegistryStarts,
  \* DataSources
  SeedEnvironments, SourceNames, Locked,
  \* CodeRoots
  CodeDirs, FoundDirs, DirOrigin, RepoUrls,
  \* SkillFiles
  SkillNames, SkillCalls,
  \* The handlers of the last three, and of all
  StoreStarts, StoreJobs

VARIABLES
  \* ModelRegistry
  models, modelTmp, modelJob, modelStarted, modelSerial, modelOverlapped,
  \* DataSources
  config, secrets, sourceJob, sourceStarted, sourceSerial, sourceOverlapped,
  \* CodeRoots
  rootProject, home, rootDisk, rootJob, rootStarted, ready, rootSerial, rootOverlapped, broken,
  \* SkillFiles
  files, skillView, editing, error, skillAsked, skillAsks, mentions, promised, skillDisturbed

MR == INSTANCE ModelRegistry WITH
        Seed <- RegistrySeed, Given <- RegistryIds, Keys <- ApiKeys, Asked <- AskedIds,
        Jobs <- StoreJobs, Starts <- RegistryStarts, tmp <- modelTmp, job <- modelJob,
        started <- modelStarted, serial <- modelSerial, overlapped <- modelOverlapped
DS == INSTANCE DataSources WITH
        Environments <- SeedEnvironments, Sources <- SourceNames, Jobs <- StoreJobs,
        Starts <- StoreStarts, job <- sourceJob, started <- sourceStarted,
        serial <- sourceSerial, overlapped <- sourceOverlapped
CR == INSTANCE CodeRoots WITH
        Roots <- CodeDirs, Found <- FoundDirs, OriginOf <- DirOrigin, Urls <- RepoUrls,
        Jobs <- StoreJobs, Starts <- StoreStarts, project <- rootProject, disk <- rootDisk,
        job <- rootJob, started <- rootStarted, serial <- rootSerial, overlapped <- rootOverlapped
SK == INSTANCE SkillFiles WITH
        Names <- SkillNames, Asks <- SkillCalls, view <- skillView, asked <- skillAsked,
        asks <- skillAsks, disturbed <- skillDisturbed

-----------------------------------------------------------------------------
(* Numbers.                                                                  *)

(* A set of numbers has a least one.                                         *)
LEMMA LeastExists ==
  ASSUME NEW n \in Nat, NEW S \in SUBSET (1..n), S # {}
  PROVE  \E k \in S : \A l \in S : k <= l
<1> DEFINE Below(x) == {y \in S : y < x}
           T == {Below(x) : x \in S}
<1>1. IsFiniteSet(S)
  <2>1. IsFiniteSet(1..n)
    BY FS_Interval
  <2> QED
    BY <2>1, FS_Subset
<1>2. FiniteSubsetsOf(S) = SUBSET S
  BY <1>1, FS_FiniteSubsetsOfFinite
<1>3. IsWellFoundedOn(StrictSubsetOrdering(S), SUBSET S)
  BY <1>2, FS_StrictSubsetOrderingWellFounded
<1>4. T \subseteq SUBSET S /\ T # {}
  OBVIOUS
<1>5. PICK A \in T : \A B \in T : ~(<<B, A>> \in StrictSubsetOrdering(S))
  <2> HIDE DEF T
  <2> QED
    BY <1>3, <1>4, WFMin
<1>6. PICK x \in S : A = Below(x)
  OBVIOUS
<1>7. \A y \in S : x <= y
  <2> SUFFICES ASSUME NEW y \in S, y < x PROVE FALSE
    OBVIOUS
  <2>1. Below(y) \subseteq Below(x) /\ y \in Below(x) /\ y \notin Below(y)
    <3>1. x \in Nat /\ y \in Nat /\ S \subseteq Nat
      OBVIOUS
    <3>2. \A z \in S : z < y => z < x
      BY <3>1
    <3>3. ~(y < y)
      BY <3>1
    <3> QED
      BY <3>2, <3>3
  <2>2. Below(y) \in T /\ Below(y) \in SUBSET S /\ Below(x) \in SUBSET S
    OBVIOUS
  <2> HIDE DEF Below
  <2>3. <<Below(y), Below(x)>> \in StrictSubsetOrdering(S)
    BY <2>1, <2>2 DEF StrictSubsetOrdering
  <2> QED
    BY <1>5, <1>6, <2>2, <2>3
<1> QED
  BY <1>7

-----------------------------------------------------------------------------
(* The registry of models. An id is made of the number of the handler that   *)
(* made it, so what is written keeps apart the ids of the seed and of the    *)
(* handlers before.                                                          *)

(* The models there can be once n handlers made ids of their own.            *)
ModelsOf(n) == [id : {MR!M(i) : i \in 1..(RegistryIds + n)},
                enabled : BOOLEAN, effort : Efforts \cup {None}]

(* The providers there can be.                                               *)
ProvidersOf(n) == [id : {MR!P(i) : i \in 1..(RegistryIds + n)}, key : ApiKeys \cup {None},
                   models : Seq(ModelsOf(n))]

(* What a registry keeps of the seed: its providers their key, and its       *)
(* models their provider.                                                    *)
SeedStands(reg) ==
  \A i \in 1..Len(reg), s \in 1..Len(RegistrySeed) :
    /\ reg[i].id = RegistrySeed[s].id /\ RegistrySeed[s].key # None => reg[i].key # None
    /\ \A a \in 1..Len(reg[i].models), b \in 1..Len(RegistrySeed[s].models) :
         reg[i].models[a].id = RegistrySeed[s].models[b].id => reg[i].id = RegistrySeed[s].id

(* A registry whose ids are apart, with the ids of the seed and of n         *)
(* handlers.                                                                 *)
RegistryIn(reg, n) == reg \in Seq(ProvidersOf(n)) /\ MR!Distinct(reg) /\ SeedStands(reg)

(* Every entry of r is one of list, in a place of its own.                   *)
Picked(r, list) ==
  \E f \in [1..Len(r) -> 1..Len(list)] :
    \A k, l \in 1..Len(r) : r[k] = list[f[k]] /\ (f[k] = f[l] => k = l)

(* Ids with numbers of their own differ.                                     *)
LEMMA IdsDiffer ==
  ASSUME NEW i, NEW k
  PROVE  (MR!P(i) = MR!P(k) => i = k) /\ (MR!M(i) = MR!M(k) => i = k)
  BY DEF MR!P, MR!M

(* Removing a place leaves entries of the list.                              *)
LEMMA RemoveAtIs ==
  ASSUME NEW S, NEW list \in Seq(S), NEW i \in 1..Len(list)
  PROVE  MR!RemoveAt(list, i) \in Seq(S) /\ Picked(MR!RemoveAt(list, i), list)
<1> DEFINE r == MR!RemoveAt(list, i)
           f == [k \in 1..Len(r) |-> IF k < i THEN k ELSE k + 1]
<1>1. r \in Seq(S) /\ Len(r) = Len(list) - 1
      /\ \A k \in 1..Len(r) : r[k] = (IF k < i THEN list[k] ELSE list[k + 1])
  <2> DEFINE a == SubSeq(list, 1, i - 1)
             b == SubSeq(list, i + 1, Len(list))
  <2>1. a \in Seq(S) /\ Len(a) = i - 1 /\ \A k \in 1..Len(a) : a[k] = list[k]
    OBVIOUS
  <2>2. b \in Seq(S) /\ Len(b) = Len(list) - i /\ \A k \in 1..Len(b) : b[k] = list[i + k]
    OBVIOUS
  <2>3. r = a \o b
    BY DEF MR!RemoveAt
  <2> HIDE DEF a, b, r
  <2>4. r \in Seq(S) /\ Len(r) = Len(a) + Len(b)
        /\ \A k \in 1..Len(r) : r[k] = (IF k <= Len(a) THEN a[k] ELSE b[k - Len(a)])
    <3>1. a \in Seq(S) /\ b \in Seq(S)
      BY <2>1, <2>2
    <3>2. r \in Seq(S) /\ Len(r) = Len(a) + Len(b)
      BY <3>1, <2>3
    <3>3. \A k \in 1..Len(r) : r[k] = (IF k <= Len(a) THEN a[k] ELSE b[k - Len(a)])
      BY <3>1, <3>2, <2>3
    <3> QED
      BY <3>2, <3>3
  <2>5. Len(r) = Len(list) - 1
    BY <2>1, <2>2, <2>4
  <2>6. ASSUME NEW k \in 1..Len(r) PROVE r[k] = (IF k < i THEN list[k] ELSE list[k + 1])
    <3>1. CASE k < i
      BY <3>1, <2>1, <2>4
    <3>2. CASE ~(k < i)
      <4>1. k - Len(a) \in 1..Len(b) /\ i + (k - Len(a)) = k + 1 /\ ~(k <= Len(a))
        BY <3>2, <2>1, <2>2, <2>5
      <4> QED
        BY <4>1, <3>2, <2>2, <2>4
    <3> QED
      BY <3>1, <3>2
  <2> QED
    BY <2>4, <2>5, <2>6
<1> HIDE DEF r
<1>2. f \in [1..Len(r) -> 1..Len(list)]
  BY <1>1
<1>3. \A k, l \in 1..Len(r) : r[k] = list[f[k]] /\ (f[k] = f[l] => k = l)
  BY <1>1
<1> HIDE DEF f
<1>4. Picked(r, list)
  BY <1>2, <1>3 DEF Picked
<1> QED
  BY <1>1, <1>4 DEF r

(* A list is its own entries.                                                *)
LEMMA AllPicked ==
  ASSUME NEW S, NEW list \in Seq(S)
  PROVE  Picked(list, list)
<1> DEFINE f == [k \in 1..Len(list) |-> k]
<1>1. f \in [1..Len(list) -> 1..Len(list)]
      /\ \A k, l \in 1..Len(list) : list[k] = list[f[k]] /\ (f[k] = f[l] => k = l)
  OBVIOUS
<1> HIDE DEF f
<1> QED
  BY <1>1 DEF Picked

(* Removing an id leaves entries of the list.                                *)
LEMMA RemovedIs ==
  ASSUME NEW S, NEW list \in Seq(S), NEW id
  PROVE  MR!Removed(list, id) \in Seq(S) /\ Picked(MR!Removed(list, id), list)
<1>1. CASE MR!Has(list, id)
  <2>1. MR!At(list, id) \in 1..Len(list)
    BY <1>1 DEF MR!Has, MR!At
  <2> QED
    BY <1>1, <2>1, RemoveAtIs DEF MR!Removed
<1>2. CASE ~MR!Has(list, id)
  BY <1>2, AllPicked DEF MR!Removed
<1> QED
  BY <1>1, <1>2

(* The models of r are some of ms, none twice.                               *)
IdsFrom(r, ms) ==
  /\ \A a \in 1..Len(r) : \E b \in 1..Len(ms) : r[a].id = ms[b].id
  /\ \A a, c \in 1..Len(r) : r[a].id = r[c].id => a = c

(* Picked models keep their ids apart.                                       *)
LEMMA PickedFrom ==
  ASSUME NEW S, NEW r \in Seq(S), NEW ms \in Seq(S), Picked(r, ms),
         \A a, c \in 1..Len(ms) : ms[a].id = ms[c].id => a = c
  PROVE  IdsFrom(r, ms)
<1>1. PICK f \in [1..Len(r) -> 1..Len(ms)] :
        \A k, l \in 1..Len(r) : r[k] = ms[f[k]] /\ (f[k] = f[l] => k = l)
  BY DEF Picked
<1>2. \A k \in 1..Len(r) : f[k] \in 1..Len(ms)
  OBVIOUS
<1>3. \A k \in 1..Len(r) : r[k] = ms[f[k]]
  BY <1>1
<1>4. \A a, c \in 1..Len(r) : r[a].id = r[c].id => a = c
  BY <1>1, <1>2, <1>3
<1> QED
  BY <1>2, <1>3, <1>4 DEF IdsFrom

(* The fields of a model.                                                    *)
LEMMA ModelIs ==
  ASSUME NEW n \in Nat, NEW x \in {MR!M(i) : i \in 1..(RegistryIds + n)}, NEW e \in BOOLEAN,
         NEW f \in Efforts \cup {None}
  PROVE  MR!Model(x, e, f) \in ModelsOf(n) /\ MR!Model(x, e, f).id = x
  BY DEF MR!Model, ModelsOf

(* The fields of a provider.                                                 *)
LEMMA ProviderIs ==
  ASSUME NEW n \in Nat, NEW x \in {MR!P(i) : i \in 1..(RegistryIds + n)},
         NEW key \in ApiKeys \cup {None},
         NEW ms \in Seq(ModelsOf(n))
  PROVE  LET p == MR!Provider(x, key, ms)
         IN  p \in ProvidersOf(n) /\ p.id = x /\ p.key = key /\ p.models = ms
  BY DEF MR!Provider, ProvidersOf

(* An edit within a list of models adds no id.                               *)
LEMMA ModelsEditedIs ==
  ASSUME MR!Sown, NEW n \in Nat, NEW ask \in MR!Requests,
         ask.op \in {"removeModel", "setEnabled", "setEffort", "move"},
         NEW ms \in Seq(ModelsOf(n)), \A a, c \in 1..Len(ms) : ms[a].id = ms[c].id => a = c
  PROVE  MR!ModelsEdited(ask, ms) \in Seq(ModelsOf(n)) /\ IdsFrom(MR!ModelsEdited(ask, ms), ms)
<1> DEFINE r == MR!ModelsEdited(ask, ms)
<1>1. CASE ask.op = "removeModel"
  <2>1. r = MR!Removed(ms, ask.id)
    BY <1>1 DEF MR!ModelsEdited
  <2> HIDE DEF r
  <2>2. r \in Seq(ModelsOf(n)) /\ Picked(r, ms)
    BY <2>1, RemovedIs
  <2> QED
    BY <2>2, PickedFrom DEF r
<1>2. CASE ask.op = "setEnabled"
  <2>1. r = [k \in 1..Len(ms) |-> IF ms[k].id = ask.id THEN MR!Model(ms[k].id, ask.to, ms[k].effort)
                                   ELSE ms[k]]
    BY <1>2 DEF MR!ModelsEdited
  <2>2. ask.to \in BOOLEAN
    BY <1>2 DEF MR!Requests
  <2>3. \A k \in 1..Len(ms) : MR!Model(ms[k].id, ask.to, ms[k].effort) \in ModelsOf(n)
                              /\ MR!Model(ms[k].id, ask.to, ms[k].effort).id = ms[k].id
    <3> TAKE k \in 1..Len(ms)
    <3>1. ms[k] \in ModelsOf(n)
      OBVIOUS
    <3>2. ms[k].id \in {MR!M(i) : i \in 1..(RegistryIds + n)}
          /\ ms[k].effort \in Efforts \cup {None}
      BY <3>1 DEF ModelsOf
    <3> QED
      BY <3>2, <2>2, ModelIs
  <2> HIDE DEF r
  <2>4. r \in Seq(ModelsOf(n)) /\ Len(r) = Len(ms) /\ \A k \in 1..Len(ms) : r[k].id = ms[k].id
    BY <2>1, <2>3
  <2> QED
    BY <2>4 DEF IdsFrom, r
<1>3. CASE ask.op = "setEffort"
  <2>1. r = [k \in 1..Len(ms) |-> IF ms[k].id = ask.id THEN MR!Model(ms[k].id, ms[k].enabled, ask.to)
                                   ELSE ms[k]]
    BY <1>3 DEF MR!ModelsEdited
  <2>2. ask.to \in Efforts \cup {None}
    BY <1>3 DEF MR!Requests
  <2>3. \A k \in 1..Len(ms) : MR!Model(ms[k].id, ms[k].enabled, ask.to) \in ModelsOf(n)
                              /\ MR!Model(ms[k].id, ms[k].enabled, ask.to).id = ms[k].id
    <3> TAKE k \in 1..Len(ms)
    <3>1. ms[k] \in ModelsOf(n)
      OBVIOUS
    <3>2. ms[k].id \in {MR!M(i) : i \in 1..(RegistryIds + n)} /\ ms[k].enabled \in BOOLEAN
      BY <3>1 DEF ModelsOf
    <3> QED
      BY <3>2, <2>2, ModelIs
  <2> HIDE DEF r
  <2>4. r \in Seq(ModelsOf(n)) /\ Len(r) = Len(ms) /\ \A k \in 1..Len(ms) : r[k].id = ms[k].id
    BY <2>1, <2>3
  <2> QED
    BY <2>4 DEF IdsFrom, r
<1>4. CASE ask.op = "move"
  <2>1. r = IF MR!Has(ms, ask.id) THEN MR!Moved(ms, ask.id, ask.to) ELSE ms
    BY <1>4 DEF MR!ModelsEdited
  <2>2. CASE ~MR!Has(ms, ask.id)
    BY <2>1, <2>2 DEF IdsFrom
  <2>3. CASE MR!Has(ms, ask.id)
    <3> DEFINE i == MR!At(ms, ask.id)
               j == IF ask.to THEN i - 1 ELSE i + 1
    <3>1. i \in 1..Len(ms) /\ j \in Int /\ i # j
      BY <2>3 DEF MR!Has, MR!At
    <3>2. r = IF j \in 1..Len(ms)
              THEN [k \in 1..Len(ms) |-> CASE k = i -> ms[j] [] k = j -> ms[i] [] OTHER -> ms[k]]
              ELSE ms
      BY <2>1, <2>3 DEF MR!Moved
    <3> HIDE DEF r, i, j
    <3>3. CASE j \notin 1..Len(ms)
      BY <3>2, <3>3 DEF IdsFrom, r
    <3>4. CASE j \in 1..Len(ms)
      <4>1. /\ Len(r) = Len(ms)
            /\ \A k \in 1..Len(ms) : k = i => r[k] = ms[j]
            /\ \A k \in 1..Len(ms) : k = j => r[k] = ms[i]
            /\ \A k \in 1..Len(ms) : k # i /\ k # j => r[k] = ms[k]
        BY <3>1, <3>2, <3>4
      <4>2. r \in Seq(ModelsOf(n))
        <5>1. \A k \in 1..Len(ms) : r[k] \in ModelsOf(n)
          <6> TAKE k \in 1..Len(ms)
          <6>1. r[k] = ms[i] \/ r[k] = ms[j] \/ r[k] = ms[k]
            BY <4>1
          <6>2. ms[i] \in ModelsOf(n) /\ ms[j] \in ModelsOf(n) /\ ms[k] \in ModelsOf(n)
            BY <3>1, <3>4
          <6> QED
            BY <6>1, <6>2
        <5>2. r = [k \in 1..Len(ms) |-> r[k]]
          BY <3>2, <3>4
        <5> QED
          BY <5>1, <5>2
      <4>3. IdsFrom(r, ms)
        <5> DEFINE f == [k \in 1..Len(ms) |-> IF k = i THEN j ELSE IF k = j THEN i ELSE k]
        <5>1. f \in [1..Len(ms) -> 1..Len(ms)] /\ \A k \in 1..Len(ms) : r[k] = ms[f[k]]
          BY <3>1, <3>4, <4>1
        <5>2. \A k, l \in 1..Len(ms) : f[k] = f[l] => k = l
          BY <3>1, <3>4
        <5> HIDE DEF f
        <5>3. Picked(r, ms)
          BY <4>1, <5>1, <5>2 DEF Picked
        <5> QED
          BY <4>2, <5>3, PickedFrom
      <4> QED
        BY <4>2, <4>3 DEF r
    <3> QED
      BY <3>3, <3>4
  <2> QED
    BY <2>2, <2>3
<1> QED
  BY <1>1, <1>2, <1>3, <1>4

(* One provider after an edit of its own, with at most the model of number n *)
(* + 1 new.                                                                  *)
ProviderFollows(q, p, n) ==
  /\ q \in ProvidersOf(n + 1) /\ q.id = p.id /\ (p.key # None => q.key # None)
  /\ \A a \in 1..Len(q.models) : \/ q.models[a].id = MR!M(RegistryIds + n + 1)
                                  \/ \E b \in 1..Len(p.models) : q.models[a].id = p.models[b].id
  /\ \A a, c \in 1..Len(q.models) : q.models[a].id = q.models[c].id => a = c

(* The model of number n + 1 is among those of q.                            *)
ProviderAdds(q, n) == \E a \in 1..Len(q.models) : q.models[a].id = MR!M(RegistryIds + n + 1)

(* A handler more, and the ids there can be include those there were.        *)
LEMMA MoreIds ==
  ASSUME MR!Sown, NEW n \in Nat
  PROVE  /\ ModelsOf(n) \subseteq ModelsOf(n + 1) /\ ProvidersOf(n) \subseteq ProvidersOf(n + 1)
         /\ \A ms \in Seq(ModelsOf(n)) : ms \in Seq(ModelsOf(n + 1))
         /\ \A reg \in Seq(ProvidersOf(n)) : reg \in Seq(ProvidersOf(n + 1))
<1>1. \A i \in 1..(RegistryIds + n) : i \in 1..(RegistryIds + (n + 1))
  BY DEF MR!Sown
<1>2. ModelsOf(n) \subseteq ModelsOf(n + 1)
  BY <1>1 DEF ModelsOf
<1>3. \A ms \in Seq(ModelsOf(n)) : ms \in Seq(ModelsOf(n + 1))
  BY <1>2
<1>4. ProvidersOf(n) \subseteq ProvidersOf(n + 1)
  BY <1>1, <1>3 DEF ProvidersOf
<1>5. \A reg \in Seq(ProvidersOf(n)) : reg \in Seq(ProvidersOf(n + 1))
  BY <1>4
<1> QED
  BY <1>2, <1>3, <1>4, <1>5

(* The id a handler makes is nobody's.                                       *)
LEMMA FreshModel ==
  ASSUME MR!Sown, NEW n \in Nat, NEW x \in ModelsOf(n)
  PROVE  x.id # MR!M(RegistryIds + n + 1)
<1>1. PICK i \in 1..(RegistryIds + n) : x.id = MR!M(i)
  BY DEF ModelsOf
<1>2. i # RegistryIds + n + 1
  BY DEF MR!Sown
<1> QED
  BY <1>1, <1>2, IdsDiffer

(* The list of an upsert: the models there were and the new one, each id     *)
(* once.                                                                     *)
LEMMA NormalizedIs ==
  ASSUME MR!Sown, NEW n \in Nat, NEW ask \in MR!Requests, ask.op = "upsertModel",
         NEW ms \in Seq(ModelsOf(n)), \A a, c \in 1..Len(ms) : ms[a].id = ms[c].id => a = c
  PROVE  LET r == MR!Normalized(ask, ms, n + 1)
         IN  /\ r \in Seq(ModelsOf(n + 1))
             /\ \A a \in 1..Len(r) : \/ r[a].id = MR!M(RegistryIds + n + 1)
                                     \/ \E b \in 1..Len(ms) : r[a].id = ms[b].id
             /\ \A a, c \in 1..Len(r) : r[a].id = r[c].id => a = c
<1> DEFINE r == MR!Normalized(ask, ms, n + 1)
<1>1. ask.effort \in Efforts \cup {None}
  BY DEF MR!Requests
<1>2. CASE MR!Has(ms, ask.model)
  <2>1. r = [k \in 1..Len(ms) |-> IF ms[k].id = ask.model
                                    THEN MR!Model(ms[k].id, ms[k].enabled, ask.effort)
                                  ELSE ms[k]]
    BY <1>2 DEF MR!Normalized
  <2>2. \A k \in 1..Len(ms) : MR!Model(ms[k].id, ms[k].enabled, ask.effort) \in ModelsOf(n)
                              /\ MR!Model(ms[k].id, ms[k].enabled, ask.effort).id = ms[k].id
    <3> TAKE k \in 1..Len(ms)
    <3>1. ms[k] \in ModelsOf(n)
      OBVIOUS
    <3>2. ms[k].id \in {MR!M(i) : i \in 1..(RegistryIds + n)} /\ ms[k].enabled \in BOOLEAN
      BY <3>1 DEF ModelsOf
    <3> QED
      BY <3>2, <1>1, ModelIs
  <2> HIDE DEF r
  <2>3. r \in Seq(ModelsOf(n)) /\ Len(r) = Len(ms) /\ \A k \in 1..Len(ms) : r[k].id = ms[k].id
    BY <2>1, <2>2
  <2>4. r \in Seq(ModelsOf(n + 1))
    BY <2>3, MoreIds
  <2> QED
    BY <2>3, <2>4 DEF r
<1>3. CASE ~MR!Has(ms, ask.model)
  <2> DEFINE new == MR!Model(MR!M(RegistryIds + (n + 1)), TRUE, ask.effort)
  <2>1. r = Append(ms, new)
    BY <1>3 DEF MR!Normalized
  <2>2. MR!M(RegistryIds + (n + 1)) \in {MR!M(i) : i \in 1..(RegistryIds + (n + 1))}
        /\ RegistryIds + (n + 1) = RegistryIds + n + 1
    BY DEF MR!Sown
  <2>3. new \in ModelsOf(n + 1) /\ new.id = MR!M(RegistryIds + n + 1)
    <3> DEFINE x == MR!M(RegistryIds + (n + 1))
    <3>1. n + 1 \in Nat /\ TRUE \in BOOLEAN /\ x = MR!M(RegistryIds + n + 1)
      BY <2>2
    <3>2. x \in {MR!M(i) : i \in 1..(RegistryIds + (n + 1))}
      BY <2>2
    <3> HIDE DEF x
    <3>3. MR!Model(x, TRUE, ask.effort) \in ModelsOf(n + 1) /\ MR!Model(x, TRUE, ask.effort).id = x
      BY <1>1, <3>1, <3>2, ModelIs
    <3> QED
      BY <3>1, <3>3 DEF x
  <2> HIDE DEF r, new
  <2>4. ms \in Seq(ModelsOf(n + 1))
    BY MoreIds
  <2>5. /\ r \in Seq(ModelsOf(n + 1)) /\ Len(r) = Len(ms) + 1 /\ r[Len(ms) + 1] = new
        /\ \A k \in 1..Len(ms) : r[k] = ms[k]
    BY <2>1, <2>3, <2>4
  <2>6. \A k \in 1..Len(ms) : ms[k].id # new.id
    <3> TAKE k \in 1..Len(ms)
    <3>1. ms[k] \in ModelsOf(n)
      OBVIOUS
    <3> QED
      BY <3>1, <2>3, FreshModel
  <2>7. \A a \in 1..Len(r) : a \in 1..Len(ms) \/ a = Len(ms) + 1
    BY <2>5
  <2>8. \A a, c \in 1..Len(r) : r[a].id = r[c].id => a = c
    BY <2>5, <2>6, <2>7
  <2>9. \A a \in 1..Len(r) : \/ r[a].id = MR!M(RegistryIds + n + 1)
                             \/ \E b \in 1..Len(ms) : r[a].id = ms[b].id
    BY <2>3, <2>5, <2>7
  <2> QED
    BY <2>5, <2>8, <2>9 DEF r
<1> QED
  BY <1>2, <1>3

(* What an edit does to the provider it is about, or to another.             *)
LEMMA ProviderEditedIs ==
  ASSUME MR!Sown, NEW n \in Nat, NEW ask \in MR!Requests, ask.op # "removeProvider",
         NEW p \in ProvidersOf(n),
         \A a, c \in 1..Len(p.models) : p.models[a].id = p.models[c].id => a = c
  PROVE  LET q == MR!ProviderEdited(ask, p, n + 1)
         IN  ProviderFollows(q, p, n)
         /\ (ProviderAdds(q, n) => ask.op = "upsertModel" /\ p.id = ask.id)
<1> DEFINE q == MR!ProviderEdited(ask, p, n + 1)
<1>1. /\ p.id \in {MR!P(i) : i \in 1..(RegistryIds + n)} /\ p.key \in ApiKeys \cup {None}
      /\ p.models \in Seq(ModelsOf(n)) /\ p \in ProvidersOf(n + 1)
      /\ p.id \in {MR!P(i) : i \in 1..(RegistryIds + (n + 1))}
      /\ p.models \in Seq(ModelsOf(n + 1))
  <2>1. p \in ProvidersOf(n + 1) /\ p.models \in Seq(ModelsOf(n))
    BY MoreIds DEF ProvidersOf
  <2> QED
    BY <2>1 DEF ProvidersOf
<1>2. \A a \in 1..Len(p.models) : p.models[a].id # MR!M(RegistryIds + n + 1)
  <2> TAKE a \in 1..Len(p.models)
  <2>1. p.models[a] \in ModelsOf(n)
    BY <1>1
  <2> QED
    BY <2>1, FreshModel
<1>3. ProviderFollows(p, p, n) /\ ~ProviderAdds(p, n)
  BY <1>1, <1>2 DEF ProviderFollows, ProviderAdds
<1>4. CASE ask.op = "upsertProvider"
  <2>1. q = IF p.id = ask.id THEN MR!Provider(p.id, MR!KeyKept(ask.key, p.key), p.models) ELSE p
    BY <1>4 DEF MR!ProviderEdited
  <2>2. ask.key \in ApiKeys \cup {None}
    BY <1>4 DEF MR!Requests
  <2>3. MR!KeyKept(ask.key, p.key) \in ApiKeys \cup {None}
        /\ (p.key # None => MR!KeyKept(ask.key, p.key) # None)
    BY <1>1, <2>2 DEF MR!KeyKept
  <2> HIDE DEF q
  <2>4. CASE p.id = ask.id
    <3>1. q \in ProvidersOf(n + 1) /\ q.id = p.id /\ q.key = MR!KeyKept(ask.key, p.key)
          /\ q.models = p.models
      <4>1. n + 1 \in Nat
        OBVIOUS
      <4> QED
        BY <2>1, <2>3, <2>4, <1>1, <4>1, ProviderIs
    <3> QED
      BY <3>1, <2>3, <1>2, <1>4 DEF ProviderFollows, ProviderAdds, q
  <2> QED
    BY <2>1, <2>4, <1>3 DEF q
<1>5. CASE ask.op = "upsertModel"
  <2> DEFINE r == MR!Normalized(ask, p.models, n + 1)
  <2>1. q = IF p.id = ask.id THEN MR!Provider(p.id, p.key, r) ELSE p
    BY <1>5 DEF MR!ProviderEdited
  <2>2. /\ r \in Seq(ModelsOf(n + 1))
        /\ \A a \in 1..Len(r) : \/ r[a].id = MR!M(RegistryIds + n + 1)
                                \/ \E b \in 1..Len(p.models) : r[a].id = p.models[b].id
        /\ \A a, c \in 1..Len(r) : r[a].id = r[c].id => a = c
    BY <1>1, <1>5, NormalizedIs
  <2> HIDE DEF q, r
  <2>3. CASE p.id = ask.id
    <3>1. q \in ProvidersOf(n + 1) /\ q.id = p.id /\ q.key = p.key /\ q.models = r
      <4>1. n + 1 \in Nat
        OBVIOUS
      <4> QED
        BY <2>1, <2>2, <2>3, <1>1, <4>1, ProviderIs
    <3> QED
      BY <3>1, <2>2, <2>3, <1>5 DEF ProviderFollows, ProviderAdds, q
  <2> QED
    BY <2>1, <2>3, <1>3 DEF q
<1>6. CASE ask.op \in {"removeModel", "setEnabled", "setEffort", "move"}
  <2> DEFINE r == MR!ModelsEdited(ask, p.models)
  <2>1. q = MR!Provider(p.id, p.key, r)
    BY <1>6 DEF MR!ProviderEdited
  <2>2. r \in Seq(ModelsOf(n)) /\ IdsFrom(r, p.models)
    BY <1>1, <1>6, ModelsEditedIs
  <2>3. r \in Seq(ModelsOf(n + 1))
    BY <2>2, MoreIds
  <2> HIDE DEF q, r
  <2>4. q \in ProvidersOf(n + 1) /\ q.id = p.id /\ q.key = p.key /\ q.models = r
    <3>1. n + 1 \in Nat
      OBVIOUS
    <3> QED
      BY <2>1, <2>3, <1>1, <3>1, ProviderIs
  <2> QED
    BY <2>2, <2>4, <1>2 DEF ProviderFollows, ProviderAdds, IdsFrom, q
<1>7. ask.op \in {"upsertProvider", "removeProvider", "upsertModel",
                    "removeModel", "setEnabled", "setEffort", "move"}
  BY DEF MR!Requests
<1> QED
  BY <1>4, <1>5, <1>6, <1>7

(* No id of the seed is made by a handler.                                   *)
LEMMA SeedIds ==
  ASSUME MR!Sown, NEW n \in Nat
  PROVE  /\ \A s \in 1..Len(RegistrySeed) : RegistrySeed[s].id # MR!P(RegistryIds + n + 1)
         /\ \A s \in 1..Len(RegistrySeed) : \A b \in 1..Len(RegistrySeed[s].models) :
              RegistrySeed[s].models[b].id # MR!M(RegistryIds + n + 1)
<1> SUFFICES ASSUME NEW s \in 1..Len(RegistrySeed)
             PROVE  /\ RegistrySeed[s].id # MR!P(RegistryIds + n + 1)
                    /\ \A b \in 1..Len(RegistrySeed[s].models) :
                         RegistrySeed[s].models[b].id # MR!M(RegistryIds + n + 1)
  OBVIOUS
<1> DEFINE MS == [id : {MR!M(i) : i \in 1..RegistryIds},
                  enabled : BOOLEAN, effort : Efforts \cup {None}]
           PS == [id : {MR!P(i) : i \in 1..RegistryIds}, key : ApiKeys \cup {None},
                  models : Seq(MS)]
<1>1. RegistrySeed \in Seq(PS) /\ RegistryIds \in Nat
  BY DEF MR!Sown
<1> HIDE DEF MS, PS
<1>2. RegistrySeed[s].id \in {MR!P(i) : i \in 1..RegistryIds} /\ RegistrySeed[s].models \in Seq(MS)
  <2>1. RegistrySeed[s] \in PS
    BY <1>1
  <2> QED
    BY <2>1 DEF PS
<1>3. RegistrySeed[s].id # MR!P(RegistryIds + n + 1)
  <2>1. PICK i \in 1..RegistryIds : RegistrySeed[s].id = MR!P(i)
    BY <1>2
  <2>2. i # RegistryIds + n + 1
    BY <1>1
  <2> QED
    BY <2>1, <2>2, IdsDiffer
<1>4. ASSUME NEW b \in 1..Len(RegistrySeed[s].models)
      PROVE RegistrySeed[s].models[b].id # MR!M(RegistryIds + n + 1)
  <2>1. RegistrySeed[s].models[b] \in MS
    BY <1>2
  <2>2. PICK i \in 1..RegistryIds : RegistrySeed[s].models[b].id = MR!M(i)
    BY <2>1 DEF MS
  <2>3. i # RegistryIds + n + 1
    BY <1>1
  <2> QED
    BY <2>2, <2>3, IdsDiffer
<1> QED
  BY <1>3, <1>4

(* The seed, and an empty registry.                                          *)
LEMMA SeedWhole ==
  ASSUME MR!Sown
  PROVE  RegistryIn(RegistrySeed, 0) /\ RegistryIn(<<>>, 0)
<1>1. RegistryIds + 0 = RegistryIds
  BY DEF MR!Sown
<1>2. RegistrySeed \in Seq(ProvidersOf(0))
  BY <1>1 DEF MR!Sown, ProvidersOf, ModelsOf
<1>3. SeedStands(RegistrySeed)
  BY DEF SeedStands, MR!Sown, MR!Distinct
<1>4. <<>> \in Seq(ProvidersOf(0)) /\ Len(<<>>) = 0
  OBVIOUS
<1>5. MR!Distinct(<<>>) /\ SeedStands(<<>>)
  BY DEF MR!Distinct, SeedStands
<1> QED
  BY <1>2, <1>3, <1>4, <1>5 DEF RegistryIn, MR!Sown

(* The ids of two models differ, whichever providers they belong to.         *)
LEMMA ModelsApart ==
  ASSUME NEW n, NEW reg, RegistryIn(reg, n), NEW u \in 1..Len(reg), NEW v \in 1..Len(reg),
         NEW x \in 1..Len(reg[u].models), NEW y \in 1..Len(reg[v].models),
         reg[u].models[x].id = reg[v].models[y].id
  PROVE  u = v /\ x = y
  BY DEF RegistryIn, MR!Distinct

(* A registry without some of its providers.                                 *)
LEMMA PickedWhole ==
  ASSUME NEW n \in Nat, NEW reg, RegistryIn(reg, n), NEW r \in Seq(ProvidersOf(n)), Picked(r, reg)
  PROVE  RegistryIn(r, n)
<1>1. PICK f \in [1..Len(r) -> 1..Len(reg)] :
        \A k, l \in 1..Len(r) : r[k] = reg[f[k]] /\ (f[k] = f[l] => k = l)
  BY DEF Picked
<1>2. \A k \in 1..Len(r) : f[k] \in 1..Len(reg) /\ r[k] = reg[f[k]]
  BY <1>1
<1>3. \A i, k \in 1..Len(r) : r[i].id = r[k].id => i = k
  BY <1>1, <1>2 DEF RegistryIn, MR!Distinct
<1>4. ASSUME NEW i \in 1..Len(r), NEW k \in 1..Len(r),
             NEW a \in 1..Len(r[i].models), NEW b \in 1..Len(r[k].models),
             r[i].models[a].id = r[k].models[b].id
      PROVE  i = k /\ a = b
  <2>1. PICK u \in 1..Len(reg) : u = f[i] /\ r[i] = reg[u]
    BY <1>2
  <2>2. PICK v \in 1..Len(reg) : v = f[k] /\ r[k] = reg[v]
    BY <1>2
  <2>3. u = v /\ a = b
    <3>1. a \in 1..Len(reg[u].models) /\ b \in 1..Len(reg[v].models)
          /\ reg[u].models[a].id = reg[v].models[b].id
      BY <1>4, <2>1, <2>2
    <3>2. \A p, q \in 1..Len(reg) : \A c \in 1..Len(reg[p].models), d \in 1..Len(reg[q].models) :
            reg[p].models[c].id = reg[q].models[d].id => p = q /\ c = d
      BY ModelsApart
    <3> QED
      BY <3>1, <3>2
  <2> QED
    BY <1>1, <2>1, <2>2, <2>3
<1>5. SeedStands(r)
  <2> SUFFICES ASSUME NEW i \in 1..Len(r), NEW s \in 1..Len(RegistrySeed)
               PROVE  /\ r[i].id = RegistrySeed[s].id
                         /\ RegistrySeed[s].key # None => r[i].key # None
                      /\ \A a \in 1..Len(r[i].models), b \in 1..Len(RegistrySeed[s].models) :
                           r[i].models[a].id = RegistrySeed[s].models[b].id =>
                             r[i].id = RegistrySeed[s].id
    BY DEF SeedStands
  <2>1. PICK u \in 1..Len(reg) : r[i] = reg[u]
    BY <1>2
  <2> QED
    BY <2>1 DEF RegistryIn, SeedStands
<1> QED
  BY <1>3, <1>4, <1>5 DEF RegistryIn, MR!Distinct

(* The ids of one handler more.                                              *)
LEMMA WholeGrows ==
  ASSUME MR!Sown, NEW n \in Nat, NEW reg, RegistryIn(reg, n)
  PROVE  RegistryIn(reg, n + 1)
  BY MoreIds DEF RegistryIn

(* A registry with each provider edited, the new model in one of them.       *)
LEMMA MappedWhole ==
  ASSUME MR!Sown, NEW n \in Nat, NEW reg, RegistryIn(reg, n), NEW r, DOMAIN r = 1..Len(reg),
         r = [i \in 1..Len(reg) |-> r[i]],
         \A i \in 1..Len(reg) : ProviderFollows(r[i], reg[i], n),
         \A i, k \in 1..Len(reg) : ProviderAdds(r[i], n) /\ ProviderAdds(r[k], n) => i = k
  PROVE  RegistryIn(r, n + 1)
<1>1. r \in Seq(ProvidersOf(n + 1)) /\ Len(r) = Len(reg)
  <2>1. \A i \in 1..Len(reg) : r[i] \in ProvidersOf(n + 1)
    BY DEF ProviderFollows
  <2>2. Len(reg) \in Nat
    BY DEF RegistryIn
  <2> QED
    BY <2>1, <2>2
<1>2. \A i, k \in 1..Len(r) : r[i].id = r[k].id => i = k
  BY <1>1 DEF ProviderFollows, RegistryIn, MR!Distinct
<1>3. \A i \in 1..Len(reg) : \A a \in 1..Len(reg[i].models) :
        reg[i].models[a].id # MR!M(RegistryIds + n + 1)
  <2> TAKE i \in 1..Len(reg)
  <2> TAKE a \in 1..Len(reg[i].models)
  <2>1. reg[i] \in ProvidersOf(n)
    BY DEF RegistryIn
  <2>2. reg[i].models[a] \in ModelsOf(n)
    BY <2>1 DEF ProvidersOf
  <2> QED
    BY <2>2, FreshModel
<1>4. ASSUME NEW i \in 1..Len(r), NEW k \in 1..Len(r),
             NEW a \in 1..Len(r[i].models), NEW b \in 1..Len(r[k].models),
             r[i].models[a].id = r[k].models[b].id
      PROVE  i = k /\ a = b
  <2>1. ProviderFollows(r[i], reg[i], n) /\ ProviderFollows(r[k], reg[k], n)
    BY <1>1
  <2>2. i = k
    <3>1. CASE r[i].models[a].id = MR!M(RegistryIds + n + 1)
      BY <1>1, <1>4, <3>1 DEF ProviderAdds
    <3>2. CASE r[i].models[a].id # MR!M(RegistryIds + n + 1)
      <4>1. PICK x \in 1..Len(reg[i].models) : r[i].models[a].id = reg[i].models[x].id
        BY <3>2, <2>1 DEF ProviderFollows
      <4>2. PICK y \in 1..Len(reg[k].models) : r[k].models[b].id = reg[k].models[y].id
        BY <3>2, <1>4, <2>1 DEF ProviderFollows
      <4> QED
        <5>1. i \in 1..Len(reg) /\ k \in 1..Len(reg) /\ reg[i].models[x].id = reg[k].models[y].id
          BY <4>1, <4>2, <1>1, <1>4
        <5> QED
          BY <5>1, ModelsApart
    <3> QED
      BY <3>1, <3>2
  <2> QED
    BY <2>1, <2>2, <1>4 DEF ProviderFollows
<1>5. SeedStands(r)
  <2> SUFFICES ASSUME NEW i \in 1..Len(r), NEW s \in 1..Len(RegistrySeed)
               PROVE  /\ r[i].id = RegistrySeed[s].id
                         /\ RegistrySeed[s].key # None => r[i].key # None
                      /\ \A a \in 1..Len(r[i].models), b \in 1..Len(RegistrySeed[s].models) :
                           r[i].models[a].id = RegistrySeed[s].models[b].id =>
                             r[i].id = RegistrySeed[s].id
    BY DEF SeedStands
  <2>1. ProviderFollows(r[i], reg[i], n) /\ i \in 1..Len(reg)
    BY <1>1
  <2>2. r[i].id = RegistrySeed[s].id /\ RegistrySeed[s].key # None => r[i].key # None
    BY <2>1 DEF ProviderFollows, RegistryIn, SeedStands
  <2>3. ASSUME NEW a \in 1..Len(r[i].models), NEW b \in 1..Len(RegistrySeed[s].models),
               r[i].models[a].id = RegistrySeed[s].models[b].id
        PROVE  r[i].id = RegistrySeed[s].id
    <3>1. r[i].models[a].id # MR!M(RegistryIds + n + 1)
      BY <2>3, SeedIds
    <3>2. PICK x \in 1..Len(reg[i].models) : r[i].models[a].id = reg[i].models[x].id
      BY <2>1, <3>1 DEF ProviderFollows
    <3>3. reg[i].id = RegistrySeed[s].id
      <4>1. i \in 1..Len(reg) /\ reg[i].models[x].id = RegistrySeed[s].models[b].id
        BY <2>1, <2>3, <3>2
      <4>2. SeedStands(reg)
        BY DEF RegistryIn
      <4>3. \A c \in 1..Len(reg[i].models), d \in 1..Len(RegistrySeed[s].models) :
              reg[i].models[c].id = RegistrySeed[s].models[d].id => reg[i].id = RegistrySeed[s].id
        BY <4>1, <4>2 DEF SeedStands
      <4> QED
        BY <4>1, <4>3
    <3> QED
      BY <2>1, <3>3 DEF ProviderFollows
  <2> QED
    BY <2>2, <2>3
<1> QED
  BY <1>1, <1>2, <1>4, <1>5 DEF RegistryIn, MR!Distinct

(* A registry with a new provider.                                           *)
LEMMA AddedWhole ==
  ASSUME MR!Sown, NEW n \in Nat, NEW reg, RegistryIn(reg, n), NEW key \in ApiKeys \cup {None}
  PROVE  RegistryIn(Append(reg, MR!Provider(MR!P(RegistryIds + (n + 1)), key, <<>>)), n + 1)
<1> DEFINE x == MR!P(RegistryIds + (n + 1))
           new == MR!Provider(x, key, <<>>)
           r == Append(reg, new)
<1>1. x \in {MR!P(i) : i \in 1..(RegistryIds + (n + 1))} /\ n + 1 \in Nat
      /\ <<>> \in Seq(ModelsOf(n + 1))
      /\ RegistryIds + (n + 1) = RegistryIds + n + 1
  BY DEF MR!Sown
<1>2. x = MR!P(RegistryIds + n + 1)
  BY <1>1
<1> HIDE DEF x
<1>3. new \in ProvidersOf(n + 1) /\ new.id = x /\ new.models = <<>>
  <2> DEFINE none == <<>>
  <2>1. x \in {MR!P(i) : i \in 1..(RegistryIds + (n + 1))} /\ n + 1 \in Nat
        /\ none \in Seq(ModelsOf(n + 1))
    BY <1>1
  <2>2. new = MR!Provider(x, key, none)
    OBVIOUS
  <2> HIDE DEF none, new
  <2>3. new \in ProvidersOf(n + 1) /\ new.id = x /\ new.models = none
    BY <2>1, <2>2, ProviderIs
  <2> QED
    BY <2>3 DEF none
<1> HIDE DEF new
<1>4. reg \in Seq(ProvidersOf(n + 1))
  BY MoreIds DEF RegistryIn
<1>5. /\ r \in Seq(ProvidersOf(n + 1)) /\ Len(r) = Len(reg) + 1 /\ r[Len(reg) + 1] = new
      /\ \A k \in 1..Len(reg) : r[k] = reg[k]
  BY <1>3, <1>4
<1> HIDE DEF r
<1>6. \A k \in 1..Len(reg) : reg[k].id # x
  <2> TAKE k \in 1..Len(reg)
  <2>1. reg[k] \in ProvidersOf(n)
    BY DEF RegistryIn
  <2>2. PICK i \in 1..(RegistryIds + n) : reg[k].id = MR!P(i)
    BY <2>1 DEF ProvidersOf
  <2>3. i # RegistryIds + n + 1
    BY DEF MR!Sown
  <2> QED
    BY <2>2, <2>3, <1>2, IdsDiffer
<1>7. \A i \in 1..Len(r) : i \in 1..Len(reg) \/ i = Len(reg) + 1
  BY <1>4, <1>5
<1>8. \A i, k \in 1..Len(r) : r[i].id = r[k].id => i = k
  BY <1>3, <1>5, <1>6, <1>7 DEF RegistryIn, MR!Distinct
<1>9. \A i \in 1..Len(r) : \A a \in 1..Len(r[i].models) : i \in 1..Len(reg) /\ r[i] = reg[i]
  BY <1>3, <1>5, <1>7
<1>10. \A i, k \in 1..Len(r) : \A a \in 1..Len(r[i].models), b \in 1..Len(r[k].models) :
         r[i].models[a].id = r[k].models[b].id => i = k /\ a = b
  <2> SUFFICES ASSUME NEW i \in 1..Len(r), NEW k \in 1..Len(r),
                      NEW a \in 1..Len(r[i].models), NEW b \in 1..Len(r[k].models),
                      r[i].models[a].id = r[k].models[b].id
               PROVE  i = k /\ a = b
    OBVIOUS
  <2>1. i \in 1..Len(reg) /\ k \in 1..Len(reg) /\ r[i] = reg[i] /\ r[k] = reg[k]
    BY <1>9
  <2> QED
    BY <2>1, ModelsApart
<1>11. SeedStands(r)
  <2> SUFFICES ASSUME NEW i \in 1..Len(r), NEW s \in 1..Len(RegistrySeed)
               PROVE  /\ r[i].id = RegistrySeed[s].id
                         /\ RegistrySeed[s].key # None => r[i].key # None
                      /\ \A a \in 1..Len(r[i].models), b \in 1..Len(RegistrySeed[s].models) :
                           r[i].models[a].id = RegistrySeed[s].models[b].id =>
                             r[i].id = RegistrySeed[s].id
    BY DEF SeedStands
  <2>1. CASE i \in 1..Len(reg)
    <3>1. r[i] = reg[i]
      BY <2>1, <1>5
    <3>2. SeedStands(reg)
      BY DEF RegistryIn
    <3>3. /\ reg[i].id = RegistrySeed[s].id
             /\ RegistrySeed[s].key # None => reg[i].key # None
          /\ \A a \in 1..Len(reg[i].models), b \in 1..Len(RegistrySeed[s].models) :
               reg[i].models[a].id = RegistrySeed[s].models[b].id =>
                 reg[i].id = RegistrySeed[s].id
      BY <2>1, <3>2 DEF SeedStands
    <3> QED
      BY <3>1, <3>3
  <2>2. CASE i = Len(reg) + 1
    BY <2>2, <1>2, <1>3, <1>5, SeedIds
  <2> QED
    BY <2>1, <2>2, <1>7
<1>12. RegistryIn(r, n + 1)
  BY <1>5, <1>8, <1>10, <1>11 DEF RegistryIn, MR!Distinct
<1> QED
  BY <1>12 DEF r, new, x

(* Whatever is asked of a registry leaves its ids apart and the seed's where *)
(* they were.                                                                *)
LEMMA EditedWhole ==
  ASSUME MR!Sown, NEW n \in Nat, NEW ask \in MR!Requests, NEW reg, RegistryIn(reg, n)
  PROVE  RegistryIn(MR!Edited(ask, reg, n + 1), n + 1)
<1> DEFINE r == MR!Edited(ask, reg, n + 1)
<1>1. CASE ask.op = "removeProvider"
  <2>1. r = MR!Removed(reg, ask.id)
    BY <1>1 DEF MR!Edited
  <2>2. reg \in Seq(ProvidersOf(n))
    BY DEF RegistryIn
  <2> HIDE DEF r
  <2>3. RegistryIn(r, n)
    BY <2>1, <2>2, RemovedIs, PickedWhole
  <2> QED
    BY <2>3, WholeGrows DEF r
<1>2. CASE ask.op = "upsertProvider" /\ ~MR!Has(reg, ask.id)
  <2>1. r = Append(reg, MR!Provider(MR!P(RegistryIds + (n + 1)), ask.key, <<>>))
    BY <1>2 DEF MR!Edited
  <2>2. ask.key \in ApiKeys \cup {None}
    BY <1>2 DEF MR!Requests
  <2> QED
    BY <2>1, <2>2, AddedWhole
<1>3. CASE ask.op # "removeProvider" /\ ~(ask.op = "upsertProvider" /\ ~MR!Has(reg, ask.id))
  <2>1. r = [i \in 1..Len(reg) |-> MR!ProviderEdited(ask, reg[i], n + 1)]
    BY <1>3 DEF MR!Edited
  <2> HIDE DEF r
  <2>2. \A i \in 1..Len(reg) : r[i] = MR!ProviderEdited(ask, reg[i], n + 1)
    BY <2>1
  <2>3. \A i \in 1..Len(reg) : ProviderFollows(r[i], reg[i], n)
                                  /\ (ProviderAdds(r[i], n) => reg[i].id = ask.id)
    <3> TAKE i \in 1..Len(reg)
    <3>1. reg[i] \in ProvidersOf(n)
          /\ \A a, c \in 1..Len(reg[i].models) : reg[i].models[a].id = reg[i].models[c].id => a = c
      BY DEF RegistryIn, MR!Distinct
    <3> QED
      BY <3>1, <2>2, <1>3, ProviderEditedIs
  <2>4. \A i, k \in 1..Len(reg) : ProviderAdds(r[i], n) /\ ProviderAdds(r[k], n) => i = k
    BY <2>3 DEF RegistryIn, MR!Distinct
  <2>5. DOMAIN r = 1..Len(reg) /\ r = [i \in 1..Len(reg) |-> r[i]]
    BY <2>1
  <2> QED
    BY <2>3, <2>4, <2>5, MappedWhole DEF r
<1> QED
  BY <1>1, <1>2, <1>3

(* A handler between reading the registry and the rename.                    *)
Saving(j) == modelJob[j].pc # "done"

(* What such a handler holds: what it read had the ids made before it.       *)
SavingAsked(h) == /\ h.ask \in MR!Requests /\ h.fresh \in 1..modelStarted
                  /\ h.pc \in {"read", "opened"} => RegistryIn(h.seen, h.fresh - 1)

(* A file: the registry it holds, and where its list is damaged, if it is.   *)
FileIn(file) ==
  /\ file \in [kind : {"registry", "damaged", "empty", "none"},
              list : Seq(ProvidersOf(modelStarted)), bad : Nat]
  /\ RegistryIn(file.list, modelStarted) /\ file.bad \in 0..Len(file.list)

(* The types, with the ids in use.                                           *)
RegistryTyped ==
  /\ modelStarted \in Nat /\ modelOverlapped \in BOOLEAN
  /\ FileIn(models) /\ FileIn(modelTmp) /\ modelTmp.bad = 0
  /\ DOMAIN modelJob = StoreJobs /\ modelJob = [j \in StoreJobs |-> modelJob[j]]
  /\ \A j \in StoreJobs : modelJob[j].pc \in {"done", "read", "opened", "written"}
  /\ \A j \in StoreJobs : Saving(j) => SavingAsked(modelJob[j])

(* Handlers one after the other: the one under way brings the history to the *)
(* file.                                                                     *)
RegistryInTurn ==
  ~modelOverlapped =>
    /\ \A j, k \in StoreJobs : Saving(j) /\ Saving(k) => j = k
    /\ \A j \in StoreJobs : modelJob[j].pc \in {"read", "opened"} =>
         modelSerial = MR!Edited(modelJob[j].ask, modelJob[j].seen, modelJob[j].fresh)
    /\ \A j \in StoreJobs : modelJob[j].pc = "opened" =>
         modelJob[j].fd = "tmp" /\ modelTmp = MR!Emptied
    /\ \A j \in StoreJobs : modelJob[j].pc = "written" => modelTmp = MR!Stored(modelSerial)
    /\ (\A j \in StoreJobs : modelJob[j].pc = "done") => MR!Read = modelSerial

(* The inductive invariant of the registry.                                  *)
RegistryOrderly == RegistryTyped /\ RegistryInTurn

(* The fields of a file.                                                     *)
LEMMA RegistryFileIs ==
  ASSUME NEW kind, NEW list, NEW bad
  PROVE  LET f == MR!File(kind, list, bad)
         IN  f = [kind |-> kind, list |-> list, bad |-> bad]
             /\ f.kind = kind /\ f.list = list /\ f.bad = bad
  BY DEF MR!File

(* The fields of a handler.                                                  *)
LEMMA SavingIs ==
  ASSUME NEW pc, NEW ask, NEW seen, NEW fresh, NEW fd
  PROVE  LET h == MR!Handler(pc, ask, seen, fresh, fd)
         IN  h.pc = pc /\ h.ask = ask /\ h.seen = seen /\ h.fresh = fresh /\ h.fd = fd
  BY DEF MR!Handler

(* What readRegistry makes of a file, damaged or not.                        *)
LEMMA ParsedWhole ==
  ASSUME MR!Sown, NEW n \in Nat, NEW file, RegistryIn(file.list, n), file.bad \in 0..Len(file.list)
  PROVE  RegistryIn(MR!Parsed(file), n)
<1>1. CASE file.kind = "registry" /\ file.bad # 0
  <2>1. file.list \in Seq(ProvidersOf(n))
    BY DEF RegistryIn
  <2>2. file.bad \in 1..Len(file.list) /\ MR!Parsed(file) = MR!RemoveAt(file.list, file.bad)
    BY <1>1, <2>1 DEF MR!Parsed, MR!Valid
  <2> QED
    BY <2>1, <2>2, RemoveAtIs, PickedWhole
<1>2. CASE file.kind = "registry" /\ file.bad = 0
  BY <1>2 DEF MR!Parsed, MR!Valid
<1>3. CASE file.kind # "registry"
  <2>1. <<>> \in Seq(ProvidersOf(n)) /\ Len(<<>>) = 0
    OBVIOUS
  <2>2. RegistryIn(<<>>, n)
    BY <2>1 DEF RegistryIn, MR!Distinct, SeedStands
  <2> QED
    BY <2>2, <1>3 DEF MR!Parsed
<1> QED
  BY <1>1, <1>2, <1>3

(* The ids of more handlers.                                                 *)
LEMMA GrownWhole ==
  ASSUME MR!Sown, NEW n \in Nat, NEW m \in Nat, n <= m, NEW reg, RegistryIn(reg, n)
  PROVE  RegistryIn(reg, m)
<1>1. \A i \in 1..(RegistryIds + n) : i \in 1..(RegistryIds + m)
  BY DEF MR!Sown
<1>2. ModelsOf(n) \subseteq ModelsOf(m)
  BY <1>1 DEF ModelsOf
<1>3. \A ms \in Seq(ModelsOf(n)) : ms \in Seq(ModelsOf(m))
  BY <1>2
<1>4. ProvidersOf(n) \subseteq ProvidersOf(m)
  BY <1>1, <1>3 DEF ProvidersOf
<1>5. \A r \in Seq(ProvidersOf(n)) : r \in Seq(ProvidersOf(m))
  BY <1>4
<1> QED
  BY <1>5 DEF RegistryIn

(* A file that is written whole.                                             *)
LEMMA FileHolds ==
  ASSUME modelStarted \in Nat, NEW kind \in {"registry", "damaged", "empty", "none"},
         NEW list, RegistryIn(list, modelStarted),
         NEW bad \in 0..Len(list)
  PROVE  FileIn(MR!File(kind, list, bad))
<1>1. list \in Seq(ProvidersOf(modelStarted)) /\ bad \in Nat
  BY DEF RegistryIn
<1> QED
  BY <1>1, RegistryFileIs DEF FileIn

(* A step of one handler leaves the others.                                  *)
LEMMA SavingStep ==
  ASSUME RegistryTyped, NEW j \in StoreJobs, NEW q, modelJob' = [modelJob EXCEPT ![j] = q]
  PROVE  /\ DOMAIN modelJob' = StoreJobs /\ modelJob' = [k \in StoreJobs |-> modelJob'[k]]
         /\ modelJob'[j] = q /\ \A k \in StoreJobs : k # j => modelJob'[k] = modelJob[k]
  BY DEF RegistryTyped

(* A handler at rest.                                                        *)
LEMMA SavingRest ==
  MR!Rest.pc = "done"
  BY SavingIs DEF MR!Rest

(* No providers.                                                             *)
LEMMA EmptyWhole ==
  ASSUME NEW n
  PROVE  RegistryIn(<<>>, n)
<1>1. <<>> \in Seq(ProvidersOf(n)) /\ Len(<<>>) = 0
  OBVIOUS
<1> QED
  BY <1>1 DEF RegistryIn, MR!Distinct, SeedStands

(* The seed, or no file.                                                     *)
LEMMA RegistryBegins ==
  ASSUME MR!Sown, MR!Init
  PROVE  RegistryOrderly
<1>1. /\ modelStarted = 0 /\ modelOverlapped = FALSE /\ modelJob = [j \in StoreJobs |-> MR!Rest]
         /\ modelTmp = MR!NoFile
      /\ \/ models = MR!Stored(RegistrySeed) /\ modelSerial = RegistrySeed
         \/ models = MR!NoFile /\ modelSerial = <<>>
  BY DEF MR!Init
<1>2. RegistryIn(RegistrySeed, modelStarted) /\ RegistryIn(<<>>, modelStarted)
  BY <1>1, SeedWhole
<1>3. 0 \in 0..Len(RegistrySeed) /\ 0 \in 0..Len(<<>>)
  <2>1. Len(RegistrySeed) \in Nat /\ Len(<<>>) \in Nat
    BY <1>2 DEF RegistryIn
  <2> QED
    BY <2>1
<1>4. FileIn(MR!Stored(RegistrySeed)) /\ FileIn(MR!NoFile) /\ MR!NoFile.bad = 0
  <2>1. modelStarted \in Nat
    BY <1>1
  <2> QED
    BY <1>2, <1>3, <2>1, FileHolds, RegistryFileIs DEF MR!Stored, MR!NoFile
<1>5. \A j \in StoreJobs : modelJob[j].pc = "done"
  BY <1>1, SavingRest
<1>6. MR!Read = modelSerial
  <2>1. MR!Parsed(MR!Stored(RegistrySeed)) = RegistrySeed /\ MR!Parsed(MR!NoFile) = <<>>
    BY RegistryFileIs DEF MR!Parsed, MR!Valid, MR!Stored, MR!NoFile
  <2> QED
    BY <1>1, <2>1 DEF MR!Read
<1>7. RegistryTyped
  <2>1. FileIn(models) /\ FileIn(modelTmp) /\ modelTmp.bad = 0
    BY <1>1, <1>4
  <2>2. modelStarted \in Nat /\ modelOverlapped \in BOOLEAN /\ DOMAIN modelJob = StoreJobs
        /\ modelJob = [j \in StoreJobs |-> modelJob[j]]
    BY <1>1
  <2> QED
    BY <2>1, <2>2, <1>5 DEF RegistryTyped, Saving
<1>8. RegistryInTurn
  BY <1>5, <1>6 DEF RegistryInTurn, Saving
<1> QED
  BY <1>7, <1>8 DEF RegistryOrderly

(* A file after a handler more.                                              *)
LEMMA FileGrows ==
  ASSUME MR!Sown, modelStarted \in Nat, modelStarted' = modelStarted + 1, NEW file,
         NEW same, FileIn(file), same = file
  PROVE  /\ same \in [kind : {"registry", "damaged", "empty", "none"},
                      list : Seq(ProvidersOf(modelStarted')), bad : Nat]
         /\ RegistryIn(same.list, modelStarted') /\ same.bad \in 0..Len(same.list)
<1>1. RegistryIn(file.list, modelStarted + 1)
  BY WholeGrows DEF FileIn
<1>2. file \in [kind : {"registry", "damaged", "empty", "none"},
                list : Seq(ProvidersOf(modelStarted + 1)), bad : Nat]
  BY <1>1 DEF FileIn, RegistryIn
<1> QED
  BY <1>1, <1>2 DEF FileIn

(* A handler reads the registry and edits it in memory.                      *)
LEMMA RegistryAsked ==
  ASSUME MR!Sown, RegistryOrderly, NEW j \in StoreJobs, NEW ask \in MR!Requests, MR!Start(j, ask)
  PROVE  RegistryOrderly'
<1> DEFINE throws == ask.op = "upsertModel" /\ ~MR!Has(MR!Read, ask.id)
           still == ask.op = "move" /\ MR!Edited(ask, MR!Read, modelStarted') = MR!Read
           q == IF throws \/ still THEN MR!Rest ELSE MR!Handler("read", ask, MR!Read, modelStarted', "closed")
<1>1. /\ RegistryTyped /\ RegistryInTurn /\ modelStarted' = modelStarted + 1
         /\ modelJob[j].pc = "done"
      /\ modelJob' = [modelJob EXCEPT ![j] = q]
      /\ modelSerial' = MR!Edited(ask, modelSerial, modelStarted')
      /\ modelOverlapped' = (modelOverlapped \/ \E i \in StoreJobs : modelJob[i].pc # "done")
      /\ models' = models /\ modelTmp' = modelTmp
  BY DEF MR!Start, RegistryOrderly
<1>2. \/ (throws \/ still) /\ q = MR!Rest
      \/ q.pc = "read" /\ q.ask = ask /\ q.seen = MR!Read /\ q.fresh = modelStarted'
  BY SavingIs
<1>3. RegistryIn(MR!Read, modelStarted) /\ modelStarted \in Nat
  <2>1. modelStarted \in Nat /\ RegistryIn(models.list, modelStarted)
        /\ models.bad \in 0..Len(models.list)
    BY <1>1 DEF RegistryTyped, FileIn
  <2> QED
    BY <2>1, ParsedWhole DEF MR!Read
<1> HIDE DEF q
<1>4. /\ DOMAIN modelJob' = StoreJobs /\ modelJob' = [k \in StoreJobs |-> modelJob'[k]]
      /\ modelJob'[j] = q /\ \A k \in StoreJobs : k # j => modelJob'[k] = modelJob[k]
  BY <1>1, SavingStep
<1>5. throws \/ still => MR!Edited(ask, MR!Read, modelStarted') = MR!Read
  <2>1. CASE throws
    <3> DEFINE r == MR!Edited(ask, MR!Read, modelStarted')
    <3>1. r = [i \in 1..Len(MR!Read) |-> MR!ProviderEdited(ask, MR!Read[i], modelStarted')]
      BY <2>1 DEF MR!Edited
    <3>2. \A i \in 1..Len(MR!Read) : MR!ProviderEdited(ask, MR!Read[i], modelStarted') = MR!Read[i]
      <4> TAKE i \in 1..Len(MR!Read)
      <4>1. MR!Read[i].id # ask.id
        BY <2>1 DEF MR!Has
      <4>2. ask.op = "upsertModel"
        BY <2>1
      <4> QED
        BY <4>1, <4>2 DEF MR!ProviderEdited
    <3>3. MR!Read \in Seq(ProvidersOf(modelStarted))
      BY <1>3 DEF RegistryIn
    <3> HIDE DEF r
    <3>4. MR!Read = [i \in 1..Len(MR!Read) |-> MR!Read[i]]
      <4> DEFINE R == MR!Read
      <4>1. R \in Seq(ProvidersOf(modelStarted))
        BY <3>3
      <4> HIDE DEF R
      <4>2. R = [i \in 1..Len(R) |-> R[i]]
        BY <4>1
      <4> QED
        BY <4>2 DEF R
    <3>5. r = [i \in 1..Len(MR!Read) |-> MR!Read[i]]
      BY <3>1, <3>2
    <3> QED
      BY <3>4, <3>5 DEF r
  <2> QED
    BY <2>1
<1>6. q.pc \in {"done", "read", "opened", "written"}
      /\ (q.pc # "done" => q.ask \in MR!Requests
                          /\ q.fresh \in 1..modelStarted'
                          /\ (q.pc \in {"read", "opened"} => RegistryIn(q.seen, q.fresh - 1)))
  <2>1. CASE q = MR!Rest
    BY <2>1, SavingRest
  <2>2. CASE q.pc = "read" /\ q.ask = ask /\ q.seen = MR!Read /\ q.fresh = modelStarted'
    <3>1. modelStarted' \in 1..modelStarted' /\ modelStarted' - 1 = modelStarted
      BY <1>1, <1>3
    <3> QED
      BY <2>2, <3>1, <1>3
  <2> QED
    BY <2>1, <2>2, <1>2
<1>7. RegistryTyped'
  <2>1. FileIn(models)' /\ FileIn(modelTmp)' /\ modelTmp'.bad = 0
    <3>1. FileIn(models) /\ FileIn(modelTmp) /\ modelTmp.bad = 0
      BY <1>1 DEF RegistryTyped
    <3>2. FileIn(models)'
      BY <1>1, <1>3, <3>1, FileGrows DEF FileIn
    <3>3. FileIn(modelTmp)'
      BY <1>1, <1>3, <3>1, FileGrows DEF FileIn
    <3> QED
      BY <1>1, <3>1, <3>2, <3>3
  <2>2. \A k \in StoreJobs : modelJob'[k].pc \in {"done", "read", "opened", "written"}
                             /\ (Saving(k)' => SavingAsked(modelJob[k])')
    <3> TAKE k \in StoreJobs
    <3>1. CASE k = j
      BY <3>1, <1>4, <1>6 DEF Saving, SavingAsked
    <3>2. CASE k # j
      <4>1. modelJob'[k] = modelJob[k]
        BY <3>2, <1>4
      <4>3. modelJob[k].pc \in {"done", "read", "opened", "written"}
            /\ (modelJob[k].pc # "done" => SavingAsked(modelJob[k]))
        BY <1>1 DEF RegistryTyped, Saving
      <4>2. \A x \in 1..modelStarted : x \in 1..modelStarted'
        BY <1>1, <1>3
      <4> QED
        BY <4>1, <4>2, <4>3 DEF Saving, SavingAsked
    <3> QED
      BY <3>1, <3>2
  <2>3. modelStarted' \in Nat /\ modelOverlapped' \in BOOLEAN
    BY <1>1, <1>3 DEF RegistryTyped
  <2> QED
    BY <1>4, <2>1, <2>2, <2>3 DEF RegistryTyped
<1>8. RegistryInTurn'
  <2> SUFFICES ASSUME ~modelOverlapped' PROVE RegistryInTurn'
    BY DEF RegistryInTurn
  <2>1. ~modelOverlapped /\ \A i \in StoreJobs : modelJob[i].pc = "done"
    BY <1>1 DEF RegistryTyped
  <2>2. MR!Read = modelSerial /\ MR!Read' = MR!Read
    BY <1>1, <2>1 DEF RegistryInTurn, MR!Read
  <2>3. modelSerial' = MR!Edited(ask, MR!Read, modelStarted')
    BY <1>1, <2>2
  <2>4. \A k \in StoreJobs : k # j => modelJob'[k].pc = "done"
    BY <1>4, <2>1
  <2>5. q.pc \in {"done", "read"}
    BY <1>2, SavingRest
  <2>6. q.pc = "read" => modelSerial' = MR!Edited(q.ask, q.seen, q.fresh)
    <3>1. q.pc = "read" => q.ask = ask /\ q.seen = MR!Read /\ q.fresh = modelStarted'
      BY <1>2, SavingRest
    <3> QED
      BY <3>1, <2>3
  <2>7. q.pc = "done" => MR!Read' = modelSerial'
    <3>1. q.pc = "done" => throws \/ still
      BY <1>2
    <3> QED
      BY <3>1, <1>5, <2>2, <2>3
  <2>8. \A k \in StoreJobs : Saving(k)' => k = j
    BY <2>4 DEF Saving
  <2>9. \A k \in StoreJobs : modelJob'[k].pc = "read" =>
          modelSerial' = MR!Edited(modelJob'[k].ask, modelJob'[k].seen, modelJob'[k].fresh)
    BY <1>4, <2>4, <2>6
  <2>10. \A k \in StoreJobs : modelJob'[k].pc \notin {"opened", "written"}
    BY <1>4, <2>4, <2>5
  <2>11. (\A k \in StoreJobs : modelJob'[k].pc = "done") => MR!Read' = modelSerial'
    BY <1>4, <2>7
  <2> QED
    BY <2>8, <2>9, <2>10, <2>11 DEF RegistryInTurn
<1> QED
  BY <1>7, <1>8 DEF RegistryOrderly

(* It opens the temporary file, which empties it.                            *)
LEMMA RegistryOpened ==
  ASSUME MR!Sown, RegistryOrderly, NEW j \in StoreJobs, MR!OpenTmp(j)
  PROVE  RegistryOrderly'
<1> DEFINE h == modelJob[j]
           q == MR!Handler("opened", h.ask, h.seen, h.fresh, "tmp")
<1>1. /\ RegistryTyped /\ RegistryInTurn /\ h.pc = "read" /\ modelTmp' = MR!Emptied
         /\ modelJob' = [modelJob EXCEPT ![j] = q]
      /\ models' = models /\ modelStarted' = modelStarted /\ modelSerial' = modelSerial
         /\ modelOverlapped' = modelOverlapped
  BY DEF MR!OpenTmp, RegistryOrderly, RegistryTyped
<1>2. SavingAsked(h) /\ modelStarted \in Nat /\ Saving(j)
  BY <1>1 DEF RegistryTyped, Saving
<1>3. q.pc = "opened" /\ q.ask = h.ask /\ q.seen = h.seen /\ q.fresh = h.fresh /\ q.fd = "tmp"
  BY SavingIs
<1> HIDE DEF q
<1>4. /\ DOMAIN modelJob' = StoreJobs /\ modelJob' = [k \in StoreJobs |-> modelJob'[k]]
      /\ modelJob'[j] = q /\ \A k \in StoreJobs : k # j => modelJob'[k] = modelJob[k]
  BY <1>1, SavingStep
<1>5. FileIn(MR!Emptied) /\ MR!Emptied.bad = 0
  <2>1. RegistryIn(<<>>, modelStarted) /\ 0 \in 0..Len(<<>>)
    BY EmptyWhole
  <2> QED
    BY <1>2, <2>1, FileHolds, RegistryFileIs DEF MR!Emptied
<1>6. RegistryTyped'
  <2>1. FileIn(models)' /\ FileIn(modelTmp)' /\ modelTmp'.bad = 0
    BY <1>1, <1>5 DEF RegistryTyped, FileIn
  <2>2. \A k \in StoreJobs : modelJob'[k].pc \in {"done", "read", "opened", "written"}
                             /\ (Saving(k)' => SavingAsked(modelJob[k])')
    <3> TAKE k \in StoreJobs
    <3>1. CASE k = j
      <4>1. q.ask \in MR!Requests /\ q.fresh \in 1..modelStarted
            /\ RegistryIn(q.seen, q.fresh - 1)
        BY <1>1, <1>2, <1>3 DEF SavingAsked
      <4> QED
        BY <3>1, <4>1, <1>1, <1>3, <1>4 DEF Saving, SavingAsked
    <3>2. CASE k # j
      <4>1. modelJob'[k] = modelJob[k]
        BY <3>2, <1>4
      <4>2. modelJob[k].pc \in {"done", "read", "opened", "written"}
            /\ (modelJob[k].pc # "done" => SavingAsked(modelJob[k]))
        BY <1>1 DEF RegistryTyped, Saving
      <4> QED
        BY <4>1, <4>2, <1>1 DEF Saving, SavingAsked
    <3> QED
      BY <3>1, <3>2
  <2> QED
    BY <1>1, <1>4, <2>1, <2>2 DEF RegistryTyped
<1>7. RegistryInTurn'
  <2> SUFFICES ASSUME ~modelOverlapped' PROVE RegistryInTurn'
    BY DEF RegistryInTurn
  <2>1. \A k \in StoreJobs : Saving(k) => k = j
    BY <1>1, <1>2 DEF RegistryInTurn
  <2>2. modelSerial = MR!Edited(h.ask, h.seen, h.fresh)
    BY <1>1 DEF RegistryInTurn
  <2>3. \A k \in StoreJobs : k # j => modelJob'[k].pc = "done"
    BY <1>4, <2>1 DEF Saving
  <2>4. modelSerial' = MR!Edited(q.ask, q.seen, q.fresh)
    BY <1>1, <1>3, <2>2
  <2>5. modelJob'[j].pc = "opened" /\ modelJob'[j].fd = "tmp"
    BY <1>3, <1>4
  <2> QED
    BY <1>1, <1>4, <2>3, <2>4, <2>5 DEF RegistryInTurn, Saving
<1> QED
  BY <1>6, <1>7 DEF RegistryOrderly

(* The text goes into the file that was opened: the temporary one, the       *)
(* registry itself when another handler has renamed it by then, or none.     *)
LEMMA RegistryWritten ==
  ASSUME MR!Sown, RegistryOrderly, NEW j \in StoreJobs, MR!WriteTmp(j)
  PROVE  RegistryOrderly'
<1> DEFINE h == modelJob[j]
           e == MR!Edited(h.ask, h.seen, h.fresh)
           q == MR!Handler("written", h.ask, h.seen, h.fresh, "closed")
<1>1. /\ RegistryTyped /\ RegistryInTurn /\ h.pc = "opened"
         /\ modelJob' = [modelJob EXCEPT ![j] = q]
      /\ modelStarted' = modelStarted /\ modelSerial' = modelSerial
         /\ modelOverlapped' = modelOverlapped
      /\ \/ h.fd = "tmp" /\ modelTmp' \in MR!Overwritten(modelTmp, MR!Stored(e)) /\ models' = models
         \/ /\ h.fd = "models" /\ models' \in MR!Overwritten(models, MR!Stored(e))
            /\ modelTmp' = modelTmp
         \/ h.fd = "gone" /\ models' = models /\ modelTmp' = modelTmp
  BY DEF MR!WriteTmp, RegistryOrderly, RegistryTyped
<1>2. SavingAsked(h) /\ modelStarted \in Nat /\ Saving(j)
  BY <1>1 DEF RegistryTyped, Saving
<1>3. q.pc = "written" /\ q.ask = h.ask /\ q.fresh = h.fresh
  BY SavingIs
<1>4. RegistryIn(e, modelStarted)
  <2> DEFINE n == h.fresh - 1
  <2>1. n \in Nat /\ n + 1 = h.fresh /\ n + 1 \in Nat /\ n + 1 <= modelStarted
    BY <1>2 DEF SavingAsked
  <2>2. h.ask \in MR!Requests /\ RegistryIn(h.seen, n)
    BY <1>1, <1>2 DEF SavingAsked
  <2> HIDE DEF n, h
  <2>3. RegistryIn(MR!Edited(h.ask, h.seen, n + 1), n + 1)
    BY <2>1, <2>2, EditedWhole
  <2>4. RegistryIn(e, n + 1)
    BY <2>1, <2>3
  <2> HIDE DEF e
  <2> QED
    BY <2>1, <2>4, <1>2, GrownWhole
<1> HIDE DEF q, e
<1>5. /\ DOMAIN modelJob' = StoreJobs /\ modelJob' = [k \in StoreJobs |-> modelJob'[k]]
      /\ modelJob'[j] = q /\ \A k \in StoreJobs : k # j => modelJob'[k] = modelJob[k]
  BY <1>1, SavingStep
<1>6. /\ FileIn(MR!Stored(e)) /\ MR!Stored(e).bad = 0
      /\ FileIn(MR!Damaged) /\ MR!Damaged.bad = 0
  <2>1. 0 \in 0..Len(e)
    <3>1. e \in Seq(ProvidersOf(modelStarted))
      BY <1>4 DEF RegistryIn
    <3> QED
      BY <3>1
  <2>2. RegistryIn(<<>>, modelStarted) /\ 0 \in 0..Len(<<>>)
    BY EmptyWhole
  <2> QED
    BY <2>1, <2>2, <1>2, <1>4, FileHolds, RegistryFileIs DEF MR!Stored, MR!Damaged
<1>7. \A file, text : text \in MR!Overwritten(file, MR!Stored(e)) =>
        text \in {MR!Stored(e), MR!Damaged} /\ (file = MR!Emptied => text = MR!Stored(e))
  BY DEF MR!Overwritten
<1>8. RegistryTyped'
  <2>1. FileIn(models)' /\ FileIn(modelTmp)' /\ modelTmp'.bad = 0
    <3>1. FileIn(models) /\ FileIn(modelTmp) /\ modelTmp.bad = 0
      BY <1>1 DEF RegistryTyped
    <3>2. modelTmp' \in {modelTmp, MR!Stored(e), MR!Damaged}
      BY <1>1, <1>7
    <3>3. models' \in {models, MR!Stored(e), MR!Damaged}
      BY <1>1, <1>7
    <3> QED
      BY <1>1, <1>6, <3>1, <3>2, <3>3 DEF FileIn
  <2>2. \A k \in StoreJobs : modelJob'[k].pc \in {"done", "read", "opened", "written"}
                             /\ (Saving(k)' => SavingAsked(modelJob[k])')
    <3> TAKE k \in StoreJobs
    <3>1. CASE k = j
      <4>1. q.pc \notin {"read", "opened"} /\ q.ask \in MR!Requests /\ q.fresh \in 1..modelStarted
        BY <1>2, <1>3 DEF SavingAsked
      <4> QED
        BY <3>1, <4>1, <1>1, <1>3, <1>5 DEF Saving, SavingAsked
    <3>2. CASE k # j
      <4>1. modelJob'[k] = modelJob[k]
        BY <3>2, <1>5
      <4>2. modelJob[k].pc \in {"done", "read", "opened", "written"}
            /\ (modelJob[k].pc # "done" => SavingAsked(modelJob[k]))
        BY <1>1 DEF RegistryTyped, Saving
      <4> QED
        BY <4>1, <4>2, <1>1 DEF Saving, SavingAsked
    <3> QED
      BY <3>1, <3>2
  <2> QED
    BY <1>1, <1>5, <2>1, <2>2 DEF RegistryTyped
<1>9. RegistryInTurn'
  <2> SUFFICES ASSUME ~modelOverlapped' PROVE RegistryInTurn'
    BY DEF RegistryInTurn
  <2>1. \A k \in StoreJobs : Saving(k) => k = j
    BY <1>1, <1>2 DEF RegistryInTurn
  <2>2. modelSerial = e /\ h.fd = "tmp" /\ modelTmp = MR!Emptied
    BY <1>1 DEF RegistryInTurn, e
  <2>3. \A k \in StoreJobs : k # j => modelJob'[k].pc = "done"
    BY <1>5, <2>1 DEF Saving
  <2>4. modelTmp' = MR!Stored(modelSerial')
    BY <1>1, <1>7, <2>2
  <2>5. modelJob'[j].pc = "written"
    BY <1>3, <1>5
  <2> QED
    BY <2>3, <2>4, <2>5 DEF RegistryInTurn, Saving
<1> QED
  BY <1>8, <1>9 DEF RegistryOrderly

(* Another handler's rename leaves what a handler under way holds.           *)
LEMMA FollowedIs ==
  ASSUME NEW h
  PROVE  LET f == MR!Followed(h)
         IN  f.pc = h.pc /\ (h.pc # "opened" => f = h)
             /\ (h.pc = "opened" => f.ask = h.ask /\ f.seen = h.seen /\ f.fresh = h.fresh)
  BY SavingIs DEF MR!Followed

(* It renames the temporary file over the registry.                          *)
LEMMA RegistryRenamed ==
  ASSUME MR!Sown, RegistryOrderly, NEW j \in StoreJobs, MR!Rename(j)
  PROVE  RegistryOrderly'
<1>1. /\ RegistryTyped /\ RegistryInTurn /\ modelJob[j].pc = "written"
      /\ modelStarted' = modelStarted /\ modelSerial' = modelSerial
         /\ modelOverlapped' = modelOverlapped
      /\ \/ /\ modelTmp = MR!NoFile /\ models' = models /\ modelTmp' = modelTmp
            /\ modelJob' = [modelJob EXCEPT ![j] = MR!Rest]
         \/ /\ modelTmp # MR!NoFile /\ models' = modelTmp /\ modelTmp' = MR!NoFile
            /\ modelJob' = [k \in StoreJobs |-> IF k = j THEN MR!Rest ELSE MR!Followed(modelJob[k])]
  BY DEF MR!Rename, RegistryOrderly
<1>2. /\ DOMAIN modelJob' = StoreJobs /\ modelJob' = [k \in StoreJobs |-> modelJob'[k]]
      /\ modelJob'[j] = MR!Rest
      /\ \A k \in StoreJobs : k # j => modelJob'[k] \in {modelJob[k], MR!Followed(modelJob[k])}
  <2>1. CASE modelTmp = MR!NoFile
    BY <1>1, <2>1, SavingStep
  <2>2. CASE modelTmp # MR!NoFile
    BY <1>1, <2>2
  <2> QED
    BY <2>1, <2>2
<1>3. FileIn(MR!NoFile) /\ MR!NoFile.bad = 0
  <2>1. modelStarted \in Nat /\ RegistryIn(<<>>, modelStarted) /\ 0 \in 0..Len(<<>>)
    BY <1>1, EmptyWhole DEF RegistryTyped
  <2> QED
    BY <2>1, FileHolds, RegistryFileIs DEF MR!NoFile
<1>4. RegistryTyped'
  <2>1. FileIn(models)' /\ FileIn(modelTmp)' /\ modelTmp'.bad = 0
    BY <1>1, <1>3 DEF RegistryTyped, FileIn
  <2>2. \A k \in StoreJobs : modelJob'[k].pc \in {"done", "read", "opened", "written"}
                             /\ (Saving(k)' => SavingAsked(modelJob[k])')
    <3> TAKE k \in StoreJobs
    <3>1. CASE k = j
      BY <3>1, <1>2, SavingRest DEF Saving
    <3>2. CASE k # j
      <4>1. modelJob'[k] \in {modelJob[k], MR!Followed(modelJob[k])}
        BY <3>2, <1>2
      <4>2. modelJob[k].pc \in {"done", "read", "opened", "written"}
            /\ (modelJob[k].pc # "done" => SavingAsked(modelJob[k]))
        BY <1>1 DEF RegistryTyped, Saving
      <4>3. /\ modelJob'[k].pc = modelJob[k].pc
            /\ \/ modelJob'[k] = modelJob[k]
               \/ /\ modelJob'[k].ask = modelJob[k].ask /\ modelJob'[k].seen = modelJob[k].seen
                  /\ modelJob'[k].fresh = modelJob[k].fresh
        BY <4>1, FollowedIs
      <4> QED
        BY <4>2, <4>3, <1>1 DEF Saving, SavingAsked
    <3> QED
      BY <3>1, <3>2
  <2> QED
    BY <1>1, <1>2, <2>1, <2>2 DEF RegistryTyped
<1>5. RegistryInTurn'
  <2> SUFFICES ASSUME ~modelOverlapped' PROVE RegistryInTurn'
    BY DEF RegistryInTurn
  <2>1. \A k \in StoreJobs : k # j => modelJob'[k].pc = "done"
    BY <1>1, <1>2, FollowedIs DEF RegistryInTurn, Saving
  <2>2. modelTmp = MR!Stored(modelSerial)
    BY <1>1 DEF RegistryInTurn
  <2>3. models' = MR!Stored(modelSerial)
    <3>1. MR!Stored(modelSerial).kind = "registry" /\ MR!NoFile.kind = "none"
      BY RegistryFileIs DEF MR!Stored, MR!NoFile
    <3>2. modelTmp # MR!NoFile
      BY <2>2, <3>1
    <3> QED
      BY <1>1, <2>2, <3>2
  <2>4. MR!Read' = modelSerial'
    <3>1. MR!Parsed(MR!Stored(modelSerial)) = modelSerial
      BY RegistryFileIs DEF MR!Parsed, MR!Valid, MR!Stored
    <3> QED
      BY <1>1, <2>3, <3>1 DEF MR!Read
  <2>5. \A k \in StoreJobs : modelJob'[k].pc = "done"
    BY <1>2, <2>1, SavingRest
  <2> QED
    BY <2>4, <2>5 DEF RegistryInTurn, Saving
<1> QED
  BY <1>4, <1>5 DEF RegistryOrderly

(* What leaves no handler under way and the history at what is read.         *)
LEMMA RegistrySettled ==
  ASSUME MR!Sown, RegistryTyped, modelStarted' = modelStarted, modelOverlapped' = modelOverlapped,
         modelTmp' = modelTmp, NEW file, FileIn(file), models' = file,
         modelSerial' = MR!Parsed(file), DOMAIN modelJob' = StoreJobs,
         modelJob' = [k \in StoreJobs |-> modelJob'[k]],
         \A k \in StoreJobs : modelJob'[k].pc = "done"
  PROVE  RegistryOrderly'
<1>1. RegistryTyped'
  BY DEF RegistryTyped, Saving, FileIn
<1>2. RegistryInTurn'
  BY DEF RegistryInTurn, Saving, MR!Read
<1> QED
  BY <1>1, <1>2 DEF RegistryOrderly

(* Every step keeps the invariant of the registry.                           *)
LEMMA RegistryStep ==
  ASSUME MR!Sown, RegistryOrderly, [MR!Next]_(MR!vars)
  PROVE  RegistryOrderly'
<1>1. CASE MR!Crash
  <2>1. /\ RegistryTyped /\ modelJob' = [j \in StoreJobs |-> MR!Rest] /\ modelSerial' = MR!Read
           /\ models' = models /\ modelTmp' = modelTmp
        /\ modelStarted' = modelStarted /\ modelOverlapped' = modelOverlapped
    BY <1>1 DEF MR!Crash, RegistryOrderly
  <2>2. DOMAIN modelJob' = StoreJobs /\ modelJob' = [k \in StoreJobs |-> modelJob'[k]]
        /\ \A k \in StoreJobs : modelJob'[k].pc = "done"
    BY <2>1, SavingRest
  <2>3. FileIn(models) /\ modelSerial' = MR!Parsed(models)
    BY <2>1 DEF RegistryTyped, MR!Read
  <2> QED
    BY <2>1, <2>2, <2>3, RegistrySettled
<1>2. ASSUME NEW file, FileIn(file), MR!Damage(file)
      PROVE  RegistryOrderly'
  <2>1. /\ RegistryTyped /\ modelJob' = modelJob /\ models' = file /\ modelSerial' = MR!Parsed(file)
           /\ modelTmp' = modelTmp
        /\ modelStarted' = modelStarted /\ modelOverlapped' = modelOverlapped
           /\ \A j \in StoreJobs : modelJob[j].pc = "done"
    BY <1>2 DEF MR!Damage, RegistryOrderly
  <2>2. DOMAIN modelJob' = StoreJobs /\ modelJob' = [k \in StoreJobs |-> modelJob'[k]]
        /\ \A k \in StoreJobs : modelJob'[k].pc = "done"
    BY <2>1 DEF RegistryTyped
  <2> QED
    BY <1>2, <2>1, <2>2, RegistrySettled
<1>3. CASE MR!Damage(MR!Damaged)
  <2>1. modelStarted \in Nat /\ RegistryIn(<<>>, modelStarted) /\ 0 \in 0..Len(<<>>)
    BY EmptyWhole DEF RegistryTyped, RegistryOrderly
  <2>2. FileIn(MR!Damaged)
    BY <2>1, FileHolds DEF MR!Damaged
  <2> QED
    BY <1>2, <1>3, <2>2
<1>4. ASSUME NEW i \in 1..Len(models.list), MR!Damage(MR!File("registry", models.list, i))
      PROVE  RegistryOrderly'
  <2>1. modelStarted \in Nat /\ RegistryIn(models.list, modelStarted)
    BY DEF RegistryTyped, RegistryOrderly, FileIn
  <2>2. i \in 0..Len(models.list)
    OBVIOUS
  <2>3. FileIn(MR!File("registry", models.list, i))
    BY <2>1, <2>2, FileHolds
  <2> QED
    BY <1>2, <1>4, <2>3
<1>5. CASE UNCHANGED MR!vars
  BY <1>5 DEF MR!vars, RegistryOrderly, RegistryTyped, RegistryInTurn, Saving, SavingAsked, FileIn,
     MR!Read
<1> QED
  BY <1>1, <1>3, <1>4, <1>5, RegistryAsked, RegistryOpened, RegistryWritten,
     RegistryRenamed DEF MR!Next

(* However the settings page's requests overlap, whatever the registry file  *)
(* holds once it was edited by hand, and wherever the program ends: ids stay *)
(* apart, a provider of the seed keeps its key and its models, and handlers  *)
(* that ran one after the other leave what they were asked for               *)
(* (modelConfigStorage.ts).                                                  *)
THEOREM RegistryCorrect ==
  ASSUME MR!Sown
  PROVE  MR!Spec => []MR!RegistryKept
<1>1. MR!Init => RegistryOrderly
  BY RegistryBegins
<1>2. RegistryOrderly /\ [MR!Next]_(MR!vars) => RegistryOrderly'
  BY RegistryStep
<1>3. RegistryOrderly => MR!RegistryKept
  <2> SUFFICES ASSUME RegistryOrderly PROVE MR!RegistryKept
    OBVIOUS
  <2>1. modelStarted \in Nat /\ RegistryIn(models.list, modelStarted)
        /\ models.bad \in 0..Len(models.list)
    BY DEF RegistryOrderly, RegistryTyped, FileIn
  <2>2. RegistryIn(MR!Read, modelStarted)
    BY <2>1, ParsedWhole DEF MR!Read
  <2>3. MR!RegistryWhole
    BY <2>2 DEF RegistryIn, SeedStands, MR!RegistryWhole
  <2>4. MR!SerialHandlersKeep
    BY DEF MR!SerialHandlersKeep, RegistryOrderly, RegistryInTurn
  <2> QED
    BY <2>3, <2>4 DEF MR!RegistryKept
<1> QED
  BY <1>1, <1>2, <1>3, PTL DEF MR!Spec
-----------------------------------------------------------------------------
(* Data sources. A handler writes the configuration, then the secrets one by *)
(* one.                                                                      *)

(* What a handler of the data pages holds.                                   *)
SourceHandlers == [pc : {"done", "read", "secrets", "decrypted"},
                   ask : DS!Requests \cup {[op |-> "none"]},
                   seen : DS!Configs, todo : SUBSET DS!Secrets, read : SUBSET SourceNames]

(* A handler is under way.                                                   *)
Configuring(j) == sourceJob[j].pc # "done"

(* The types; a handler owes at most one change to a source's secret.        *)
SourcesTyped ==
  /\ config \in DS!Configs \cup {None} /\ secrets \in (SUBSET SourceNames) \cup {Locked}
  /\ sourceSerial \in [config : DS!Configs \cup {None}, secrets : SUBSET SourceNames]
  /\ sourceOverlapped \in BOOLEAN /\ sourceJob \in [StoreJobs -> SourceHandlers]
  /\ \A j \in StoreJobs : \A t, u \in sourceJob[j].todo : t.source = u.source => t = u

(* Every secret is one of a source of the configuration.                     *)
SecretsCovered == sourceSerial.secrets \subseteq DOMAIN DS!Read(sourceSerial.config).sources

(* A handler alone: what it still owes brings the secrets to the history,    *)
(* and the configuration is the one it read, or already the history's.       *)
ConfiguringInTurn(j) ==
  /\ IF sourceJob[j].pc = "read"
     THEN sourceJob[j].seen = sourceSerial.config
     ELSE config = sourceSerial.config
  /\ sourceSerial.secrets = DS!Applied(sourceJob[j].todo, DS!ReadAll)
  /\ sourceJob[j].pc = "decrypted" => sourceJob[j].read = DS!ReadAll

(* Handlers one after the other.                                             *)
SourcesInTurn ==
  ~sourceOverlapped =>
    /\ SecretsCovered
    /\ \A j, k \in StoreJobs : Configuring(j) /\ Configuring(k) => j = k
    /\ \A j \in StoreJobs : Configuring(j) => ConfiguringInTurn(j)
    /\ DS!Idle => config = sourceSerial.config /\ DS!ReadAll = sourceSerial.secrets

(* The inductive invariant of the data sources.                              *)
SourcesOrderly == SourcesTyped /\ SourcesInTurn

(* The fields of a configuration.                                            *)
LEMMA ConfigFields ==
  ASSUME NEW c \in DS!Configs
  PROVE  /\ c.envs \in SUBSET SeedEnvironments /\ DOMAIN c.sources \in SUBSET SourceNames
         /\ c.sources \in [DOMAIN c.sources -> SeedEnvironments]
         /\ \A s \in DOMAIN c.sources : c.sources[s] \in c.envs
  BY DEF DS!Configs

(* What makes a configuration.                                               *)
LEMMA ConfigIs ==
  ASSUME NEW envs \in SUBSET SeedEnvironments, NEW S \in SUBSET SourceNames,
         NEW f \in [S -> SeedEnvironments],
         \A s \in S : f[s] \in envs
  PROVE  DS!Config(envs, f) \in DS!Configs
<1>1. f \in UNION {[T -> SeedEnvironments] : T \in SUBSET SourceNames} /\ DOMAIN f = S
  OBVIOUS
<1> QED
  BY <1>1 DEF DS!Config, DS!Configs

(* Normalizing drops the sources whose environment is gone, and keeps the    *)
(* others as they were.                                                      *)
LEMMA NormalizeIs ==
  ASSUME NEW envs \in SUBSET SeedEnvironments, NEW S \in SUBSET SourceNames,
         NEW f \in [S -> SeedEnvironments]
  PROVE  LET c == DS!Normalize(DS!Config(envs, f))
         IN  /\ c \in DS!Configs /\ c.envs = envs
             /\ DOMAIN c.sources = {x \in S : f[x] \in envs}
             /\ \A x \in DOMAIN c.sources : c.sources[x] = f[x]
<1> DEFINE T == {x \in S : f[x] \in envs}
           g == [s \in T |-> f[s]]
<1>1. DOMAIN f = S
  OBVIOUS
<1>2. DS!Normalize(DS!Config(envs, f)) = DS!Config(envs, g)
  BY <1>1 DEF DS!Normalize, DS!Config
<1>3. g \in [T -> SeedEnvironments] /\ T \in SUBSET SourceNames /\ \A s \in T : g[s] \in envs
  OBVIOUS
<1>4. DOMAIN g = T /\ \A x \in T : g[x] = f[x]
  OBVIOUS
<1> HIDE DEF g, T
<1>5. DS!Config(envs, g) \in DS!Configs
  BY <1>3, ConfigIs
<1>6. DS!Config(envs, g).envs = envs /\ DS!Config(envs, g).sources = g
  BY DEF DS!Config
<1> QED
  BY <1>2, <1>4, <1>5, <1>6 DEF T

(* No file reads as an empty configuration.                                  *)
LEMMA ConfigRead ==
  ASSUME NEW file \in DS!Configs \cup {None}
  PROVE  DS!Read(file) \in DS!Configs
         /\ (file = None => DOMAIN DS!Read(file).sources = {} /\ DS!Read(file).envs = {})
<1> DEFINE f == [s \in {} |-> None]
<1>1. f \in [{} -> SeedEnvironments] /\ DOMAIN f = {}
  OBVIOUS
<1>2. DS!Empty = DS!Config({}, f)
  BY DEF DS!Empty
<1> HIDE DEF f
<1>3. DS!Config({}, f) \in DS!Configs
  BY <1>1, ConfigIs
<1> QED
  BY <1>1, <1>2, <1>3 DEF DS!Read, DS!Config

(* Changes to secrets leave secrets.                                         *)
LEMMA SecretsApplied ==
  ASSUME NEW todo \in SUBSET DS!Secrets, NEW all \in SUBSET SourceNames
  PROVE  DS!Applied(todo, all) \in SUBSET SourceNames
  BY DEF DS!Applied, DS!Secrets

(* What a handler writes is a configuration, and what it owes keeps the      *)
(* secrets to its sources.                                                   *)
LEMMA SourcesEdited ==
  ASSUME DS!Shared, NEW ask \in DS!Requests, NEW file \in DS!Configs \cup {None}
  PROVE  /\ DS!Edited(ask, file) \in DS!Configs
         /\ DS!Owed(ask, file) \in SUBSET DS!Secrets
         /\ \A t, u \in DS!Owed(ask, file) : t.source = u.source => t = u
         /\ \A R \in SUBSET DOMAIN DS!Read(file).sources :
              DS!Applied(DS!Owed(ask, file), R) \subseteq
                DOMAIN DS!Read(IF DS!Writes(ask, file) THEN DS!Edited(ask, file) ELSE file).sources
<1> DEFINE c == DS!Read(file)
           e == DS!Edited(ask, file)
           o == DS!Owed(ask, file)
           D == DOMAIN c.sources
<1>1. /\ c \in DS!Configs /\ c.envs \in SUBSET SeedEnvironments /\ D \in SUBSET SourceNames
      /\ c.sources \in [D -> SeedEnvironments]
      /\ \A s \in D : c.sources[s] \in c.envs
      /\ file = None => D = {} /\ c.envs = {}
  BY ConfigRead, ConfigFields
<1>2. \A d \in DS!Configs : DS!Read(d) = d
  BY DEF DS!Read, DS!Shared
<1>3. \A R : DS!Applied({}, R) = R
  BY DEF DS!Applied
<1>4. CASE ask.op = "get"
  <2>1. o = {} /\ (DS!Writes(ask, file) <=> file = None)
    BY <1>4 DEF DS!Owed, DS!Writes
  <2>2. CASE file = None
    <3>1. e = DS!Config(SeedEnvironments, DS!Empty.sources)
      BY <1>4, <2>2 DEF DS!Edited
    <3>2. DS!Empty.sources = [s \in {} |-> None] /\ DS!Empty.sources \in [{} -> SeedEnvironments]
      BY DEF DS!Empty, DS!Config
    <3>3. e \in DS!Configs
      BY <3>1, <3>2, ConfigIs
    <3>4. \A R \in SUBSET D : DS!Applied(o, R) = {}
      BY <1>1, <1>3, <2>1, <2>2
    <3> QED
      BY <3>3, <3>4, <2>1
  <2>3. CASE file # None
    <3>1. e = c
      BY <1>4, <2>3 DEF DS!Edited
    <3> QED
      BY <3>1, <2>1, <2>3, <1>1, <1>3
  <2> QED
    BY <2>2, <2>3
<1>5. CASE ask.op = "upsertEnvironment"
  <2> DEFINE V == c.envs \cup {ask.env}
  <2>1. ask.env \in SeedEnvironments
    BY <1>5 DEF DS!Requests
  <2>2. e = DS!Normalize(DS!Config(V, c.sources)) /\ o = {} /\ DS!Writes(ask, file)
    BY <1>5 DEF DS!Edited, DS!Owed, DS!Writes
  <2>3. V \in SUBSET SeedEnvironments /\ {x \in D : c.sources[x] \in V} = D
    BY <1>1, <2>1
  <2> HIDE DEF c, e, V, D
  <2>4. e \in DS!Configs /\ DOMAIN e.sources = D
    BY <1>1, <2>2, <2>3, NormalizeIs
  <2> QED
    BY <1>2, <1>3, <2>2, <2>4 DEF D, c, e, o
<1>6. CASE ask.op = "removeEnvironment"
  <2> DEFINE V == c.envs \ {ask.env}
             gone == D \ DOMAIN e.sources
  <2>2. e = DS!Normalize(DS!Config(V, c.sources)) /\ DS!Writes(ask, file)
    BY <1>6 DEF DS!Edited, DS!Writes
  <2>3. o = {DS!Secret(s, "delete") : s \in gone}
    BY <1>6 DEF DS!Owed
  <2>4. V \in SUBSET SeedEnvironments
    BY <1>1
  <2> HIDE DEF c, e, V, D
  <2>5. e \in DS!Configs /\ DOMAIN e.sources \subseteq D
    <3>1. D \in SUBSET SourceNames /\ c.sources \in [D -> SeedEnvironments]
      BY <1>1
    <3>2. e \in DS!Configs /\ DOMAIN e.sources = {x \in D : c.sources[x] \in V}
      BY <2>2, <2>4, <3>1, NormalizeIs
    <3> QED
      BY <3>2
  <2>6. o \in SUBSET DS!Secrets /\ \A t, u \in o : t.source = u.source => t = u
    BY <2>3, <1>1 DEF DS!Secret, DS!Secrets
  <2>7. \A R \in SUBSET D : DS!Applied(o, R) \subseteq DOMAIN e.sources
    <3> SUFFICES ASSUME NEW R \in SUBSET D, NEW s \in DS!Applied(o, R) PROVE s \in DOMAIN e.sources
      OBVIOUS
    <3>1. s \in R /\ DS!Secret(s, "delete") \notin o
      BY <2>3 DEF DS!Applied, DS!Secret
    <3>2. s \notin gone
      BY <2>3, <3>1
    <3> QED
      BY <3>1, <3>2
  <2> QED
    BY <1>2, <2>2, <2>5, <2>6, <2>7 DEF D, c, e, o
<1>7. CASE ask.op = "upsertDataSource"
  <2> DEFINE f == DS!With(c.sources, ask.source, ask.env)
  <2>1. ask.env \in SeedEnvironments /\ ask.source \in SourceNames
    BY <1>7 DEF DS!Requests
  <2>2. e = DS!Normalize(DS!Config(c.envs, f)) /\ (DS!Writes(ask, file) <=> ask.env \in c.envs)
    BY <1>7 DEF DS!Edited, DS!Writes
  <2>3. o = (IF DS!Writes(ask, file) /\ ask.typed THEN {DS!Secret(ask.source, "set")} ELSE {})
    BY <1>7 DEF DS!Owed
  <2>4. f \in [D \cup {ask.source} -> SeedEnvironments]
        /\ D \cup {ask.source} \in SUBSET SourceNames
        /\ f[ask.source] = ask.env /\ \A s \in D : s # ask.source => f[s] = c.sources[s]
    BY <1>1, <2>1 DEF DS!With
  <2> HIDE DEF c, e, f, D
  <2>5. e \in DS!Configs /\ DOMAIN e.sources = {x \in D \cup {ask.source} : f[x] \in c.envs}
    <3> DEFINE E == D \cup {ask.source}
               V == c.envs
    <3>1. f \in [E -> SeedEnvironments] /\ E \in SUBSET SourceNames /\ V \in SUBSET SeedEnvironments
      BY <1>1, <2>4
    <3> HIDE DEF E, V
    <3>2. e = DS!Normalize(DS!Config(V, f))
      BY <2>2 DEF V
    <3>3. e \in DS!Configs /\ DOMAIN e.sources = {x \in E : f[x] \in V}
      BY <3>1, <3>2, NormalizeIs
    <3> QED
      BY <3>3 DEF E, V
  <2>6. o \in SUBSET DS!Secrets /\ \A t, u \in o : t.source = u.source => t = u
    BY <2>3, <2>1 DEF DS!Secret, DS!Secrets
  <2>7. CASE DS!Writes(ask, file)
    <3>1. DOMAIN e.sources = D \cup {ask.source}
      BY <2>2, <2>4, <2>5, <2>7, <1>1
    <3>2. \A R \in SUBSET D : DS!Applied(o, R) \subseteq D \cup {ask.source}
      BY <2>3 DEF DS!Applied, DS!Secret
    <3> QED
      BY <1>2, <2>5, <2>6, <2>7, <3>1, <3>2 DEF D, c, e, o
  <2>8. CASE ~DS!Writes(ask, file)
    BY <1>3, <2>3, <2>5, <2>6, <2>8 DEF D, c, e, o
  <2> QED
    BY <2>7, <2>8
<1>8. CASE ask.op = "removeDataSource"
  <2> DEFINE f == DS!Without(c.sources, ask.source)
  <2>1. ask.source \in SourceNames
    BY <1>8 DEF DS!Requests
  <2>2. e = DS!Normalize(DS!Config(c.envs, f)) /\ DS!Writes(ask, file)
        /\ o = {DS!Secret(ask.source, "delete")}
    BY <1>8 DEF DS!Edited, DS!Writes, DS!Owed
  <2>4. f \in [D \ {ask.source} -> SeedEnvironments] /\ D \ {ask.source} \in SUBSET SourceNames
        /\ \A s \in D \ {ask.source} : f[s] = c.sources[s]
    BY <1>1, <2>1 DEF DS!Without
  <2> HIDE DEF c, e, f, D
  <2>5. e \in DS!Configs /\ DOMAIN e.sources = {x \in D \ {ask.source} : f[x] \in c.envs}
    <3> DEFINE E == D \ {ask.source}
               V == c.envs
    <3>1. f \in [E -> SeedEnvironments] /\ E \in SUBSET SourceNames /\ V \in SUBSET SeedEnvironments
      BY <1>1, <2>4
    <3> HIDE DEF E, V
    <3>2. e = DS!Normalize(DS!Config(V, f))
      BY <2>2 DEF V
    <3>3. e \in DS!Configs /\ DOMAIN e.sources = {x \in E : f[x] \in V}
      BY <3>1, <3>2, NormalizeIs
    <3> QED
      BY <3>3 DEF E, V
  <2>6. o \in SUBSET DS!Secrets /\ \A t, u \in o : t.source = u.source => t = u
    BY <2>2, <2>1 DEF DS!Secret, DS!Secrets
  <2>7. DOMAIN e.sources = D \ {ask.source}
    BY <2>4, <2>5, <1>1
  <2>8. \A R \in SUBSET D : DS!Applied(o, R) \subseteq D \ {ask.source}
    BY <2>2 DEF DS!Applied, DS!Secret
  <2> QED
    BY <1>2, <2>2, <2>5, <2>6, <2>7, <2>8 DEF D, c, e, o
<1>9. CASE ask.op = "setCredential"
  <2>1. ask.source \in SourceNames
    BY <1>9 DEF DS!Requests
  <2>2. e = c /\ ~DS!Writes(ask, file)
    BY <1>9 DEF DS!Edited, DS!Writes
  <2>3. \/ o = {}
        \/ ask.source \in D /\ o = {DS!Secret(ask.source, "set")}
        \/ ask.source \in D /\ o = {DS!Secret(ask.source, "delete")}
    BY <1>9 DEF DS!Owed
  <2> HIDE DEF c, e, D
  <2>4. o \in SUBSET DS!Secrets /\ \A t, u \in o : t.source = u.source => t = u
    BY <2>3, <2>1 DEF DS!Secret, DS!Secrets
  <2>5. \A R \in SUBSET D : DS!Applied(o, R) \subseteq D
    BY <2>3 DEF DS!Applied, DS!Secret
  <2> QED
    BY <1>1, <2>2, <2>4, <2>5 DEF D, c, e, o
<1>10. ask.op \in {"get", "upsertEnvironment", "removeEnvironment",
                     "upsertDataSource", "removeDataSource", "setCredential"}
  BY DEF DS!Requests
<1> QED
  BY <1>4, <1>5, <1>6, <1>7, <1>8, <1>9, <1>10

(* A handler at rest.                                                        *)
LEMMA ConfiguringRest ==
  /\ DS!Rest \in SourceHandlers /\ DS!Rest.pc = "done" /\ DS!Rest.todo = {}
<1>1. DS!Empty \in DS!Configs
  BY ConfigRead DEF DS!Read
<1> QED
  BY <1>1 DEF DS!Rest, DS!Handler, SourceHandlers

(* The fields of a handler.                                                  *)
LEMMA ConfiguringIs ==
  ASSUME NEW pc \in {"read", "secrets", "decrypted"},
         NEW ask \in DS!Requests \cup {[op |-> "none"]},
         NEW seen \in DS!Configs, NEW todo \in SUBSET DS!Secrets, NEW read \in SUBSET SourceNames
  PROVE  LET h == DS!Handler(pc, ask, seen, todo, read)
         IN  h \in SourceHandlers /\ h.pc = pc /\ h.seen = seen /\ h.todo = todo /\ h.read = read
  BY DEF DS!Handler, SourceHandlers

(* Neither file is there.                                                    *)
LEMMA SourcesBegin ==
  ASSUME DS!Shared, DS!Init
  PROVE  SourcesOrderly
<1>1. config = None /\ secrets = {} /\ sourceSerial = [config |-> None, secrets |-> {}]
      /\ sourceOverlapped = FALSE
      /\ sourceJob = [j \in StoreJobs |-> DS!Rest]
  BY DEF DS!Init
<1>2. \A j \in StoreJobs : sourceJob[j].pc = "done" /\ sourceJob[j].todo = {}
  BY <1>1, ConfiguringRest
<1>3. SourcesTyped
  <2>1. sourceSerial \in [config : DS!Configs \cup {None}, secrets : SUBSET SourceNames]
    BY <1>1
  <2> QED
    BY <1>1, <1>2, <2>1, ConfiguringRest DEF SourcesTyped
<1>4. DS!ReadAll = {}
  BY <1>1 DEF DS!ReadAll
<1>5. SourcesInTurn
  BY <1>1, <1>2, <1>4 DEF SourcesInTurn, SecretsCovered, Configuring, DS!Idle
<1> QED
  BY <1>3, <1>5 DEF SourcesOrderly

(* Secrets that cannot be decrypted read as none.                            *)
LEMMA SecretsRead ==
  ASSUME SourcesTyped
  PROVE  DS!ReadAll \in SUBSET SourceNames
<1>1. secrets \in SUBSET SourceNames \/ secrets = Locked
  BY DEF SourcesTyped
<1> QED
  BY <1>1 DEF DS!ReadAll

(* A handler reads the configuration.                                        *)
LEMMA SourcesAsked ==
  ASSUME DS!Shared, SourcesOrderly, NEW j \in StoreJobs, NEW ask \in DS!Requests, DS!Start(j, ask)
  PROVE  SourcesOrderly'
<1> DEFINE e == DS!Edited(ask, config)
           o == DS!Owed(ask, config)
           writes == DS!Writes(ask, config)
           q == sourceJob'[j]
<1>1. /\ sourceJob[j].pc = "done" /\ sourceOverlapped' = (sourceOverlapped \/ ~DS!Idle)
      /\ UNCHANGED <<config, secrets>>
      /\ sourceSerial' = [config |-> IF DS!Writes(ask, sourceSerial.config)
                                     THEN DS!Edited(ask, sourceSerial.config)
                                     ELSE sourceSerial.config,
                          secrets |-> DS!Applied(DS!Owed(ask, sourceSerial.config),
                                                 sourceSerial.secrets)]
      /\ SourcesTyped
  BY DEF DS!Start, SourcesOrderly
<1>2. /\ sourceJob' = [sourceJob EXCEPT ![j] = q]
         /\ \A k \in StoreJobs \ {j} : sourceJob'[k] = sourceJob[k]
      /\ q = IF writes \/ o # {}
             THEN DS!Handler(IF writes THEN "read" ELSE "secrets", ask, e, o, {})
             ELSE DS!Rest
  BY <1>1 DEF DS!Start, SourcesTyped
<1> HIDE DEF q
<1>3. e \in DS!Configs /\ o \in SUBSET DS!Secrets /\ \A t, u \in o : t.source = u.source => t = u
  BY <1>1, SourcesEdited DEF SourcesTyped
<1>4. \/ /\ writes \/ o # {}
         /\ q \in SourceHandlers /\ q.pc = (IF writes THEN "read" ELSE "secrets") /\ q.seen = e
            /\ q.todo = o
      \/ ~writes /\ o = {} /\ q = DS!Rest
  <2> HIDE DEF e, o, writes
  <2>1. CASE writes \/ o # {}
    <3>1. (IF writes THEN "read" ELSE "secrets") \in {"read", "secrets", "decrypted"}
      OBVIOUS
    <3> QED
      BY <2>1, <3>1, <1>2, <1>3, ConfiguringIs
  <2> QED
    BY <2>1, <1>2
<1>5. sourceSerial'.config \in DS!Configs \cup {None}
      /\ sourceSerial'.secrets \in SUBSET SourceNames
      /\ (SecretsCovered => SecretsCovered')
  <2>1. sourceSerial.config \in DS!Configs \cup {None}
        /\ sourceSerial.secrets \in SUBSET SourceNames
    BY <1>1 DEF SourcesTyped
  <2> DEFINE se == DS!Edited(ask, sourceSerial.config)
             so == DS!Owed(ask, sourceSerial.config)
  <2>2. se \in DS!Configs /\ so \in SUBSET DS!Secrets
        /\ \A R \in SUBSET DOMAIN DS!Read(sourceSerial.config).sources :
              DS!Applied(so, R) \subseteq
                DOMAIN DS!Read(IF DS!Writes(ask, sourceSerial.config) THEN se ELSE sourceSerial.config).sources
    BY <2>1, SourcesEdited
  <2>3. sourceSerial'.config = (IF DS!Writes(ask, sourceSerial.config) THEN se
                                   ELSE sourceSerial.config)
        /\ sourceSerial'.secrets = DS!Applied(so, sourceSerial.secrets)
    BY <1>1
  <2> HIDE DEF se, so
  <2>4. SecretsCovered =>
          sourceSerial.secrets \in SUBSET DOMAIN DS!Read(sourceSerial.config).sources
    BY DEF SecretsCovered
  <2>5. SecretsCovered =>
          sourceSerial'.secrets \subseteq DOMAIN DS!Read(sourceSerial'.config).sources
    BY <2>2, <2>3, <2>4
  <2> QED
    BY <2>1, <2>2, <2>3, <2>5, SecretsApplied DEF SecretsCovered, DS!Read
<1>6. SourcesTyped'
  <2>1. sourceSerial' \in [config : DS!Configs \cup {None}, secrets : SUBSET SourceNames]
    BY <1>1, <1>5
  <2>2. q \in SourceHandlers /\ \A t, u \in q.todo : t.source = u.source => t = u
    BY <1>3, <1>4, ConfiguringRest
  <2>3. sourceJob' \in [StoreJobs -> SourceHandlers]
    BY <1>1, <1>2, <2>2 DEF SourcesTyped
  <2>4. \A k \in StoreJobs : \A t, u \in sourceJob'[k].todo : t.source = u.source => t = u
    BY <1>1, <1>2, <2>2 DEF SourcesTyped, q
  <2> QED
    BY <1>1, <2>1, <2>3, <2>4 DEF SourcesTyped
<1>7. SourcesInTurn'
  <2> SUFFICES ASSUME ~sourceOverlapped' PROVE SourcesInTurn'
    BY DEF SourcesInTurn
  <2>1. ~sourceOverlapped /\ DS!Idle
    BY <1>1 DEF SourcesTyped
  <2>2. SecretsCovered /\ config = sourceSerial.config /\ DS!ReadAll = sourceSerial.secrets
    BY <2>1 DEF SourcesOrderly, SourcesInTurn
  <2>3. \A k \in StoreJobs : Configuring(k)' => k = j
    BY <1>2, <2>1 DEF Configuring, DS!Idle
  <2>4. DS!ReadAll' = DS!ReadAll /\ config' = config
    BY <1>1 DEF DS!ReadAll
  <2>5. sourceSerial'.config = (IF writes THEN e ELSE config)
        /\ sourceSerial'.secrets = DS!Applied(o, DS!ReadAll)
    BY <1>1, <2>2
  <2>6. Configuring(j)' => ConfiguringInTurn(j)'
    <3>1. CASE writes \/ o # {}
      <4>1. q.pc = (IF writes THEN "read" ELSE "secrets") /\ q.seen = e /\ q.todo = o
        BY <1>4, <3>1
      <4>2. q.pc # "decrypted"
        BY <4>1
      <4> QED
        BY <4>1, <4>2, <2>4, <2>5 DEF ConfiguringInTurn, q
    <3>2. CASE ~(writes \/ o # {})
      BY <1>4, <3>2, ConfiguringRest DEF Configuring, q
    <3> QED
      BY <3>1, <3>2
  <2>7. DS!Idle' => config' = sourceSerial'.config /\ DS!ReadAll' = sourceSerial'.secrets
    <3>1. ASSUME DS!Idle' PROVE ~writes /\ o = {}
      <4>1. q.pc = "done"
        BY <3>1 DEF DS!Idle, q
      <4> QED
        BY <4>1, <1>4
    <3>2. \A R : DS!Applied({}, R) = R
      BY DEF DS!Applied
    <3> QED
      BY <3>1, <3>2, <2>4, <2>5
  <2> QED
    BY <1>5, <2>2, <2>3, <2>6, <2>7 DEF SourcesInTurn
<1> QED
  BY <1>6, <1>7 DEF SourcesOrderly

(* A handler that goes on, to q, and what that must bring.                   *)
LEMMA ConfiguringGoesOn ==
  ASSUME SourcesOrderly, NEW j \in StoreJobs, Configuring(j), NEW q \in SourceHandlers,
         \A t, u \in q.todo : t.source = u.source => t = u,
         sourceJob' = [sourceJob EXCEPT ![j] = q], UNCHANGED <<sourceSerial, sourceOverlapped>>,
         config' \in DS!Configs \cup {None}, secrets' \in (SUBSET SourceNames) \cup {Locked},
         ~sourceOverlapped =>
           IF q.pc = "done" THEN config' = sourceSerial.config /\ DS!ReadAll' = sourceSerial.secrets
           ELSE ConfiguringInTurn(j)'
  PROVE  SourcesOrderly'
<1>1. sourceJob'[j] = q /\ \A k \in StoreJobs \ {j} : sourceJob'[k] = sourceJob[k]
  BY DEF SourcesOrderly, SourcesTyped
<1>2. SourcesTyped'
  BY <1>1 DEF SourcesOrderly, SourcesTyped
<1>3. SourcesInTurn'
  <2> SUFFICES ASSUME ~sourceOverlapped' PROVE SourcesInTurn'
    BY DEF SourcesInTurn
  <2>1. SecretsCovered' /\ \A k \in StoreJobs : Configuring(k) => k = j
    BY DEF SourcesOrderly, SourcesInTurn, SecretsCovered, DS!Read
  <2>2. \A k \in StoreJobs : Configuring(k)' => k = j
    BY <1>1, <2>1 DEF Configuring
  <2>3. Configuring(j)' <=> q.pc # "done"
    BY <1>1 DEF Configuring
  <2>4. DS!Idle' => q.pc = "done"
    BY <1>1 DEF DS!Idle
  <2> QED
    BY <2>1, <2>2, <2>3, <2>4 DEF SourcesInTurn
<1> QED
  BY <1>2, <1>3 DEF SourcesOrderly

(* It writes the configuration.                                              *)
LEMMA ConfigWritten ==
  ASSUME DS!Shared, SourcesOrderly, NEW j \in StoreJobs, DS!WriteConfig(j)
  PROVE  SourcesOrderly'
<1> DEFINE h == sourceJob[j]
           q == IF h.todo = {} THEN DS!Rest ELSE DS!Handler("secrets", h.ask, h.seen, h.todo, {})
<1>1. /\ h.pc = "read" /\ config' = h.seen /\ sourceJob' = [sourceJob EXCEPT ![j] = q]
      /\ UNCHANGED <<secrets, sourceSerial, sourceOverlapped>> /\ SourcesTyped
         /\ h \in SourceHandlers
  BY DEF DS!WriteConfig, SourcesOrderly, SourcesTyped
<1>2. \/ h.todo = {} /\ q = DS!Rest
      \/ h.todo # {} /\ q \in SourceHandlers /\ q.pc = "secrets" /\ q.todo = h.todo
  <2>1. h.ask \in DS!Requests \cup {[op |-> "none"]} /\ h.seen \in DS!Configs
        /\ h.todo \in SUBSET DS!Secrets
        /\ {} \in SUBSET SourceNames /\ "secrets" \in {"read", "secrets", "decrypted"}
    BY <1>1 DEF SourceHandlers
  <2> HIDE DEF h
  <2>2. CASE h.todo # {}
    <3>1. q = DS!Handler("secrets", h.ask, h.seen, h.todo, {})
      BY <2>2
    <3> HIDE DEF q
    <3> QED
      BY <2>1, <2>2, <3>1, ConfiguringIs
  <2> QED
    BY <2>2
<1> HIDE DEF q
<1>3. q \in SourceHandlers /\ \A t, u \in q.todo : t.source = u.source => t = u
  BY <1>1, <1>2, ConfiguringRest DEF SourcesTyped
<1>4. sourceJob'[j] = q
  BY <1>1 DEF SourcesTyped
<1>5. ASSUME ~sourceOverlapped
      PROVE IF q.pc = "done" THEN config' = sourceSerial.config
      /\ DS!ReadAll' = sourceSerial.secrets ELSE ConfiguringInTurn(j)'
  <2>1. ConfiguringInTurn(j)
    BY <1>1, <1>5 DEF SourcesOrderly, SourcesInTurn, Configuring
  <2>2. config' = sourceSerial.config /\ sourceSerial.secrets = DS!Applied(h.todo, DS!ReadAll)
        /\ DS!ReadAll' = DS!ReadAll
    BY <1>1, <2>1 DEF ConfiguringInTurn, DS!ReadAll
  <2>3. CASE h.todo = {}
    <3>1. \A R : DS!Applied({}, R) = R
      BY DEF DS!Applied
    <3> QED
      BY <2>3, <3>1, <2>2, <1>2, ConfiguringRest
  <2>4. CASE h.todo # {}
    <3>1. q.pc = "secrets" /\ q.todo = h.todo
      BY <2>4, <1>2
    <3> QED
      BY <3>1, <2>2, <1>1, <1>4 DEF ConfiguringInTurn
  <2> QED
    BY <2>3, <2>4
<1>6. Configuring(j) /\ h.seen \in DS!Configs
  BY <1>1 DEF Configuring, SourceHandlers
<1>7. config' \in DS!Configs \cup {None} /\ secrets' \in (SUBSET SourceNames) \cup {Locked}
  BY <1>1, <1>6 DEF SourcesTyped
<1> QED
  BY <1>1, <1>3, <1>5, <1>6, <1>7, ConfiguringGoesOn

(* It reads the secrets.                                                     *)
LEMMA SecretsDecrypted ==
  ASSUME DS!Shared, SourcesOrderly, NEW j \in StoreJobs, DS!ReadSecrets(j)
  PROVE  SourcesOrderly'
<1> DEFINE h == sourceJob[j]
           q == DS!Handler("decrypted", h.ask, h.seen, h.todo, DS!ReadAll)
<1>1. /\ h.pc = "secrets" /\ sourceJob' = [sourceJob EXCEPT ![j] = q]
      /\ UNCHANGED <<config, secrets, sourceSerial, sourceOverlapped>> /\ SourcesTyped
         /\ h \in SourceHandlers
  BY DEF DS!ReadSecrets, SourcesOrderly, SourcesTyped
<1>2. q \in SourceHandlers /\ q.pc = "decrypted" /\ q.todo = h.todo /\ q.read = DS!ReadAll
  <2>1. h.ask \in DS!Requests \cup {[op |-> "none"]} /\ h.seen \in DS!Configs
        /\ h.todo \in SUBSET DS!Secrets
        /\ DS!ReadAll \in SUBSET SourceNames /\ "decrypted" \in {"read", "secrets", "decrypted"}
    BY <1>1, SecretsRead DEF SourceHandlers
  <2> HIDE DEF h
  <2> QED
    BY <2>1, ConfiguringIs
<1> HIDE DEF q
<1>3. \A t, u \in q.todo : t.source = u.source => t = u
  BY <1>1, <1>2 DEF SourcesTyped
<1>4. sourceJob'[j] = q
  BY <1>1 DEF SourcesTyped
<1>5. ASSUME ~sourceOverlapped PROVE ConfiguringInTurn(j)'
  <2>1. ConfiguringInTurn(j)
    BY <1>1, <1>5 DEF SourcesOrderly, SourcesInTurn, Configuring
  <2>2. config' = sourceSerial.config /\ sourceSerial.secrets = DS!Applied(h.todo, DS!ReadAll)
        /\ DS!ReadAll' = DS!ReadAll
    BY <1>1, <2>1 DEF ConfiguringInTurn, DS!ReadAll
  <2> QED
    BY <2>2, <1>1, <1>2, <1>4 DEF ConfiguringInTurn
<1>6. Configuring(j) /\ q.pc # "done"
  BY <1>1, <1>2 DEF Configuring
<1>7. config' \in DS!Configs \cup {None} /\ secrets' \in (SUBSET SourceNames) \cup {Locked}
  BY <1>1 DEF SourcesTyped
<1> QED
  BY <1>1, <1>2, <1>3, <1>5, <1>6, <1>7, ConfiguringGoesOn

(* It writes them back with one changed.                                     *)
LEMMA SecretWritten ==
  ASSUME DS!Shared, SourcesOrderly, NEW j \in StoreJobs, DS!WriteSecret(j)
  PROVE  SourcesOrderly'
<1> DEFINE h == sourceJob[j]
<1>1. /\ h.pc = "decrypted" /\ UNCHANGED <<config, sourceSerial, sourceOverlapped>> /\ SourcesTyped
         /\ h \in SourceHandlers
  BY DEF DS!WriteSecret, SourcesOrderly, SourcesTyped
<1>2. PICK t \in h.todo :
       /\ secrets' = (IF t.op = "delete" /\ t.source \notin h.read THEN secrets
                      ELSE DS!Applied({t}, h.read))
       /\ sourceJob' = [sourceJob EXCEPT ![j] = IF h.todo = {t} THEN DS!Rest
                                                ELSE DS!Handler("secrets",
                                                                h.ask, h.seen, h.todo \ {t}, {})]
  BY <1>1 DEF DS!WriteSecret, SourcesTyped
<1> DEFINE q == IF h.todo = {t} THEN DS!Rest
                ELSE DS!Handler("secrets", h.ask, h.seen, h.todo \ {t}, {})
<1>3. \/ h.todo = {t} /\ q = DS!Rest
      \/ h.todo # {t} /\ q \in SourceHandlers /\ q.pc = "secrets" /\ q.todo = h.todo \ {t}
  <2>1. h.ask \in DS!Requests \cup {[op |-> "none"]} /\ h.seen \in DS!Configs
        /\ h.todo \ {t} \in SUBSET DS!Secrets
        /\ {} \in SUBSET SourceNames /\ "secrets" \in {"read", "secrets", "decrypted"}
    BY <1>1 DEF SourceHandlers
  <2> HIDE DEF h
  <2>2. CASE h.todo # {t}
    <3>1. q = DS!Handler("secrets", h.ask, h.seen, h.todo \ {t}, {})
      BY <2>2
    <3> HIDE DEF q
    <3> QED
      BY <2>1, <2>2, <3>1, ConfiguringIs
  <2> QED
    BY <2>2
<1>4. sourceJob' = [sourceJob EXCEPT ![j] = q]
  BY <1>2
<1> HIDE DEF q
<1>5. q \in SourceHandlers /\ \A x, u \in q.todo : x.source = u.source => x = u
  BY <1>1, <1>3, ConfiguringRest DEF SourcesTyped
<1>6. sourceJob'[j] = q
  BY <1>1, <1>4 DEF SourcesTyped
<1>7. h.todo \in SUBSET DS!Secrets /\ h.read \in SUBSET SourceNames /\ t \in DS!Secrets
      /\ {t} \in SUBSET DS!Secrets
  BY <1>1 DEF SourceHandlers
<1>8. DS!Applied({t}, h.read) \in SUBSET SourceNames
  BY <1>7, SecretsApplied
<1>9. secrets' \in (SUBSET SourceNames) \cup {Locked}
  BY <1>1, <1>2, <1>8 DEF SourcesTyped
<1>10. ASSUME ~sourceOverlapped
       PROVE IF q.pc = "done" THEN config' = sourceSerial.config
       /\ DS!ReadAll' = sourceSerial.secrets ELSE ConfiguringInTurn(j)'
  <2>1. ConfiguringInTurn(j)
    BY <1>1, <1>10 DEF SourcesOrderly, SourcesInTurn, Configuring
  <2>2. config' = sourceSerial.config /\ sourceSerial.secrets = DS!Applied(h.todo, DS!ReadAll)
        /\ h.read = DS!ReadAll
    BY <1>1, <2>1 DEF ConfiguringInTurn
  <2>3. DS!ReadAll' = DS!Applied({t}, DS!ReadAll)
    <3>1. CASE t.op = "delete" /\ t.source \notin h.read
      <4>1. DS!ReadAll' = DS!ReadAll
        BY <3>1, <1>2 DEF DS!ReadAll
      <4>2. DS!Applied({t}, DS!ReadAll) = DS!ReadAll
        BY <3>1, <2>2, <1>7 DEF DS!Applied, DS!Secret, DS!Secrets
      <4> QED
        BY <4>1, <4>2
    <3>2. CASE ~(t.op = "delete" /\ t.source \notin h.read)
      BY <3>2, <1>2, <1>8, <2>2 DEF DS!ReadAll, DS!Shared
    <3> QED
      BY <3>1, <3>2
  <2>4. CASE h.todo = {t}
    BY <2>2, <2>3, <2>4, <1>3, ConfiguringRest
  <2>5. CASE h.todo # {t}
    <3>1. q.pc = "secrets" /\ q.todo = h.todo \ {t}
      BY <2>5, <1>3
    <3>2. DS!Applied(h.todo \ {t}, DS!Applied({t}, DS!ReadAll)) = DS!Applied(h.todo, DS!ReadAll)
      <4>1. \A u \in h.todo \ {t} : u.source # t.source
        BY <1>1 DEF SourcesTyped
      <4>2. \A u \in h.todo : u = DS!Secret(u.source, u.op) /\ u.op \in {"set", "delete"}
        BY <1>7 DEF DS!Secret, DS!Secrets
      <4>3. \A s, op : DS!Secret(s, op).source = s /\ DS!Secret(s, op).op = op
        BY DEF DS!Secret
      <4> QED
        BY <4>1, <4>2, <4>3 DEF DS!Applied
    <3> QED
      BY <3>1, <3>2, <2>2, <2>3, <1>1, <1>6 DEF ConfiguringInTurn
  <2> QED
    BY <2>4, <2>5
<1>11. Configuring(j) /\ config' \in DS!Configs \cup {None}
  BY <1>1 DEF Configuring, SourcesTyped
<1> QED
  BY <1>1, <1>4, <1>5, <1>9, <1>10, <1>11, ConfiguringGoesOn

(* Every step keeps the invariant of the data sources.                       *)
LEMMA SourcesStep ==
  ASSUME DS!Shared, SourcesOrderly, [DS!Next]_(DS!vars)
  PROVE  SourcesOrderly'
<1>1. CASE DS!Crash
  <2>1. sourceJob' \in [StoreJobs -> SourceHandlers] /\ \A j \in StoreJobs : sourceJob'[j].todo = {}
    BY <1>1, ConfiguringRest DEF DS!Crash
  <2>2. sourceOverlapped' = TRUE /\ UNCHANGED <<config, secrets, sourceSerial>>
    BY <1>1 DEF DS!Crash
  <2> QED
    BY <2>1, <2>2 DEF SourcesOrderly, SourcesTyped, SourcesInTurn
<1>2. CASE DS!KeychainReset
  <2>1. /\ DS!Idle /\ secrets' = Locked /\ sourceSerial' = [sourceSerial EXCEPT !.secrets = {}]
        /\ UNCHANGED <<config, sourceJob, sourceOverlapped>> /\ SourcesTyped
    BY <1>2 DEF DS!KeychainReset, SourcesOrderly
  <2>2. sourceSerial' \in [config : DS!Configs \cup {None}, secrets : SUBSET SourceNames]
        /\ sourceSerial'.config = sourceSerial.config /\ sourceSerial'.secrets = {}
    BY <2>1 DEF SourcesTyped
  <2>3. SourcesTyped'
    <3>1. config' \in DS!Configs \cup {None} /\ secrets' \in (SUBSET SourceNames) \cup {Locked}
          /\ sourceOverlapped' \in BOOLEAN
      BY <2>1 DEF SourcesTyped
    <3>2. sourceJob' \in [StoreJobs -> SourceHandlers]
          /\ \A j \in StoreJobs : \A t, u \in sourceJob'[j].todo : t.source = u.source => t = u
      BY <2>1 DEF SourcesTyped
    <3> QED
      BY <2>2, <3>1, <3>2 DEF SourcesTyped
  <2>4. DS!ReadAll' = {} /\ \A j \in StoreJobs : ~Configuring(j)'
    BY <2>1 DEF DS!ReadAll, Configuring, DS!Idle
  <2>5. ~sourceOverlapped => config = sourceSerial.config
    BY <2>1 DEF SourcesOrderly, SourcesInTurn
  <2>6. SourcesInTurn'
    BY <2>1, <2>2, <2>4, <2>5 DEF SourcesInTurn, SecretsCovered
  <2> QED
    BY <2>3, <2>6 DEF SourcesOrderly
<1>3. CASE UNCHANGED DS!vars
  BY <1>3 DEF DS!vars, SourcesOrderly, SourcesTyped, SourcesInTurn, SecretsCovered, Configuring,
     DS!Idle, ConfiguringInTurn, DS!ReadAll
<1> QED
  BY <1>1, <1>2, <1>3, SourcesAsked, ConfigWritten, SecretsDecrypted, SecretWritten DEF DS!Next

(* For any environments, sources and order of requests, handlers that ran    *)
(* one after the other leave the configuration and the secrets they were     *)
(* asked for, and no secret outlives its source (projectConfigStorage.ts,    *)
(* credentialsStorage.ts).                                                   *)
THEOREM SourcesCorrect ==
  ASSUME DS!Shared
  PROVE  DS!Spec => []DS!SourcesKept
<1>1. DS!Init => SourcesOrderly
  BY SourcesBegin
<1>2. SourcesOrderly /\ [DS!Next]_(DS!vars) => SourcesOrderly'
  BY SourcesStep
<1>3. SourcesOrderly => DS!SourcesKept
  <2> SUFFICES ASSUME SourcesOrderly PROVE DS!SourcesKept
    OBVIOUS
  <2>1. DS!Read(config) \in DS!Configs
    BY ConfigRead DEF SourcesOrderly, SourcesTyped
  <2>2. \A s \in DOMAIN DS!Read(config).sources :
          DS!Read(config).sources[s] \in DS!Read(config).envs
    BY <2>1, ConfigFields
  <2> QED
    BY <2>2 DEF SourcesOrderly, SourcesInTurn, SecretsCovered, DS!SourcesKept
<1> QED
  BY <1>1, <1>2, <1>3, PTL DEF DS!Spec
-----------------------------------------------------------------------------
(* Code roots. A handler edits the project, then removes or makes clones.    *)

(* A project lists no url twice.                                             *)
UrlsDistinct(p) == p # None => \A q, r \in p.remotes : q.url = r.url => q = r

(* A handler is under way.                                                   *)
Rooting(j) == rootJob[j].pc # "done"

(* Undisturbed, one handler at a time.                                       *)
OneRooting == ~rootOverlapped => \A j, k \in StoreJobs : Rooting(j) /\ Rooting(k) => j = k

(* What a handler is about to write, remove or clone.                        *)
RootingPending(j) ==
  /\ rootJob[j].pc = "write" => rootJob[j].edit \in CR!Projects /\ UrlsDistinct(rootJob[j].edit)
  /\ rootJob[j].pc \in {"write", "remove"}
     /\ rootJob[j].ask.op = "removeRemote" => rootJob[j].ask.id \in CR!Ids
  /\ rootJob[j].pc = "remove" => rootJob[j].ask.op = "removeRemote"
  /\ rootJob[j].pc = "cloning" => rootJob[j].at \in CR!Ids

(* A handler alone: what it writes is the history, and loses only the remote *)
(* it removes.                                                               *)
RootingInTurn(j) ==
  /\ rootJob[j].pc = "write" =>
       /\ home /\ rootJob[j].edit = rootSerial
       /\ CR!Registered(rootProject) \ CR!Registered(rootJob[j].edit) \subseteq
            (IF rootJob[j].ask.op = "removeRemote" THEN {rootJob[j].ask.id} ELSE {})
  /\ rootJob[j].pc # "write" => rootProject = rootSerial
  /\ rootJob[j].pc = "clones" => rootJob[j].left \subseteq CR!Registered(rootProject)
  /\ rootJob[j].pc = "cloning" =>
       rootJob[j].left \cup {rootJob[j].at} \subseteq CR!Registered(rootProject)

(* Handlers one after the other: only a registered remote has a clone, or    *)
(* one about to be removed.                                                  *)
RootsInTurn ==
  ~rootOverlapped =>
    /\ home <=> rootProject # None
    /\ \A j \in StoreJobs : Rooting(j) => RootingInTurn(j)
    /\ (\A j \in StoreJobs : ~Rooting(j)) => rootProject = rootSerial
    /\ \A i \in CR!Ids : rootDisk[i] # "absent" =>
         \/ i \in CR!Registered(rootProject)
         \/ \E j \in StoreJobs : rootJob[j].pc = "remove" /\ rootJob[j].ask.id = i

(* A clone of i is under way.                                                *)
Cloning(i) == \E j \in StoreJobs : rootJob[j].pc = "cloning" /\ rootJob[j].at = i

(* A clone that is not whole is under way, or is known to be broken.         *)
HalfClones == \A i \in CR!Ids : rootDisk[i] = "partial" => i \in broken \/ Cloning(i)

(* The inductive invariant of the code roots.                                *)
RootsOrderly ==
  /\ CR!TypeOK /\ UrlsDistinct(rootProject) /\ UrlsDistinct(rootSerial)
  /\ \A j \in StoreJobs : RootingPending(j)
  /\ OneRooting /\ RootsInTurn /\ HalfClones /\ CR!ReadyIsWhole

(* An edit keeps the urls apart, and drops only the remote it removes.       *)
LEMMA ProjectEdited ==
  ASSUME CR!Scanned, NEW ask \in CR!Requests, NEW p \in CR!Projects, UrlsDistinct(p),
         NEW id \in CR!Ids
  PROVE  /\ CR!Edited(ask, p, id) \in CR!Projects /\ UrlsDistinct(CR!Edited(ask, p, id))
         /\ CR!Registered(p) \ CR!Registered(CR!Edited(ask, p, id)) \subseteq
              (IF ask.op = "removeRemote" THEN {ask.id} ELSE {})
<1> DEFINE e == CR!Edited(ask, p, id)
<1>0. p # None /\ p.remotes \subseteq CR!Remotes /\ CR!RootsOf(p) \subseteq CodeDirs
      /\ p.roots \in (SUBSET CodeDirs) \cup {None}
  BY DEF CR!Scanned, CR!Projects, CR!RootsOf
<1>1. CASE ask.op = "seed"
  <2>1. e = p \/ e = [p EXCEPT !.roots = FoundDirs]
    BY <1>1 DEF CR!Edited
  <2>2. e \in CR!Projects /\ e.remotes = p.remotes
    BY <2>1, <1>0 DEF CR!Projects, CR!Scanned
  <2> QED
    BY <2>2, <1>0, <1>1 DEF UrlsDistinct, CR!Registered, CR!Scanned
<1>2. CASE ask.op \in {"addRoot", "removeRoot"}
  <2>0. ask.root \in CodeDirs
    BY <1>2 DEF CR!Requests
  <2>1. e = [p EXCEPT !.roots = CR!RootsOf(p) \cup {ask.root}]
        \/ e = [p EXCEPT !.roots = CR!RootsOf(p) \ {ask.root}]
    BY <1>2 DEF CR!Edited
  <2>2. e \in CR!Projects /\ e.remotes = p.remotes
    BY <2>1, <2>0, <1>0 DEF CR!Projects
  <2> QED
    BY <2>2, <1>0, <1>2 DEF UrlsDistinct, CR!Registered, CR!Scanned
<1>3. CASE ask.op = "addRemote"
  <2>0. ask.url \in RepoUrls
    BY <1>3 DEF CR!Requests
  <2> DEFINE r == [id |-> id, url |-> ask.url]
  <2>1. r \in CR!Remotes /\ r.url = ask.url
    BY <2>0 DEF CR!Remotes
  <2>2. CASE CR!Known(p, ask.url)
    <3>1. e = p
      BY <1>3, <2>2 DEF CR!Edited
    <3> QED
      BY <3>1, <1>3
  <2>3. CASE ~CR!Known(p, ask.url)
    <3>1. e = [p EXCEPT !.remotes = p.remotes \cup {r}]
      BY <1>3, <2>3 DEF CR!Edited
    <3>2. \A q \in p.remotes : q.url # ask.url
      BY <2>3 DEF CR!Known
    <3> HIDE DEF r, e
    <3>3. e \in CR!Projects /\ e.remotes = p.remotes \cup {r}
      BY <3>1, <2>1, <1>0 DEF CR!Projects
    <3>4. UrlsDistinct(e)
      BY <3>3, <3>2, <2>1, <1>0 DEF UrlsDistinct
    <3>5. CR!Registered(p) \subseteq CR!Registered(e)
      BY <3>3, <1>0 DEF CR!Registered, CR!Scanned
    <3> QED
      BY <3>3, <3>4, <3>5 DEF e
  <2> QED
    BY <2>2, <2>3
<1>4. CASE ask.op = "removeRemote"
  <2>1. e = [p EXCEPT !.remotes = {r \in p.remotes : r.id # ask.id}]
    BY <1>4 DEF CR!Edited
  <2>2. e \in CR!Projects /\ e.remotes = {r \in p.remotes : r.id # ask.id}
    BY <2>1, <1>0 DEF CR!Projects
  <2> HIDE DEF e
  <2>3. UrlsDistinct(e)
    BY <2>2, <1>0 DEF UrlsDistinct
  <2>4. CR!Registered(p) \ CR!Registered(e) \subseteq {ask.id}
    BY <2>2, <1>0 DEF CR!Registered, CR!Scanned
  <2> QED
    BY <2>2, <2>3, <2>4, <1>4 DEF e
<1>5. CASE ask.op \in {"run", "clone"}
  <2>1. e = p
    BY <1>5 DEF CR!Edited
  <2> QED
    BY <2>1, <1>5
<1>6. ask.op \in {"seed", "run", "addRoot", "removeRoot", "addRemote", "removeRemote", "clone"}
  BY DEF CR!Requests
<1> QED
  BY <1>1, <1>2, <1>3, <1>4, <1>5, <1>6

(* A handler at rest.                                                        *)
LEMMA RootingRest == CR!Rest \in CR!JobStates /\ CR!Rest.pc = "done"
<1>1. None \in CR!Projects \cup {None} /\ {} \in SUBSET CR!Ids
  OBVIOUS
<1> QED
  BY <1>1 DEF CR!Rest, CR!Handler, CR!JobStates

(* No project, and nothing cloned.                                           *)
LEMMA RootsBegin ==
  ASSUME CR!Scanned, CR!Init
  PROVE  RootsOrderly
<1>1. rootProject \in CR!Projects /\ rootProject = rootSerial /\ home = TRUE
      /\ rootProject.remotes = {} /\ rootProject # None
  BY DEF CR!Init, CR!Projects, CR!Scanned
<1>2. \A j \in StoreJobs : rootJob[j] = CR!Rest /\ rootJob[j].pc = "done"
  BY RootingRest DEF CR!Init
<1>3. \A i \in CR!Ids : rootDisk[i] = "absent"
  BY DEF CR!Init
<1>4. CR!TypeOK
  <2>1. rootProject \in CR!Projects \cup {None} /\ rootSerial \in CR!Projects \cup {None}
    BY <1>1
  <2>2. rootStarted \in 0..StoreStarts
    BY DEF CR!Init, CR!Scanned
  <2>3. rootDisk \in [CR!Ids -> {"absent", "partial", "whole"}]
    BY DEF CR!Init
  <2>4. rootJob \in [StoreJobs -> CR!JobStates]
    BY RootingRest DEF CR!Init
  <2> QED
    BY <1>1, <2>1, <2>2, <2>3, <2>4 DEF CR!Init, CR!TypeOK
<1>5. UrlsDistinct(rootProject) /\ UrlsDistinct(rootSerial)
  BY <1>1 DEF UrlsDistinct
<1>6. \A j \in StoreJobs : RootingPending(j)
  BY <1>2 DEF RootingPending
<1>7. OneRooting /\ RootsInTurn /\ HalfClones
  BY <1>1, <1>2, <1>3 DEF OneRooting, RootsInTurn, HalfClones, Rooting
<1>8. CR!ReadyIsWhole
  BY DEF CR!Init, CR!ReadyIsWhole
<1> QED
  BY <1>4, <1>5, <1>6, <1>7, <1>8 DEF RootsOrderly

(* A handler reads the project.                                              *)
LEMMA RootsAsked ==
  ASSUME CR!Scanned, RootsOrderly, NEW j \in StoreJobs, NEW ask \in CR!Requests, CR!Start(j, ask)
  PROVE  RootsOrderly'
<1> DEFINE id == rootStarted + 1
           edit == CR!Edited(ask, rootProject, id)
           visits == IF ask.op = "run" THEN CR!Registered(rootProject) ELSE {ask.id}
           q == CASE ask.op \in {"run", "clone"} -> CR!Handler("clones", ask, None, visits)
                  [] edit # rootProject -> CR!Handler("write", ask, edit, {})
                  [] OTHER -> CR!Rest
<1>1. /\ rootJob[j].pc = "done" /\ rootStarted < StoreStarts /\ rootProject # None
         /\ rootStarted' = id
      /\ ask.op \in {"clone", "removeRemote"} => ask.id \in CR!Registered(rootProject)
      /\ rootJob' = [rootJob EXCEPT ![j] = q]
      /\ rootSerial' = IF rootSerial = None THEN None ELSE CR!Edited(ask, rootSerial, id)
      /\ rootOverlapped' = (rootOverlapped \/ \E k \in StoreJobs : rootJob[k].pc # "done")
      /\ ready' = (IF ask.op = "run" THEN {} ELSE ready)
      /\ UNCHANGED <<rootProject, home, rootDisk, broken>>
  BY DEF CR!Start
<1>2. CR!TypeOK /\ UrlsDistinct(rootProject) /\ UrlsDistinct(rootSerial) /\ id \in CR!Ids
      /\ rootProject \in CR!Projects
  BY <1>1 DEF RootsOrderly, CR!TypeOK, CR!Scanned, CR!Ids
<1>3. /\ edit \in CR!Projects /\ UrlsDistinct(edit)
      /\ CR!Registered(rootProject) \ CR!Registered(edit) \subseteq
           (IF ask.op = "removeRemote" THEN {ask.id} ELSE {})
  BY <1>2, ProjectEdited
<1>4. rootSerial' \in CR!Projects \cup {None} /\ UrlsDistinct(rootSerial')
  <2>1. CASE rootSerial = None
    BY <2>1, <1>1 DEF UrlsDistinct
  <2>2. CASE rootSerial # None
    <3>1. rootSerial \in CR!Projects
      BY <2>2, <1>2 DEF CR!TypeOK
    <3> QED
      BY <3>1, <2>2, <1>1, <1>2, ProjectEdited
  <2> QED
    BY <2>1, <2>2
<1>5. CR!Registered(rootProject) \subseteq CR!Ids
  BY <1>2 DEF CR!Registered, CR!Projects, CR!Remotes, CR!Scanned
<1>6. visits \subseteq CR!Registered(rootProject) \/ ask.op \notin {"run", "clone"}
  BY <1>1
<1>7. \/ ask.op \in {"run", "clone"}
         /\ q = [pc |-> "clones", ask |-> ask, edit |-> None, left |-> visits, at |-> 0]
      \/ ask.op \notin {"run", "clone"} /\ edit # rootProject
         /\ q = [pc |-> "write", ask |-> ask, edit |-> edit, left |-> {}, at |-> 0]
      \/ ask.op \notin {"run", "clone"} /\ edit = rootProject /\ q = CR!Rest
  <2>0. ask.op \in {"run", "clone"} => edit = rootProject
    BY DEF CR!Edited
  <2> HIDE DEF edit, visits, id
  <2>1. CASE ask.op \in {"run", "clone"}
    BY <2>0, <2>1 DEF CR!Handler
  <2>2. CASE ask.op \notin {"run", "clone"} /\ edit # rootProject
    BY <2>2 DEF CR!Handler
  <2>3. CASE ask.op \notin {"run", "clone"} /\ edit = rootProject
    BY <2>3
  <2> QED
    BY <2>1, <2>2, <2>3
<1> HIDE DEF id, edit, visits, q
<1>8. q \in CR!JobStates
  <2>1. None \in CR!Projects \cup {None} /\ {} \in SUBSET CR!Ids /\ 0 \in CR!Ids \cup {0}
    OBVIOUS
  <2>2. ask \in CR!Requests \cup {[op |-> "none"]} /\ edit \in CR!Projects \cup {None}
    BY <1>3
  <2>3. visits \in SUBSET CR!Ids \/ ask.op \notin {"run", "clone"}
    BY <1>5, <1>6
  <2> QED
    BY <1>7, <2>1, <2>2, <2>3, RootingRest DEF CR!JobStates
<1>9. /\ rootJob'[j] = q /\ \A k \in StoreJobs \ {j} : rootJob'[k] = rootJob[k]
      /\ rootJob' \in [StoreJobs -> CR!JobStates]
  BY <1>1, <1>2, <1>8 DEF CR!TypeOK
<1>10. CR!TypeOK'
  BY <1>1, <1>2, <1>4, <1>9 DEF CR!TypeOK, CR!Ids, CR!Scanned
<1>11. UrlsDistinct(rootProject)' /\ UrlsDistinct(rootSerial)'
  BY <1>1, <1>2, <1>4 DEF UrlsDistinct
<1>12. ASSUME NEW k \in StoreJobs PROVE RootingPending(k)'
  <2>1. CASE k = j
    <3>1. ask.op = "removeRemote" => ask.id \in CR!Ids
      BY <1>1, <1>5
    <3> QED
      BY <2>1, <3>1, <1>7, <1>9, <1>3, RootingRest DEF RootingPending, UrlsDistinct
  <2>2. CASE k # j
    BY <2>2, <1>9 DEF RootingPending, RootsOrderly, UrlsDistinct
  <2> QED
    BY <2>1, <2>2
<1>13. ~rootOverlapped' => ~rootOverlapped /\ \A k \in StoreJobs : rootJob[k].pc = "done"
  BY <1>1 DEF CR!TypeOK
<1>14. OneRooting'
  BY <1>9, <1>13 DEF OneRooting, Rooting
<1>15. RootsInTurn'
  <2> SUFFICES ASSUME ~rootOverlapped' PROVE RootsInTurn'
    BY DEF RootsInTurn
  <2>1. ~rootOverlapped /\ \A k \in StoreJobs : rootJob[k].pc = "done"
    BY <1>13
  <2>2. /\ home <=> rootProject # None
        /\ rootProject = rootSerial
        /\ \A i \in CR!Ids : rootDisk[i] # "absent" => i \in CR!Registered(rootProject)
    BY <2>1 DEF RootsOrderly, RootsInTurn, Rooting
  <2>3. home' = home /\ rootProject' = rootProject /\ rootDisk' = rootDisk
        /\ CR!Registered(rootProject)' = CR!Registered(rootProject)
           /\ CR!Registered(rootProject') = CR!Registered(rootProject)
    BY <1>1 DEF CR!Registered
  <2>4. rootSerial' = edit
    BY <1>1, <2>2 DEF edit
  <2>5. \A k \in StoreJobs : Rooting(k)' => k = j
    BY <1>9, <2>1 DEF Rooting
  <2>6. Rooting(j)' => RootingInTurn(j)'
    <3>1. CASE ask.op \in {"run", "clone"}
      <4>1. rootJob'[j].pc = "clones" /\ rootJob'[j].left = visits
        BY <3>1, <1>7, <1>9
      <4>2. edit = rootProject
        BY <3>1 DEF edit, CR!Edited
      <4> QED
        BY <4>1, <4>2, <2>3, <2>4, <1>6, <3>1 DEF RootingInTurn
    <3>2. CASE ask.op \notin {"run", "clone"} /\ edit # rootProject
      <4>1. rootJob'[j].pc = "write" /\ rootJob'[j].edit = edit /\ rootJob'[j].ask = ask
        BY <3>2, <1>7, <1>9
      <4>2. CR!Registered(rootJob'[j].edit) = CR!Registered(edit)
            /\ CR!Registered(rootJob[j].edit)' = CR!Registered(edit)
        BY <4>1 DEF CR!Registered
      <4>3. home'
        BY <1>1, <2>2
      <4> QED
        BY <4>1, <4>2, <4>3, <2>3, <2>4, <1>3 DEF RootingInTurn
    <3>3. CASE ask.op \notin {"run", "clone"} /\ edit = rootProject
      BY <3>3, <1>7, <1>9, RootingRest DEF Rooting
    <3> QED
      BY <3>1, <3>2, <3>3
  <2>7. ~Rooting(j)' => edit = rootProject
    BY <1>7, <1>9, RootingRest DEF Rooting, edit, CR!Edited
  <2>8. (\A k \in StoreJobs : ~Rooting(k)') => rootProject' = rootSerial'
    BY <2>7, <2>3, <2>4
  <2>9. home' <=> rootProject' # None
    BY <1>1, <2>2
  <2>10. \A i \in CR!Ids : rootDisk'[i] # "absent" => i \in CR!Registered(rootProject)'
    BY <2>2, <2>3
  <2> QED
    BY <2>5, <2>6, <2>8, <2>9, <2>10 DEF RootsInTurn
<1>16. HalfClones'
  <2>1. \A i : Cloning(i) => Cloning(i)'
    BY <1>1, <1>9 DEF Cloning
  <2> QED
    BY <2>1, <1>1 DEF HalfClones, RootsOrderly
<1>17. CR!ReadyIsWhole'
  BY <1>1 DEF CR!ReadyIsWhole, RootsOrderly
<1> QED
  BY <1>10, <1>11, <1>12, <1>14, <1>15, <1>16, <1>17 DEF RootsOrderly

(* It writes the project.                                                    *)
LEMMA ProjectWritten ==
  ASSUME CR!Scanned, RootsOrderly, NEW j \in StoreJobs, CR!WriteProject(j)
  PROVE  RootsOrderly'
<1> DEFINE q == rootJob'[j]
<1>1. /\ rootJob[j].pc = "write" /\ rootProject' = (IF home THEN rootJob[j].edit ELSE rootProject)
      /\ UNCHANGED <<home, rootDisk, rootStarted, ready, rootSerial, rootOverlapped, broken>>
      /\ CR!TypeOK /\ rootJob[j] \in CR!JobStates /\ RootingPending(j)
  BY DEF CR!WriteProject, RootsOrderly, CR!TypeOK
<1>2. /\ rootJob' = [rootJob EXCEPT ![j] = q] /\ \A k \in StoreJobs \ {j} : rootJob'[k] = rootJob[k]
      /\ q = (IF home /\ rootJob[j].ask.op = "removeRemote"
              THEN [rootJob[j] EXCEPT !.pc = "remove"]
              ELSE CR!Rest)
  BY <1>1 DEF CR!WriteProject, CR!TypeOK
<1> HIDE DEF q
<1>3. \/ /\ home /\ rootJob[j].ask.op = "removeRemote" /\ q \in CR!JobStates
         /\ q.pc = "remove" /\ q.ask = rootJob[j].ask /\ q.left = rootJob[j].left
      \/ ~(home /\ rootJob[j].ask.op = "removeRemote") /\ q = CR!Rest
  BY <1>1, <1>2 DEF CR!JobStates
<1>4. q \in CR!JobStates /\ rootJob' \in [StoreJobs -> CR!JobStates]
  BY <1>1, <1>2, <1>3, RootingRest DEF CR!TypeOK
<1>5. rootJob[j].edit \in CR!Projects /\ UrlsDistinct(rootJob[j].edit) /\ rootJob[j].edit # None
  BY <1>1 DEF RootingPending, CR!Scanned
<1>6. CR!TypeOK' /\ UrlsDistinct(rootProject)' /\ UrlsDistinct(rootSerial)'
  BY <1>1, <1>4, <1>5 DEF CR!TypeOK, UrlsDistinct, RootsOrderly
<1>7. ASSUME NEW k \in StoreJobs PROVE RootingPending(k)'
  <2>1. CASE k = j
    BY <2>1, <1>1, <1>3, <1>2, RootingRest DEF RootingPending, q
  <2>2. CASE k # j
    BY <2>2, <1>2 DEF RootingPending, RootsOrderly, UrlsDistinct
  <2> QED
    BY <2>1, <2>2
<1>8. \A k \in StoreJobs : Rooting(k)' => Rooting(k)
  BY <1>1, <1>2, <1>3, RootingRest DEF Rooting, q
<1>9. OneRooting'
  BY <1>1, <1>8 DEF OneRooting, RootsOrderly
<1>10. RootsInTurn'
  <2> SUFFICES ASSUME ~rootOverlapped' PROVE RootsInTurn'
    BY DEF RootsInTurn
  <2>1. /\ ~rootOverlapped /\ (home <=> rootProject # None) /\ Rooting(j) /\ RootingInTurn(j)
        /\ \A k \in StoreJobs : Rooting(k) => k = j
    BY <1>1 DEF RootsOrderly, RootsInTurn, OneRooting, Rooting
  <2>2. home /\ rootJob[j].edit = rootSerial /\ rootProject' = rootSerial' /\ home'
        /\ rootProject' # None
    BY <2>1, <1>1, <1>5 DEF RootingInTurn
  <2>3. CR!Registered(rootProject) \ CR!Registered(rootProject') \subseteq
          (IF rootJob[j].ask.op = "removeRemote" THEN {rootJob[j].ask.id} ELSE {})
    BY <2>1, <2>2, <1>1 DEF RootingInTurn
  <2>4. CR!Registered(rootProject)' = CR!Registered(rootProject')
    BY DEF CR!Registered
  <2>5. \A k \in StoreJobs : Rooting(k)' => k = j /\ q.pc = "remove"
    BY <2>1, <1>8, <1>3, RootingRest DEF Rooting, q
  <2>6. \A k \in StoreJobs : Rooting(k)' => RootingInTurn(k)'
    BY <2>2, <2>5, <1>3 DEF RootingInTurn, q
  <2>7. ASSUME NEW i \in CR!Ids, rootDisk'[i] # "absent"
        PROVE  \/ i \in CR!Registered(rootProject)'
               \/ \E k \in StoreJobs : rootJob'[k].pc = "remove" /\ rootJob'[k].ask.id = i
    <3>1. \/ i \in CR!Registered(rootProject)
          \/ \E k \in StoreJobs : rootJob[k].pc = "remove" /\ rootJob[k].ask.id = i
      BY <2>7, <2>1, <1>1 DEF RootsOrderly, RootsInTurn
    <3>2. ~\E k \in StoreJobs : rootJob[k].pc = "remove"
      BY <2>1, <1>1 DEF Rooting
    <3>3. CASE i \in CR!Registered(rootProject')
      BY <3>3, <2>4
    <3>4. CASE i \notin CR!Registered(rootProject')
      <4>1. rootJob[j].ask.op = "removeRemote" /\ rootJob[j].ask.id = i
        BY <3>1, <3>2, <3>4, <2>3
      <4> QED
        BY <4>1, <2>2, <1>3 DEF q
    <3> QED
      BY <3>3, <3>4
  <2> QED
    BY <2>2, <2>6, <2>7 DEF RootsInTurn
<1>11. HalfClones' /\ CR!ReadyIsWhole'
  <2>1. \A i : Cloning(i) => Cloning(i)'
    BY <1>1, <1>2 DEF Cloning
  <2> QED
    BY <2>1, <1>1 DEF HalfClones, CR!ReadyIsWhole, RootsOrderly
<1> QED
  BY <1>6, <1>7, <1>9, <1>10, <1>11 DEF RootsOrderly

(* It removes the clone of the remote it dropped.                            *)
LEMMA CloneRemoved ==
  ASSUME CR!Scanned, RootsOrderly, NEW j \in StoreJobs, CR!RemoveClone(j)
  PROVE  RootsOrderly'
<1>1. /\ rootJob[j].pc = "remove" /\ rootDisk' = [rootDisk EXCEPT ![rootJob[j].ask.id] = "absent"]
      /\ rootJob' = [rootJob EXCEPT ![j] = CR!Rest]
      /\ UNCHANGED <<rootProject, home, rootStarted, ready, rootSerial, rootOverlapped, broken>>
      /\ CR!TypeOK /\ RootingPending(j)
  BY DEF CR!RemoveClone, RootsOrderly
<1>2. rootJob' \in [StoreJobs -> CR!JobStates] /\ rootJob'[j] = CR!Rest
      /\ \A k \in StoreJobs \ {j} : rootJob'[k] = rootJob[k]
  BY <1>1, RootingRest DEF CR!TypeOK
<1>3. CR!TypeOK' /\ UrlsDistinct(rootProject)' /\ UrlsDistinct(rootSerial)'
  BY <1>1, <1>2 DEF CR!TypeOK, UrlsDistinct, RootsOrderly
<1>4. \A k \in StoreJobs : RootingPending(k)'
  BY <1>1, <1>2, RootingRest DEF RootingPending, UrlsDistinct, RootsOrderly
<1>5. \A k \in StoreJobs : Rooting(k)' => Rooting(k) /\ k # j
  BY <1>2, RootingRest DEF Rooting
<1>6. OneRooting'
  BY <1>1, <1>5 DEF OneRooting, RootsOrderly
<1>7. RootsInTurn'
  <2> SUFFICES ASSUME ~rootOverlapped' PROVE RootsInTurn'
    BY DEF RootsInTurn
  <2>1. /\ ~rootOverlapped /\ (home <=> rootProject # None) /\ Rooting(j) /\ RootingInTurn(j)
        /\ \A k \in StoreJobs : Rooting(k) => k = j
    BY <1>1 DEF RootsOrderly, RootsInTurn, OneRooting, Rooting
  <2>2. rootProject' = rootSerial'
    BY <2>1, <1>1 DEF RootingInTurn
  <2>3. \A k \in StoreJobs : ~Rooting(k)'
    BY <2>1, <1>5
  <2>4. ASSUME NEW i \in CR!Ids, rootDisk'[i] # "absent" PROVE i \in CR!Registered(rootProject)'
    <3>1. i # rootJob[j].ask.id /\ rootDisk[i] # "absent"
      BY <2>4, <1>1 DEF CR!TypeOK, RootingPending
    <3>2. ~\E k \in StoreJobs : rootJob[k].pc = "remove" /\ rootJob[k].ask.id = i
      BY <3>1, <2>1 DEF Rooting
    <3>3. i \in CR!Registered(rootProject)
      BY <3>1, <3>2, <2>1 DEF RootsOrderly, RootsInTurn
    <3> QED
      BY <3>3, <1>1 DEF CR!Registered
  <2> QED
    BY <2>1, <2>2, <2>3, <2>4, <1>1 DEF RootsInTurn
<1>8. HalfClones' /\ CR!ReadyIsWhole'
  <2>1. \A i : Cloning(i) => Cloning(i)'
    BY <1>1, <1>2 DEF Cloning
  <2>2. \A i \in CR!Ids : rootDisk'[i] = "partial" => rootDisk[i] = "partial"
    BY <1>1 DEF CR!TypeOK
  <2> QED
    BY <2>1, <2>2, <1>1 DEF HalfClones, CR!ReadyIsWhole, RootsOrderly
<1> QED
  BY <1>3, <1>4, <1>6, <1>7, <1>8 DEF RootsOrderly

(* It fails to.                                                              *)
LEMMA CloneLeft ==
  ASSUME CR!Scanned, RootsOrderly, NEW j \in StoreJobs, CR!Leave(j)
  PROVE  RootsOrderly'
<1>1. /\ rootJob[j].pc = "clones" /\ rootJob' = [rootJob EXCEPT ![j] = CR!Rest]
      /\ UNCHANGED <<rootProject, home, rootDisk, rootStarted, ready,
                    rootSerial, rootOverlapped, broken>>
      /\ CR!TypeOK
  BY DEF CR!Leave, RootsOrderly
<1>2. rootJob' \in [StoreJobs -> CR!JobStates] /\ rootJob'[j] = CR!Rest
      /\ \A k \in StoreJobs \ {j} : rootJob'[k] = rootJob[k]
  BY <1>1, RootingRest DEF CR!TypeOK
<1>3. CR!TypeOK' /\ UrlsDistinct(rootProject)' /\ UrlsDistinct(rootSerial)'
  BY <1>1, <1>2 DEF CR!TypeOK, UrlsDistinct, RootsOrderly
<1>4. \A k \in StoreJobs : RootingPending(k)'
  BY <1>1, <1>2, RootingRest DEF RootingPending, UrlsDistinct, RootsOrderly
<1>5. \A k \in StoreJobs : Rooting(k)' => Rooting(k) /\ k # j
  BY <1>2, RootingRest DEF Rooting
<1>6. OneRooting'
  BY <1>1, <1>5 DEF OneRooting, RootsOrderly
<1>7. RootsInTurn'
  <2> SUFFICES ASSUME ~rootOverlapped' PROVE RootsInTurn'
    BY DEF RootsInTurn
  <2>1. /\ ~rootOverlapped /\ (home <=> rootProject # None) /\ Rooting(j) /\ RootingInTurn(j)
        /\ \A k \in StoreJobs : Rooting(k) => k = j
    BY <1>1 DEF RootsOrderly, RootsInTurn, OneRooting, Rooting
  <2>2. rootProject' = rootSerial'
    BY <2>1, <1>1 DEF RootingInTurn
  <2>3. \A k \in StoreJobs : ~Rooting(k)'
    BY <2>1, <1>5
  <2>4. ASSUME NEW i \in CR!Ids, rootDisk'[i] # "absent" PROVE i \in CR!Registered(rootProject)'
    <3>1. ~\E k \in StoreJobs : rootJob[k].pc = "remove" /\ rootJob[k].ask.id = i
      BY <2>1, <1>1 DEF Rooting
    <3>2. i \in CR!Registered(rootProject)
      BY <2>4, <3>1, <2>1, <1>1 DEF RootsOrderly, RootsInTurn
    <3> QED
      BY <3>2, <1>1 DEF CR!Registered
  <2> QED
    BY <2>1, <2>2, <2>3, <2>4, <1>1 DEF RootsInTurn
<1>8. HalfClones' /\ CR!ReadyIsWhole'
  <2>1. \A i : Cloning(i) => Cloning(i)'
    BY <1>1, <1>2 DEF Cloning
  <2> QED
    BY <2>1, <1>1 DEF HalfClones, CR!ReadyIsWhole, RootsOrderly
<1> QED
  BY <1>3, <1>4, <1>6, <1>7, <1>8 DEF RootsOrderly

(* The project is deleted.                                                   *)
LEMMA ProjectDeleted ==
  ASSUME CR!Scanned, RootsOrderly, CR!Delete
  PROVE  RootsOrderly'
<1>1. /\ rootProject' = None /\ rootSerial' = None /\ home' = FALSE
         /\ rootDisk' = [i \in CR!Ids |-> "absent"]
      /\ rootOverlapped' = (rootOverlapped \/ \E j \in StoreJobs : rootJob[j].pc # "done")
      /\ UNCHANGED <<rootJob, rootStarted, ready, broken>> /\ CR!TypeOK
  BY DEF CR!Delete, RootsOrderly
<1>2. CR!TypeOK' /\ UrlsDistinct(rootProject)' /\ UrlsDistinct(rootSerial)'
  BY <1>1 DEF CR!TypeOK, UrlsDistinct
<1>3. \A k \in StoreJobs : RootingPending(k)'
  BY <1>1 DEF RootingPending, UrlsDistinct, RootsOrderly
<1>4. ~rootOverlapped' => ~rootOverlapped /\ \A k \in StoreJobs : ~Rooting(k)'
  BY <1>1 DEF Rooting, CR!TypeOK
<1>5. OneRooting' /\ RootsInTurn'
  BY <1>1, <1>4 DEF OneRooting, RootsInTurn
<1>6. HalfClones' /\ CR!ReadyIsWhole'
  BY <1>1 DEF HalfClones, CR!ReadyIsWhole, RootsOrderly
<1> QED
  BY <1>2, <1>3, <1>5, <1>6 DEF RootsOrderly

(* It comes to the next remote, cloned or not.                               *)
LEMMA RemoteVisited ==
  ASSUME CR!Scanned, RootsOrderly, NEW j \in StoreJobs, CR!Visit(j)
  PROVE  RootsOrderly'
<1> DEFINE i == CHOOSE k \in rootJob[j].left : \A l \in rootJob[j].left : k <= l
           absent == rootDisk[i] = "absent"
           q == rootJob'[j]
<1>1. /\ rootJob[j].pc = "clones" /\ rootJob[j].left # {} /\ CR!TypeOK
         /\ rootJob[j] \in CR!JobStates
      /\ rootJob[j].left \subseteq CR!Ids
      /\ UNCHANGED <<rootProject, rootStarted, rootSerial, rootOverlapped>>
  BY DEF CR!Visit, RootsOrderly, CR!TypeOK, CR!JobStates
<1>2. i \in rootJob[j].left
  <2>1. \E k \in rootJob[j].left : \A l \in rootJob[j].left : k <= l
    BY <1>1, LeastExists DEF CR!Ids, CR!Scanned
  <2> QED
    BY <2>1
<1>3. /\ rootJob' = [rootJob EXCEPT ![j].left = @ \ {i}, ![j].at = i,
                                    ![j].pc = IF absent THEN "cloning" ELSE @]
      /\ rootDisk' = [rootDisk EXCEPT ![i] = IF absent THEN "partial" ELSE @]
      /\ home' = (home \/ absent)
      /\ ready' = (IF absent THEN ready ELSE CR!Took(j, i, rootDisk[i]))
      /\ broken' = (IF \E k \in StoreJobs : rootJob[k].pc = "cloning" /\ rootJob[k].at = i
                    THEN broken \cup {i} ELSE broken)
  BY DEF CR!Visit
<1> HIDE DEF i, absent, q
<1>4. /\ rootJob' = [rootJob EXCEPT ![j] = q] /\ \A k \in StoreJobs \ {j} : rootJob'[k] = rootJob[k]
      /\ q \in CR!JobStates /\ q.left = rootJob[j].left \ {i} /\ q.at = i
      /\ q.pc = (IF absent THEN "cloning" ELSE "clones") /\ q.ask = rootJob[j].ask
  BY <1>1, <1>2, <1>3 DEF CR!TypeOK, CR!JobStates, q
<1>5. i \in CR!Ids /\ rootDisk' \in [CR!Ids -> {"absent", "partial", "whole"}]
      /\ broken' \subseteq CR!Ids
      /\ home' \in BOOLEAN
  BY <1>1, <1>2, <1>3 DEF CR!TypeOK
<1>6. ready' \subseteq ready \cup {[id |-> i, state |-> rootDisk[i]]}
      /\ (absent => ready' = ready)
  BY <1>3 DEF CR!Took
<1>7. ready' \subseteq [id : CR!Ids, state : {"partial", "whole"}]
  <2>1. CASE absent
    BY <2>1, <1>6, <1>1 DEF CR!TypeOK
  <2>2. CASE ~absent
    <3>1. rootDisk[i] \in {"partial", "whole"}
      BY <2>2, <1>5, <1>1 DEF absent, CR!TypeOK
    <3> QED
      BY <3>1, <1>5, <1>6, <1>1 DEF CR!TypeOK
  <2> QED
    BY <2>1, <2>2
<1>8. rootJob' \in [StoreJobs -> CR!JobStates]
  BY <1>1, <1>4 DEF CR!TypeOK
<1>9. CR!TypeOK' /\ UrlsDistinct(rootProject)' /\ UrlsDistinct(rootSerial)'
  BY <1>1, <1>5, <1>7, <1>8 DEF CR!TypeOK, UrlsDistinct, RootsOrderly
<1>10. ASSUME NEW k \in StoreJobs PROVE RootingPending(k)'
  <2>1. CASE k = j
    BY <2>1, <1>4, <1>5 DEF RootingPending, q
  <2>2. CASE k # j
    BY <2>2, <1>4 DEF RootingPending, RootsOrderly, UrlsDistinct
  <2> QED
    BY <2>1, <2>2
<1>11. \A k \in StoreJobs : Rooting(k)' => Rooting(k)
  BY <1>1, <1>4 DEF Rooting
<1>12. OneRooting'
  BY <1>1, <1>11 DEF OneRooting, RootsOrderly
<1>13. RootsInTurn'
  <2> SUFFICES ASSUME ~rootOverlapped' PROVE RootsInTurn'
    BY DEF RootsInTurn
  <2>1. /\ ~rootOverlapped /\ (home <=> rootProject # None) /\ Rooting(j) /\ RootingInTurn(j)
        /\ \A k \in StoreJobs : Rooting(k) => k = j
    BY <1>1 DEF RootsOrderly, RootsInTurn, OneRooting, Rooting
  <2>2. rootProject' = rootSerial' /\ rootJob[j].left \subseteq CR!Registered(rootProject)
    BY <2>1, <1>1 DEF RootingInTurn
  <2>3. CR!Registered(rootProject)' = CR!Registered(rootProject) /\ i \in CR!Registered(rootProject)
        /\ rootProject # None
    BY <2>2, <1>1, <1>2 DEF CR!Registered
  <2>4. Rooting(j)' /\ RootingInTurn(j)'
    BY <1>4, <2>2, <2>3 DEF Rooting, RootingInTurn, q
  <2>5. \A k \in StoreJobs : Rooting(k)' => RootingInTurn(k)'
    BY <2>4, <2>1, <1>11
  <2>6. home' <=> rootProject' # None
    BY <2>1, <2>3, <1>1, <1>3
  <2>7. ASSUME NEW x \in CR!Ids, rootDisk'[x] # "absent" PROVE x \in CR!Registered(rootProject)'
    <3>1. CASE x = i
      BY <3>1, <2>3
    <3>2. CASE x # i
      <4>1. rootDisk[x] # "absent"
        BY <3>2, <2>7, <1>3, <1>1 DEF CR!TypeOK
      <4>2. ~\E k \in StoreJobs : rootJob[k].pc = "remove" /\ rootJob[k].ask.id = x
        BY <2>1, <1>1 DEF Rooting
      <4> QED
        BY <4>1, <4>2, <2>1, <2>3 DEF RootsOrderly, RootsInTurn
    <3> QED
      BY <3>1, <3>2
  <2>8. ~(\A k \in StoreJobs : ~Rooting(k)')
    BY <2>4
  <2> QED
    BY <2>5, <2>6, <2>7, <2>8 DEF RootsInTurn
<1>14. broken \subseteq broken'
  BY <1>3
<1>15. HalfClones'
  <2> SUFFICES ASSUME NEW x \in CR!Ids, rootDisk'[x] = "partial" PROVE x \in broken' \/ Cloning(x)'
    BY DEF HalfClones
  <2>1. CASE x = i /\ absent
    BY <2>1, <1>4 DEF Cloning, q
  <2>2. CASE ~(x = i /\ absent)
    <3>1. rootDisk[x] = "partial"
      BY <2>2, <1>3, <1>1 DEF CR!TypeOK
    <3>2. x \in broken \/ Cloning(x)
      BY <3>1 DEF RootsOrderly, HalfClones
    <3>3. Cloning(x) => Cloning(x)'
      BY <1>1, <1>4 DEF Cloning
    <3> QED
      BY <3>2, <3>3, <1>14
  <2> QED
    BY <2>1, <2>2
<1>16. CR!ReadyIsWhole'
  <2> SUFFICES ASSUME NEW r \in ready' PROVE r.state = "whole" \/ r.id \in broken'
    BY DEF CR!ReadyIsWhole
  <2>1. CASE r \in ready
    BY <2>1, <1>14 DEF RootsOrderly, CR!ReadyIsWhole
  <2>2. CASE r = [id |-> i, state |-> rootDisk[i]] /\ ~absent
    <3>1. rootDisk[i] = "whole" \/ rootDisk[i] = "partial"
      BY <2>2, <1>5, <1>1 DEF absent, CR!TypeOK
    <3>2. CASE rootDisk[i] = "partial"
      <4>1. i \in broken \/ Cloning(i)
        BY <3>2, <1>5 DEF RootsOrderly, HalfClones
      <4> QED
        BY <4>1, <2>2, <1>3 DEF Cloning
    <3> QED
      BY <3>1, <3>2, <2>2
  <2> QED
    BY <2>1, <2>2, <1>6
<1> QED
  BY <1>9, <1>10, <1>12, <1>13, <1>15, <1>16 DEF RootsOrderly

(* A clone ends, whole, removed or left half-way.                            *)
LEMMA CloneEnded ==
  ASSUME CR!Scanned, RootsOrderly, NEW j \in StoreJobs, NEW how \in {"ok", "removed", "left"},
         CR!CloneEnds(j, how)
  PROVE  RootsOrderly'
<1> DEFINE i == rootJob[j].at
           q == rootJob'[j]
<1>1. /\ rootJob[j].pc = "cloning" /\ CR!TypeOK /\ rootJob[j] \in CR!JobStates /\ i \in CR!Ids
      /\ (how # "removed" => rootDisk[i] # "absent")
      /\ UNCHANGED <<rootProject, home, rootStarted, rootSerial, rootOverlapped>>
  BY DEF CR!CloneEnds, RootsOrderly, CR!TypeOK, RootingPending
<1>2. /\ rootJob' = [rootJob EXCEPT ![j].pc = "clones"]
      /\ rootDisk' = [rootDisk EXCEPT ![i] = CASE how = "ok" -> "whole"
                                             [] how = "removed" -> "absent"
                                             [] OTHER -> @]
      /\ broken' = (IF how = "left" THEN broken \cup {i} ELSE broken)
      /\ ready' = (IF how = "ok" THEN CR!Took(j, i, "whole") ELSE ready)
  BY DEF CR!CloneEnds
<1>3. \/ how = "ok" /\ rootDisk'[i] = "whole"
      \/ how = "removed" /\ rootDisk'[i] = "absent"
      \/ how = "left" /\ rootDisk'[i] = rootDisk[i] /\ rootDisk[i] # "absent" /\ i \in broken'
  BY <1>1, <1>2 DEF CR!TypeOK
<1>4. \A x \in CR!Ids \ {i} : rootDisk'[x] = rootDisk[x]
  BY <1>1, <1>2 DEF CR!TypeOK
<1>5. /\ rootJob' = [rootJob EXCEPT ![j] = q] /\ \A k \in StoreJobs \ {j} : rootJob'[k] = rootJob[k]
      /\ q \in CR!JobStates /\ q.left = rootJob[j].left /\ q.pc = "clones" /\ q.ask = rootJob[j].ask
  BY <1>1, <1>2 DEF CR!TypeOK, CR!JobStates
<1>6. rootDisk' \in [CR!Ids -> {"absent", "partial", "whole"}] /\ broken' \subseteq CR!Ids
      /\ broken \subseteq broken'
  <2>1. rootDisk'[i] \in {"absent", "partial", "whole"}
    BY <1>1, <1>3 DEF CR!TypeOK
  <2>2. rootDisk' = [rootDisk EXCEPT ![i] = rootDisk'[i]]
    BY <1>1, <1>2 DEF CR!TypeOK
  <2> QED
    BY <2>1, <2>2, <1>1, <1>2 DEF CR!TypeOK
<1>7. ready' \subseteq ready \cup {[id |-> i, state |-> "whole"]}
  BY <1>2 DEF CR!Took
<1> HIDE DEF i, q
<1>8. rootJob' \in [StoreJobs -> CR!JobStates]
  BY <1>1, <1>5 DEF CR!TypeOK
<1>9. CR!TypeOK' /\ UrlsDistinct(rootProject)' /\ UrlsDistinct(rootSerial)'
  BY <1>1, <1>6, <1>7, <1>8 DEF CR!TypeOK, UrlsDistinct, RootsOrderly
<1>10. ASSUME NEW k \in StoreJobs PROVE RootingPending(k)'
  <2>1. CASE k = j
    BY <2>1, <1>5 DEF RootingPending, q
  <2>2. CASE k # j
    BY <2>2, <1>5 DEF RootingPending, RootsOrderly, UrlsDistinct
  <2> QED
    BY <2>1, <2>2
<1>11. \A k \in StoreJobs : Rooting(k)' => Rooting(k)
  BY <1>1, <1>5 DEF Rooting
<1>12. OneRooting'
  BY <1>1, <1>11 DEF OneRooting, RootsOrderly
<1>13. RootsInTurn'
  <2> SUFFICES ASSUME ~rootOverlapped' PROVE RootsInTurn'
    BY DEF RootsInTurn
  <2>1. /\ ~rootOverlapped /\ (home <=> rootProject # None) /\ Rooting(j) /\ RootingInTurn(j)
        /\ \A k \in StoreJobs : Rooting(k) => k = j
    BY <1>1 DEF RootsOrderly, RootsInTurn, OneRooting, Rooting
  <2>2. rootProject' = rootSerial' /\ rootJob[j].left \cup {i} \subseteq CR!Registered(rootProject)
    BY <2>1, <1>1 DEF RootingInTurn, i
  <2>3. CR!Registered(rootProject)' = CR!Registered(rootProject)
    BY <1>1 DEF CR!Registered
  <2>4. Rooting(j)' /\ RootingInTurn(j)'
    BY <1>5, <2>2, <2>3 DEF Rooting, RootingInTurn, q
  <2>5. \A k \in StoreJobs : Rooting(k)' => RootingInTurn(k)'
    BY <2>4, <2>1, <1>11
  <2>7. ASSUME NEW x \in CR!Ids, rootDisk'[x] # "absent" PROVE x \in CR!Registered(rootProject)'
    <3>1. CASE x = i
      BY <3>1, <2>2, <2>3
    <3>2. CASE x # i
      <4>2. ~\E k \in StoreJobs : rootJob[k].pc = "remove" /\ rootJob[k].ask.id = x
        BY <2>1, <1>1 DEF Rooting
      <4> QED
        BY <3>2, <2>7, <1>4, <4>2, <2>1, <2>3 DEF RootsOrderly, RootsInTurn
    <3> QED
      BY <3>1, <3>2
  <2> QED
    BY <2>1, <2>4, <2>5, <2>7, <1>1 DEF RootsInTurn
<1>15. HalfClones'
  <2> SUFFICES ASSUME NEW x \in CR!Ids, rootDisk'[x] = "partial" PROVE x \in broken' \/ Cloning(x)'
    BY DEF HalfClones
  <2>1. CASE x = i
    BY <2>1, <1>3
  <2>2. CASE x # i
    <3>2. x \in broken \/ Cloning(x)
      BY <2>2, <1>4 DEF RootsOrderly, HalfClones
    <3>3. Cloning(x) => Cloning(x)'
      BY <2>2, <1>5 DEF Cloning, i
    <3> QED
      BY <3>2, <3>3, <1>6
  <2> QED
    BY <2>1, <2>2
<1>16. CR!ReadyIsWhole'
  BY <1>7, <1>6 DEF RootsOrderly, CR!ReadyIsWhole
<1> QED
  BY <1>9, <1>10, <1>12, <1>13, <1>15, <1>16 DEF RootsOrderly

(* Every step keeps the invariant of the code roots.                         *)
LEMMA RootsStep ==
  ASSUME CR!Scanned, RootsOrderly, [CR!Next]_(CR!vars)
  PROVE  RootsOrderly'
<1>1. CASE UNCHANGED CR!vars
  BY <1>1 DEF CR!vars, RootsOrderly, CR!TypeOK, UrlsDistinct, RootingPending, OneRooting,
     RootsInTurn, HalfClones,
              CR!ReadyIsWhole, RootingInTurn, CR!Registered, Rooting, Cloning
<1>2. CASE CR!Next
  BY <1>2, RootsAsked, ProjectWritten, CloneRemoved, RemoteVisited, CloneLeft,
     CloneEnded, ProjectDeleted DEF CR!Next
<1> QED
  BY <1>1, <1>2

(* For any directories, remotes and order of requests: a url is listed once, *)
(* only a whole clone is offered, and after handlers that ran one after the  *)
(* other no clone outlives its remote (codeRootsStorage.ts).                 *)
THEOREM RootsCorrect ==
  ASSUME CR!Scanned
  PROVE  CR!Spec => []CR!RootsSound
<1>1. CR!Init => RootsOrderly
  BY RootsBegin
<1>2. RootsOrderly /\ [CR!Next]_(CR!vars) => RootsOrderly'
  BY RootsStep
<1>3. RootsOrderly => CR!RootsSound
  <2> SUFFICES ASSUME RootsOrderly PROVE CR!RootsSound
    OBVIOUS
  <2>1. CR!ProjectKept
    <3> SUFFICES ASSUME ~rootOverlapped, \A j \in StoreJobs : rootJob[j].pc = "done"
                 PROVE  /\ rootProject = rootSerial
                        /\ rootProject # None =>
                             \A q, r \in rootProject.remotes : q.url = r.url => q = r
                        /\ \A i \in CR!Ids : rootDisk[i] # "absent" =>
                             i \in CR!Registered(rootProject)
      BY DEF CR!ProjectKept
    <3> QED
      BY DEF RootsOrderly, RootsInTurn, Rooting, UrlsDistinct
  <2> QED
    BY <2>1 DEF CR!RootsSound, RootsOrderly
<1> QED
  BY <1>1, <1>2, <1>3, PTL DEF CR!Spec
-----------------------------------------------------------------------------
(* Skills. A call empties a file before it writes it, and refreshes the page *)
(* at its end.                                                               *)

(* A call of the skills page.                                                *)
SkillRequests == [n : Nat, op : {"create", "edit", "delete"},
                  at : {"asked", "writing", "emptied", "saved", "listed", "failed"},
                  id : SK!Ids \cup {SK!New}, name : SkillNames, seen : SUBSET (SK!Ids \X SK!Skills)]

(* The file of i is emptied and not yet written.                             *)
SkillHole(i) == \E q \in skillAsked : q.at = "emptied" /\ q.id = i

(* A creation whose file is not written.                                     *)
SkillUnwritten(q) == q.op = "create" /\ q.at \in {"asked", "writing", "emptied"}

(* One call at a time.                                                       *)
OneSkillCall == skillAsked \subseteq SkillRequests /\ \A q, r \in skillAsked : q = r

(* A file holds a skill, but for the hole.                                   *)
SkillsStored ==
  /\ DOMAIN files = SK!Ids
  /\ \A i \in SK!Ids : ~SkillHole(i) => files[i] \in SK!Skills \cup {None}

(* The files are what was promised, and a skill has one file.                *)
SkillsPromised ==
  /\ promised \subseteq SK!Ids \X SK!Skills
  /\ \A i \in SK!Ids : ~SkillHole(i) /\ files[i] # None => <<i, files[i]>> \in promised
  /\ \A s \in promised : ~SkillHole(s[1]) => files[s[1]] = s[2]
  /\ \A s, t \in promised : s[1] = t[1] \/ s[2].origin = t[2].origin => s = t

(* The skills that were shown or mentioned.                                  *)
MentionsTold == mentions \cup {<<s[1], s[2].origin>> : s \in skillView}

(* A creation is younger than all there is.                                  *)
SkillsAged ==
  /\ \A s \in promised : s[2].origin <= skillAsks /\ \A q \in skillAsked : SkillUnwritten(q) =>
       s[2].origin < q.n
  /\ \A m \in MentionsTold : m[2] <= skillAsks /\ \A q \in skillAsked : SkillUnwritten(q) =>
       m[2] < q.n

(* A mention still leads to the skill it was made of, or to nothing.         *)
StandsFor(m) ==
  IF SkillHole(m[1]) THEN \A q \in skillAsked : \A new \in q.seen : new[2].origin = m[2]
  ELSE IF files[m[1]] = None THEN \A s \in promised : s[2].origin # m[2]
  ELSE files[m[1]].origin = m[2]

(* The page shows the files, or a call is about to refresh it.               *)
SkillsSeen ==
  /\ skillView \subseteq SK!Ids \X SK!Skills /\ mentions \subseteq SK!Ids \X Nat
  /\ (\A q \in skillAsked : q.at \in {"asked", "writing", "failed"}) => skillView = SK!Listed(files)
  /\ \A m \in MentionsTold : StandsFor(m)

(* What a call holds, and what it met.                                       *)
SkillPhase(q) ==
  /\ q.n \in 1..skillAsks
  /\ q.id = SK!New <=> q.op = "create" /\ q.at = "asked"
  /\ q.at = "failed" => q.op = "edit"
  /\ q.at = "writing" =>
       /\ q.op = "create" => files[q.id] = None /\ q.id[2] <= skillAsks
       /\ q.op = "edit" => files[q.id] # None
       /\ q.op # "delete" => \E new \in SK!Skills :
            /\ q.seen = {<<q.id, new>>}
            /\ new.origin = (IF q.op = "create" THEN q.n ELSE files[q.id].origin)
  /\ q.at = "emptied" =>
       /\ q.op # "delete" /\ q.id[2] <= skillAsks
       /\ \E new \in SK!Skills :
            /\ q.seen = {<<q.id, new>>}
            /\ q.op = "create" => new.origin = q.n /\ \A s \in promised : s[1] # q.id
            /\ q.op = "edit" => \E s \in promised : s[1] = q.id /\ s[2].origin = new.origin
  /\ q.at = "listed" => q.seen = SK!Listed(files)

(* Ids are made for as many calls as there were.                             *)
SkillsCounted ==
  /\ skillAsks \in 0..SkillCalls
  /\ \A i \in SK!Ids : files[i] # None => i[2] <= skillAsks
  /\ \A q \in skillAsked : q.op = "create" /\ q.at = "asked" =>
       \A i \in SK!Ids : files[i] # None => i[2] < skillAsks

(* The invariant of undisturbed calls.                                       *)
SkillsInTurn ==
  OneSkillCall /\ SkillsStored /\ SkillsPromised /\ SkillsAged /\ SkillsSeen
  /\ (\A q \in skillAsked : SkillPhase(q)) /\ SkillsCounted

(* The inductive invariant of the skills.                                    *)
SkillsOrderly == skillDisturbed \in BOOLEAN /\ (~skillDisturbed => SkillsInTurn)

(* What an id is made of.                                                    *)
LEMMA SkillIds ==
  ASSUME SK!Slugged
  PROVE  /\ SK!New \notin SK!Ids
         /\ \A i \in SK!Ids :
              i[1] \in SkillNames /\ i[2] \in 1..(SkillCalls + 1) /\ i = <<i[1], i[2]>>
  BY DEF SK!New, SK!Ids, SK!Slugged

(* No skills.                                                                *)
LEMMA SkillsBegin ==
  ASSUME SK!Slugged, SK!Init
  PROVE  SkillsOrderly
<1>1. files = [i \in SK!Ids |-> None] /\ skillAsked = {} /\ skillAsks = 0 /\ mentions = {}
      /\ promised = {} /\ skillView = {}
  BY DEF SK!Init
<1>2. OneSkillCall /\ SkillsStored /\ SkillsPromised /\ SkillsAged
      /\ (\A q \in skillAsked : SkillPhase(q))
  BY <1>1 DEF OneSkillCall, SkillsStored, SkillsPromised, SkillsAged, MentionsTold
<1>3. SK!Listed(files) = {}
  BY <1>1 DEF SK!Listed
<1>4. SkillsSeen
  BY <1>1, <1>3 DEF SkillsSeen, MentionsTold
<1>5. 0 \in 0..SkillCalls
  BY DEF SK!Slugged
<1>6. SkillsCounted
  BY <1>1, <1>5 DEF SkillsCounted
<1> QED
  BY <1>2, <1>4, <1>6 DEF SkillsOrderly, SkillsInTurn, SK!Init

(* Nothing of it changes.                                                    *)
LEMMA SkillsSame ==
  ASSUME SkillsInTurn, UNCHANGED <<files, skillView, skillAsked, skillAsks, mentions, promised>>
  PROVE  SkillsInTurn'
  BY DEF SkillsInTurn, OneSkillCall, SkillsStored, SkillsPromised, SkillsAged, MentionsTold,
     SkillsSeen, StandsFor, SkillPhase, SkillsCounted, SkillHole, SK!Listed

(* The call under way is the only one.                                       *)
LEMMA OneRequest ==
  ASSUME SkillsInTurn, NEW q \in skillAsked
  PROVE  skillAsked = {q} /\ q \in SkillRequests /\ SkillPhase(q)
  BY DEF SkillsInTurn, OneSkillCall

(* A call is made.                                                           *)
LEMMA SkillAsked ==
  ASSUME SK!Slugged, SkillsInTurn, ~skillDisturbed, ~skillDisturbed',
         NEW op \in {"create", "edit", "delete"}, NEW id \in SK!Ids \cup {SK!New},
         NEW name \in SkillNames,
         id = SK!New <=> op = "create",
         SK!Ask(op, id, name), UNCHANGED <<files, skillView, mentions, promised>>
  PROVE  SkillsInTurn'
<1> DEFINE r == SK!Call(skillAsks + 1, op, "asked", id, name, {})
<1>1. skillAsks < SkillCalls /\ skillAsks' = skillAsks + 1 /\ skillAsked = {} /\ skillAsked' = {r}
      /\ skillAsks \in 0..SkillCalls
  BY DEF SK!Ask, SkillsInTurn, SkillsCounted
<1>2. r \in SkillRequests
  BY <1>1 DEF SkillRequests, SK!Call, SK!Slugged
<1>3. r.n = skillAsks + 1 /\ r.op = op /\ r.at = "asked" /\ r.id = id
  BY DEF SK!Call
<1> HIDE DEF r
<1>4. OneSkillCall'
  BY <1>1, <1>2 DEF OneSkillCall
<1>5. \A i : ~SkillHole(i) /\ ~SkillHole(i)'
  BY <1>1, <1>3 DEF SkillHole
<1>6. SkillsStored' /\ SkillsPromised'
  BY <1>5 DEF SkillsInTurn, SkillsStored, SkillsPromised
<1>7. MentionsTold' = MentionsTold
  BY DEF MentionsTold
<1>8. SkillsAged'
  <2>1. (\A s \in promised : s[2].origin \in Nat) /\ (\A m \in MentionsTold : m[2] \in Nat)
    BY DEF SkillsInTurn, SkillsPromised, SkillsSeen, MentionsTold, SK!Skills
  <2>2. \A o \in Nat : o <= skillAsks => o <= skillAsks' /\ o < r.n
    BY <1>1, <1>3
  <2> QED
    BY <2>1, <2>2, <1>1, <1>7 DEF SkillsInTurn, SkillsAged
<1>9. SkillsSeen'
  <2>1. skillView = SK!Listed(files) /\ SK!Listed(files)' = SK!Listed(files)
    BY <1>1 DEF SkillsInTurn, SkillsSeen, SK!Listed
  <2>2. \A m \in MentionsTold : StandsFor(m)'
    BY <1>5, <1>7 DEF SkillsInTurn, SkillsSeen, StandsFor
  <2> QED
    BY <2>1, <2>2, <1>7 DEF SkillsInTurn, SkillsSeen
<1>10. \A q \in skillAsked' : SkillPhase(q)'
  <2>1. r.n \in 1..(skillAsks')
    BY <1>1, <1>3
  <2> QED
    BY <2>1, <1>1, <1>3 DEF SkillPhase
<1>11. SkillsCounted'
  <2>1. skillAsks' \in 0..SkillCalls
    BY <1>1 DEF SK!Slugged
  <2>2. \A i \in SK!Ids : files[i] # None => i[2] < skillAsks' /\ i[2] <= skillAsks'
    BY <1>1, SkillIds DEF SkillsInTurn, SkillsCounted, SK!Slugged
  <2> QED
    BY <2>1, <2>2 DEF SkillsCounted
<1> QED
  BY <1>4, <1>6, <1>8, <1>9, <1>10, <1>11 DEF SkillsInTurn

(* The page saves a skill.                                                   *)
LEMMA SaveAsked ==
  ASSUME SK!Slugged, SkillsInTurn, ~skillDisturbed, ~skillDisturbed', NEW name \in SkillNames,
         SK!SavesSkill(name)
  PROVE  SkillsInTurn'
<1>1. editing = SK!New \/ editing \in SK!Ids
  BY DEF SK!SavesSkill, SkillsInTurn, SkillsSeen
<1>2. SK!Ask(IF editing = SK!New THEN "create" ELSE "edit", editing, name)
      /\ UNCHANGED <<files, skillView, mentions, promised>>
  BY DEF SK!SavesSkill
<1>3. CASE editing = SK!New
  BY <1>2, <1>3, SkillAsked
<1>4. CASE editing # SK!New
  BY <1>1, <1>2, <1>4, SkillAsked
<1> QED
  BY <1>3, <1>4

(* It deletes one.                                                           *)
LEMMA DeleteAsked ==
  ASSUME SK!Slugged, SkillsInTurn, ~skillDisturbed, ~skillDisturbed', NEW s \in skillView,
         SK!Deletes(s)
  PROVE  SkillsInTurn'
<1>1. s[1] \in SK!Ids /\ s[2].name \in SkillNames
  BY DEF SkillsInTurn, SkillsSeen, SK!Skills
<1>2. SK!Ask("delete", s[1], s[2].name) /\ UNCHANGED <<files, skillView, mentions, promised>>
  BY DEF SK!Deletes
<1> QED
  BY <1>1, <1>2, SkillAsked, SkillIds

(* The composer mentions one.                                                *)
LEMMA SkillMentioned ==
  ASSUME SK!Slugged, SkillsInTurn, NEW s \in skillView, SK!Mentions(s)
  PROVE  SkillsInTurn'
<1>1. /\ mentions' = mentions \cup {<<s[1], s[2].origin>>}
      /\ UNCHANGED <<files, skillView, skillAsked, skillAsks, promised>>
  BY DEF SK!Mentions
<1>2. MentionsTold' = MentionsTold /\ mentions' \subseteq SK!Ids \X Nat
  BY <1>1 DEF MentionsTold, SkillsInTurn, SkillsSeen, SK!Skills
<1>3. SkillsSeen'
  <2>1. \A m : StandsFor(m)' = StandsFor(m)
    BY <1>1 DEF StandsFor, SkillHole
  <2> QED
    BY <2>1, <1>1, <1>2 DEF SkillsInTurn, SkillsSeen, SK!Listed
<1>4. SkillsAged'
  BY <1>1, <1>2 DEF SkillsInTurn, SkillsAged
<1> QED
  BY <1>1, <1>3, <1>4 DEF SkillsInTurn, OneSkillCall, SkillsStored, SkillsPromised, SkillPhase,
     SkillsCounted, SkillHole, SK!Listed

(* The id of a new skill has no file.                                        *)
LEMMA FreshSkillId ==
  ASSUME SK!Slugged, SkillsInTurn, NEW q \in skillAsked, q.op = "create", q.at = "asked"
  PROVE  /\ SK!FreshId(q.name) \in SK!Ids /\ files[SK!FreshId(q.name)] = None
         /\ SK!FreshId(q.name)[2] <= skillAsks
<1> DEFINE free == {k \in 1 .. (SkillCalls + 1) : files[<<q.name, k>>] = None}
           k0 == CHOOSE k \in free : \A j \in free : k <= j
<1>1. q.name \in SkillNames /\ q.n \in 1..skillAsks /\ skillAsks \in 0..SkillCalls
  BY OneRequest DEF SkillRequests, SkillPhase, SkillsInTurn, SkillsCounted
<1>2. \A k \in 1..(SkillCalls + 1) : <<q.name, k>> \in SK!Ids /\ <<q.name, k>>[2] = k
  BY <1>1 DEF SK!Ids
<1>3. skillAsks \in free
  <2>1. skillAsks \in 1..(SkillCalls + 1) /\ ~(skillAsks < skillAsks)
    BY <1>1 DEF SK!Slugged
  <2>2. <<q.name, skillAsks>> \in SK!Ids /\ <<q.name, skillAsks>>[2] = skillAsks
    BY <2>1, <1>2
  <2>3. files[<<q.name, skillAsks>>] = None
    BY <2>1, <2>2 DEF SkillsInTurn, SkillsCounted
  <2> QED
    BY <2>1, <2>3
<1>4. free \in SUBSET (1..(SkillCalls + 1)) /\ free # {} /\ SkillCalls + 1 \in Nat
  BY <1>3 DEF SK!Slugged
<1>5. \E k \in free : \A j \in free : k <= j
  <2> HIDE DEF free
  <2> QED
    BY <1>4, LeastExists
<1>6. k0 \in free /\ k0 <= skillAsks
  BY <1>3, <1>5
<1>7. SK!FreshId(q.name) = <<q.name, k0>>
  BY DEF SK!FreshId
<1> HIDE DEF k0
<1> QED
  BY <1>2, <1>6, <1>7

(* A call finds its id.                                                      *)
LEMMA SkillResolved ==
  ASSUME SK!Slugged, SkillsInTurn, NEW q \in skillAsked, SK!Resolves(q)
  PROVE  SkillsInTurn'
<1>1. skillAsked = {q} /\ q \in SkillRequests /\ SkillPhase(q) /\ q.at = "asked"
      /\ UNCHANGED <<files, skillView, skillAsks, mentions, promised>>
  BY OneRequest DEF SK!Resolves
<1>2. \A i : ~SkillHole(i)
  BY <1>1 DEF SkillHole
<1>3. q.op # "create" => q.id \in SK!Ids /\ SK!IdFor(q) = q.id
  BY <1>1 DEF SkillPhase, SkillRequests, SK!IdFor
<1> DEFINE i == SK!IdFor(q)
           new == SK!Skill(SK!Origin(q), q.name, q.n)
           w == SK!Call(q.n, q.op, "writing", i, q.name, {<<i, new>>})
           at == IF q.op = "delete" THEN "saved" ELSE "failed"
           x == SK!Call(q.n, q.op, at, q.id, q.name, q.seen)
<1>4. CASE q.op = "create" \/ files[q.id] # None
  <2>1. i \in SK!Ids /\ (q.op = "create" => files[i] = None /\ i[2] <= skillAsks)
        /\ (q.op # "create" => files[i] # None /\ i = q.id)
    BY <1>1, <1>3, <1>4, FreshSkillId DEF SK!IdFor
  <2>2. SK!Origin(q) \in Nat /\ SK!Origin(q) = (IF q.op = "create" THEN q.n ELSE files[i].origin)
    <3>1. CASE q.op = "create"
      BY <3>1, <1>1 DEF SK!Origin, SkillRequests
    <3>2. CASE q.op # "create"
      <4>1. files[i] \in SK!Skills
        BY <3>2, <2>1, <1>2 DEF SkillsInTurn, SkillsStored
      <4> QED
        BY <3>2, <4>1, <2>1 DEF SK!Origin, SK!Skills
    <3> QED
      BY <3>1, <3>2
  <2>3. new \in SK!Skills /\ new.origin = SK!Origin(q)
    BY <2>2, <1>1 DEF SK!Skill, SK!Skills, SkillRequests
  <2>4. skillAsked' = {w}
    BY <1>1, <1>4 DEF SK!Resolves, SK!Moves
  <2> HIDE DEF i, new
  <2>5. w \in SkillRequests /\ w.n = q.n /\ w.op = q.op /\ w.at = "writing" /\ w.id = i
        /\ w.seen = {<<i, new>>}
    <3>1. {<<i, new>>} \in SUBSET (SK!Ids \X SK!Skills)
      BY <2>1, <2>3
    <3>2. w = SK!Call(q.n, q.op, "writing", i, q.name, {<<i, new>>})
      OBVIOUS
    <3>3. i \in SK!Ids \cup {SK!New} /\ q \in SkillRequests
      BY <1>1, <2>1
    <3> HIDE DEF w
    <3>4. q.n \in Nat /\ q.op \in {"create", "edit", "delete"} /\ q.name \in SkillNames
      BY <3>3 DEF SkillRequests
    <3> QED
      BY <3>1, <3>2, <3>3, <3>4 DEF SK!Call, SkillRequests
  <2> HIDE DEF w
  <2>6. OneSkillCall'
    BY <2>4, <2>5 DEF OneSkillCall
  <2>7. \A j : ~SkillHole(j)'
    BY <2>4, <2>5 DEF SkillHole
  <2>8. SkillsStored' /\ SkillsPromised'
    BY <1>1, <1>2, <2>7 DEF SkillsInTurn, SkillsStored, SkillsPromised
  <2>9. MentionsTold' = MentionsTold
    BY <1>1 DEF MentionsTold
  <2>10. SkillsAged'
    BY <1>1, <2>4, <2>5, <2>9 DEF SkillsInTurn, SkillsAged, SkillUnwritten
  <2>11. SkillsSeen'
    BY <1>1, <1>2, <2>4, <2>5, <2>7, <2>9 DEF SkillsInTurn, SkillsSeen, StandsFor, SK!Listed
  <2>12. SkillsCounted'
    BY <1>1, <2>4, <2>5 DEF SkillsInTurn, SkillsCounted
  <2>13. ASSUME NEW p \in skillAsked' PROVE SkillPhase(p)'
    <3>0. p = w
      BY <2>4
    <3>1. p.n \in 1..skillAsks' /\ (p.id = SK!New <=> p.op = "create" /\ p.at = "asked")
      BY <3>0, <1>1, <2>1, <2>5, SkillIds DEF SkillPhase
    <3>2. p.seen = {<<p.id, new>>}
          /\ new.origin = (IF p.op = "create" THEN p.n ELSE files'[p.id].origin)
      BY <3>0, <2>2, <2>3, <2>5, <1>1
    <3>3. p.op = "create" => files'[p.id] = None /\ p.id[2] <= skillAsks'
      BY <3>0, <1>1, <2>1, <2>5
    <3>4. p.op = "edit" => files'[p.id] # None
      BY <3>0, <1>1, <1>4, <2>1, <2>5
    <3>5. p.at = "writing"
      BY <3>0, <2>5
    <3> QED
      BY <3>1, <3>2, <3>3, <3>4, <3>5, <2>3 DEF SkillPhase
  <2> QED
    BY <2>6, <2>8, <2>10, <2>11, <2>12, <2>13 DEF SkillsInTurn
<1>5. CASE ~(q.op = "create" \/ files[q.id] # None)
  <2>1. skillAsked' = {x}
    BY <1>1, <1>5 DEF SK!Resolves, SK!Moves
  <2>2. x \in SkillRequests /\ x.n = q.n /\ x.op = q.op /\ x.id = q.id
        /\ (x.at = "saved" \/ (x.at = "failed" /\ x.op = "edit")) /\ x.op # "create"
    <3>2. at = "saved" \/ (at = "failed" /\ q.op = "edit")
      BY <1>1, <1>5 DEF SkillRequests
    <3>3. q.id \in SK!Ids \cup {SK!New} /\ q.seen \in SUBSET (SK!Ids \X SK!Skills)
          /\ q.op # "create"
      BY <1>1, <1>5 DEF SkillRequests
    <3> HIDE DEF at
    <3>4. x = SK!Call(q.n, q.op, at, q.id, q.name, q.seen)
      OBVIOUS
    <3>5. q \in SkillRequests /\ at \in {"saved", "failed"}
      BY <1>1, <3>2
    <3>6. q.n \in Nat /\ q.op \in {"create", "edit", "delete"} /\ q.name \in SkillNames
      BY <3>5 DEF SkillRequests
    <3> HIDE DEF x
    <3>7. x \in SkillRequests /\ x.n = q.n /\ x.op = q.op /\ x.at = at /\ x.id = q.id
      BY <3>3, <3>4, <3>5, <3>6 DEF SK!Call, SkillRequests
    <3> QED
      BY <3>2, <3>3, <3>7
  <2> HIDE DEF x
  <2>3. \A j : ~SkillHole(j)'
    BY <2>1, <2>2 DEF SkillHole
  <2>4. OneSkillCall' /\ SkillsStored' /\ SkillsPromised'
    BY <1>1, <1>2, <2>1, <2>2, <2>3 DEF SkillsInTurn, OneSkillCall, SkillsStored, SkillsPromised
  <2>5. MentionsTold' = MentionsTold
    BY <1>1 DEF MentionsTold
  <2>6. SkillsAged' /\ SkillsCounted'
    BY <1>1, <2>1, <2>2, <2>5 DEF SkillsInTurn, SkillsAged, SkillUnwritten, SkillsCounted
  <2>7. SkillsSeen'
    BY <1>1, <1>2, <2>1, <2>2, <2>3, <2>5 DEF SkillsInTurn, SkillsSeen, StandsFor, SK!Listed
  <2>8. ASSUME NEW p \in skillAsked' PROVE SkillPhase(p)'
    <3>0. p = x
      BY <2>1
    <3> QED
      BY <3>0, <1>1, <1>3, <2>2, SkillIds DEF SkillPhase
  <2> QED
    BY <2>4, <2>6, <2>7, <2>8 DEF SkillsInTurn
<1> QED
  BY <1>4, <1>5

(* The file is emptied.                                                      *)
LEMMA SkillTruncated ==
  ASSUME SK!Slugged, SkillsInTurn, ~skillDisturbed, ~skillDisturbed', NEW q \in skillAsked,
         SK!Truncates(q)
  PROVE  SkillsInTurn'
<1> DEFINE i == q.id
           hole == SK!Truncated(SK!Skill(None, i[1], 0))
           w == SK!Call(q.n, q.op, "emptied", i, q.name, q.seen)
<1>1. /\ skillAsked = {q} /\ q \in SkillRequests /\ SkillPhase(q) /\ q.at = "writing"
         /\ q.op # "delete"
      /\ files' = [files EXCEPT ![i] = hole] /\ skillAsked' = {w}
      /\ ~(q.op = "create" /\ \E m \in mentions : m[1] = i)
      /\ UNCHANGED <<skillView, skillAsks, mentions, promised>>
  BY OneRequest DEF SK!Truncates, SK!Moves
<1>2. i \in SK!Ids
  BY <1>1 DEF SkillPhase, SkillRequests
<1>3. PICK new \in SK!Skills : /\ q.seen = {<<i, new>>}
                               /\ new.origin = (IF q.op = "create" THEN q.n ELSE files[i].origin)
  BY <1>1 DEF SkillPhase
<1>4. w \in SkillRequests /\ w.n = q.n /\ w.op = q.op /\ w.at = "emptied" /\ w.id = i
      /\ w.seen = q.seen
  <2>1. q \in SkillRequests /\ q.seen \in SUBSET (SK!Ids \X SK!Skills) /\ i \in SK!Ids \cup {SK!New}
    BY <1>1, <1>2 DEF SkillRequests
  <2>2. w = SK!Call(q.n, q.op, "emptied", i, q.name, q.seen)
    OBVIOUS
  <2> HIDE DEF w
  <2>3. q.n \in Nat /\ q.op \in {"create", "edit", "delete"} /\ q.name \in SkillNames
    BY <2>1 DEF SkillRequests
  <2> QED
    BY <2>1, <2>2, <2>3 DEF SK!Call, SkillRequests
<1> HIDE DEF w, hole
<1>5. \A j : ~SkillHole(j) /\ (SkillHole(j)' <=> j = i)
  BY <1>1, <1>4 DEF SkillHole
<1>6. DOMAIN files = SK!Ids /\ DOMAIN files' = SK!Ids
      /\ \A j \in SK!Ids : j # i => files'[j] = files[j]
  BY <1>1 DEF SkillsInTurn, SkillsStored
<1>7. OneSkillCall' /\ SkillsStored' /\ SkillsPromised'
  BY <1>1, <1>4, <1>5, <1>6 DEF SkillsInTurn, OneSkillCall, SkillsStored, SkillsPromised
<1>8. MentionsTold' = MentionsTold
  BY <1>1 DEF MentionsTold
<1>9. SkillsAged'
  BY <1>1, <1>4, <1>8 DEF SkillsInTurn, SkillsAged, SkillUnwritten
<1>10. SkillsCounted'
  <2>1. i[2] <= skillAsks
    <3>1. CASE q.op = "create"
      BY <3>1, <1>1 DEF SkillPhase
    <3>2. CASE q.op # "create"
      <4>1. q.op = "edit"
        BY <3>2, <1>1 DEF SkillRequests
      <4> QED
        BY <4>1, <1>1, <1>2 DEF SkillPhase, SkillsInTurn, SkillsCounted
    <3> QED
      BY <3>1, <3>2
  <2> QED
    BY <2>1, <1>1, <1>4, <1>6 DEF SkillsInTurn, SkillsCounted
<1>11. SkillsSeen'
  <2>1. skillView = SK!Listed(files)
    BY <1>1 DEF SkillsInTurn, SkillsSeen
  <2>2. ASSUME NEW m \in MentionsTold PROVE StandsFor(m)'
    <3>1. StandsFor(m) /\ m[1] \in SK!Ids
      BY DEF SkillsInTurn, SkillsSeen, MentionsTold
    <3>2. CASE m[1] # i
      BY <3>1, <3>2, <1>1, <1>5, <1>6 DEF StandsFor
    <3>3. CASE m[1] = i
      <4>1. q.op # "create"
        <5> SUFFICES ASSUME q.op = "create" PROVE FALSE
          OBVIOUS
        <5>1. files[i] = None
          BY <1>1 DEF SkillPhase
        <5>2. m \notin mentions
          BY <3>3, <1>1
        <5>3. PICK s \in skillView : m = <<s[1], s[2].origin>>
          BY <5>2 DEF MentionsTold
        <5> QED
          BY <5>1, <5>3, <2>1, <3>3 DEF SK!Listed
      <4>2. files[i] # None
        BY <4>1, <1>1 DEF SkillPhase, SkillRequests
      <4>3. files[i].origin = m[2]
        BY <3>1, <3>3, <4>2, <1>5 DEF StandsFor
      <4>4. new.origin = m[2]
        BY <4>1, <4>3, <1>3
      <4>5. SkillHole(m[1])'
        BY <3>3, <1>5
      <4> QED
        BY <4>4, <4>5, <1>1, <1>3, <1>4 DEF StandsFor
    <3> QED
      BY <3>2, <3>3
  <2> QED
    BY <2>2, <1>1, <1>4, <1>8 DEF SkillsInTurn, SkillsSeen
<1>12. ASSUME NEW p \in skillAsked' PROVE SkillPhase(p)'
  <2>1. p = w
    BY <1>1
  <2>2. q.op = "create" => \A s \in promised : s[1] # i
    <3> SUFFICES ASSUME q.op = "create", NEW s \in promised, s[1] = i PROVE FALSE
      OBVIOUS
    <3>1. files[i] = s[2] /\ s[2] \in SK!Skills
      BY <1>5 DEF SkillsInTurn, SkillsPromised
    <3> QED
      BY <3>1, <1>1 DEF SkillPhase, SK!Slugged
  <2>3. q.op = "edit" => \E s \in promised : s[1] = i /\ s[2].origin = new.origin
    <3> SUFFICES ASSUME q.op = "edit" PROVE \E s \in promised : s[1] = i /\ s[2].origin = new.origin
      OBVIOUS
    <3>1. files[i] # None
      BY <1>1 DEF SkillPhase
    <3>2. <<i, files[i]>> \in promised
      BY <3>1, <1>2, <1>5 DEF SkillsInTurn, SkillsPromised
    <3> QED
      BY <3>2, <1>3
  <2>4. i[2] <= skillAsks
    <3>1. CASE q.op = "create"
      BY <3>1, <1>1 DEF SkillPhase
    <3>2. CASE q.op = "edit"
      BY <3>2, <1>1, <1>2 DEF SkillPhase, SkillsInTurn, SkillsCounted
    <3> QED
      BY <3>1, <3>2, <1>1 DEF SkillRequests
  <2>5. p.n \in 1..skillAsks' /\ (p.id = SK!New <=> p.op = "create" /\ p.at = "asked")
    BY <2>1, <1>1, <1>2, <1>4, SkillIds DEF SkillPhase
  <2>6. p.seen = {<<p.id, new>>} /\ p.at = "emptied" /\ p.id = i /\ p.op = q.op /\ p.n = q.n
    BY <2>1, <1>3, <1>4
  <2>7. \E sk \in SK!Skills :
            /\ p.seen = {<<p.id, sk>>}
            /\ p.op = "create" => sk.origin = p.n /\ \A s \in promised' : s[1] # p.id
            /\ p.op = "edit" => \E s \in promised' : s[1] = p.id /\ s[2].origin = sk.origin
    BY <2>2, <2>3, <2>6, <1>1, <1>3
  <2> QED
    BY <2>4, <2>5, <2>6, <2>7, <1>1 DEF SkillPhase
<1> QED
  BY <1>7, <1>9, <1>10, <1>11, <1>12 DEF SkillsInTurn

(* The file is written.                                                      *)
LEMMA SkillWritten ==
  ASSUME SK!Slugged, SkillsInTurn, NEW q \in skillAsked, SK!Writes(q)
  PROVE  SkillsInTurn'
<1> DEFINE i == q.id
           w == SK!Call(q.n, q.op, "saved", i, q.name, q.seen)
<1>1. /\ skillAsked = {q} /\ q \in SkillRequests /\ SkillPhase(q) /\ q.at = "emptied"
         /\ skillAsked' = {w}
      /\ UNCHANGED <<skillView, skillAsks, mentions>>
  BY OneRequest DEF SK!Writes, SK!Moves
<1>2. i \in SK!Ids /\ i[2] <= skillAsks /\ q.op \in {"create", "edit"}
  BY <1>1 DEF SkillPhase, SkillRequests
<1>3. PICK new \in SK!Skills :
            /\ q.seen = {<<i, new>>}
            /\ q.op = "create" => new.origin = q.n /\ \A s \in promised : s[1] # i
            /\ q.op = "edit" => \E s \in promised : s[1] = i /\ s[2].origin = new.origin
  BY <1>1 DEF SkillPhase
<1>4. w \in SkillRequests /\ w.n = q.n /\ w.op = q.op /\ w.at = "saved" /\ w.id = i
  <2>1. q \in SkillRequests /\ q.seen \in SUBSET (SK!Ids \X SK!Skills) /\ i \in SK!Ids \cup {SK!New}
    BY <1>1, <1>2 DEF SkillRequests
  <2>2. w = SK!Call(q.n, q.op, "saved", i, q.name, q.seen)
    OBVIOUS
  <2> HIDE DEF w
  <2>3. q.n \in Nat /\ q.op \in {"create", "edit", "delete"} /\ q.name \in SkillNames
    BY <2>1 DEF SkillRequests
  <2> QED
    BY <2>1, <2>2, <2>3 DEF SK!Call, SkillRequests
<1> HIDE DEF w
<1>5. /\ files' = [files EXCEPT ![i] = new]
      /\ promised' = {s \in promised : s[2].origin # new.origin} \cup {<<i, new>>}
  <2>1. PICK n \in q.seen :
            /\ files' = [files EXCEPT ![i] = n[2]]
            /\ promised' = {s \in promised : s[2].origin # n[2].origin} \cup {n}
    BY DEF SK!Writes
  <2>2. n = <<i, new>> /\ n[2] = new
    BY <1>3
  <2> QED
    BY <2>1, <2>2
<1>6. \A j : ~SkillHole(j)' /\ (SkillHole(j) <=> j = i)
  BY <1>1, <1>4 DEF SkillHole
<1>7. DOMAIN files = SK!Ids /\ DOMAIN files' = SK!Ids /\ files'[i] = new
      /\ \A j \in SK!Ids : j # i => files'[j] = files[j]
  BY <1>2, <1>5 DEF SkillsInTurn, SkillsStored
<1>8. \A s \in promised : s[2].origin = new.origin => s[1] = i
  <2> SUFFICES ASSUME NEW s \in promised, s[2].origin = new.origin PROVE s[1] = i
    OBVIOUS
  <2>1. CASE q.op = "create"
    <3>1. s[2].origin < q.n /\ q.n \in Nat /\ new.origin = q.n
      BY <2>1, <1>1, <1>3 DEF SkillsInTurn, SkillsAged, SkillUnwritten, SkillRequests
    <3> QED
      BY <3>1
  <2>2. CASE q.op = "edit"
    <3>1. PICK t \in promised : t[1] = i /\ t[2].origin = new.origin
      BY <2>2, <1>3
    <3> QED
      BY <3>1 DEF SkillsInTurn, SkillsPromised
  <2> QED
    BY <2>1, <2>2, <1>2
<1>9. \A s \in promised : s[1] = i => s[2].origin = new.origin
  <2> SUFFICES ASSUME NEW s \in promised, s[1] = i PROVE s[2].origin = new.origin
    OBVIOUS
  <2>1. q.op = "edit"
    BY <1>2, <1>3
  <2>2. PICK t \in promised : t[1] = i /\ t[2].origin = new.origin
    BY <2>1, <1>3
  <2> QED
    BY <2>2 DEF SkillsInTurn, SkillsPromised
<1>10. OneSkillCall' /\ SkillsStored'
  BY <1>1, <1>4, <1>6, <1>7 DEF SkillsInTurn, OneSkillCall, SkillsStored
<1>11. SkillsPromised'
  <2>1. promised' \subseteq SK!Ids \X SK!Skills
    BY <1>2, <1>5 DEF SkillsInTurn, SkillsPromised
  <2>2. ASSUME NEW j \in SK!Ids, files'[j] # None PROVE <<j, files'[j]>> \in promised'
    <3>1. CASE j = i
      BY <3>1, <1>5, <1>7
    <3>2. CASE j # i
      <4>1. <<j, files[j]>> \in promised
        BY <3>2, <2>2, <1>6, <1>7 DEF SkillsInTurn, SkillsPromised
      <4>2. files[j].origin # new.origin
        BY <4>1, <3>2, <1>8
      <4> QED
        BY <4>1, <4>2, <3>2, <1>5, <1>7
    <3> QED
      BY <3>1, <3>2
  <2>3. ASSUME NEW s \in promised' PROVE files'[s[1]] = s[2]
    <3>1. CASE s = <<i, new>>
      BY <3>1, <1>7
    <3>2. CASE s \in promised /\ s[2].origin # new.origin
      BY <3>2, <1>6, <1>7, <1>9 DEF SkillsInTurn, SkillsPromised
    <3> QED
      BY <3>1, <3>2, <1>5
  <2>4. ASSUME NEW s \in promised', NEW t \in promised', s[1] = t[1] \/ s[2].origin = t[2].origin
        PROVE  s = t
    <3>1. s = <<i, new>> \/ (s \in promised /\ s[2].origin # new.origin /\ s[1] # i)
      BY <1>5, <1>9
    <3>2. t = <<i, new>> \/ (t \in promised /\ t[2].origin # new.origin /\ t[1] # i)
      BY <1>5, <1>9
    <3> QED
      BY <3>1, <3>2, <2>4 DEF SkillsInTurn, SkillsPromised
  <2> QED
    BY <2>1, <2>2, <2>3, <2>4 DEF SkillsPromised
<1>12. MentionsTold' = MentionsTold
  BY <1>1 DEF MentionsTold
<1>13. new.origin \in Nat /\ new.origin <= skillAsks
  <2>1. CASE q.op = "create"
    BY <2>1, <1>1, <1>3 DEF SkillPhase, SK!Skills
  <2>2. CASE q.op = "edit"
    BY <2>2, <1>3 DEF SkillsInTurn, SkillsAged, SK!Skills
  <2> QED
    BY <2>1, <2>2, <1>2
<1>14. SkillsAged'
  <2>1. ~SkillUnwritten(w)
    BY <1>4 DEF SkillUnwritten
  <2>2. \A s \in promised' : s[2].origin <= skillAsks'
    BY <1>1, <1>5, <1>13 DEF SkillsInTurn, SkillsAged
  <2>3. \A p \in skillAsked' : ~SkillUnwritten(p)
    BY <2>1, <1>1
  <2> QED
    BY <2>2, <2>3, <1>1, <1>12 DEF SkillsInTurn, SkillsAged
<1>15. SkillsCounted'
  BY <1>1, <1>2, <1>4, <1>7 DEF SkillsInTurn, SkillsCounted
<1>16. SkillsSeen'
  <2>1. ASSUME NEW m \in MentionsTold PROVE StandsFor(m)'
    <3>1. StandsFor(m) /\ m[1] \in SK!Ids
      BY DEF SkillsInTurn, SkillsSeen, MentionsTold
    <3>2. CASE m[1] = i
      <4>0. \A n \in q.seen : n[2].origin = m[2]
        BY <3>1, <3>2, <1>1, <1>6 DEF StandsFor
      <4>1. new.origin = m[2]
        <5>1. <<i, new>> \in q.seen /\ <<i, new>>[2] = new
          BY <1>3
        <5> QED
          BY <4>0, <5>1
      <4>2. files'[m[1]] # None /\ files'[m[1]].origin = m[2]
        BY <4>1, <3>2, <1>7 DEF SK!Slugged
      <4> QED
        BY <4>2, <1>6 DEF StandsFor
    <3>3. CASE m[1] # i /\ files[m[1]] # None
      BY <3>1, <3>3, <1>6, <1>7 DEF StandsFor
    <3>4. CASE m[1] # i /\ files[m[1]] = None
      <4>1. \A s \in promised : s[2].origin # m[2]
        BY <3>1, <3>4, <1>6 DEF StandsFor
      <4>2. new.origin # m[2]
        <5>1. CASE q.op = "create"
          <6>1. m[2] < q.n /\ q.n \in Nat
            BY <5>1, <1>1 DEF SkillsInTurn, SkillsAged, SkillUnwritten, SkillRequests
          <6> QED
            BY <5>1, <6>1, <1>3
        <5>2. CASE q.op = "edit"
          BY <5>2, <4>1, <1>3
        <5> QED
          BY <5>1, <5>2, <1>2
      <4>3. \A s \in promised' : s[2].origin # m[2]
        BY <4>1, <4>2, <1>5
      <4>4. files'[m[1]] = None
        BY <3>1, <3>4, <1>7
      <4> QED
        BY <4>3, <4>4, <1>6 DEF StandsFor
    <3> QED
      BY <3>2, <3>3, <3>4
  <2> QED
    BY <2>1, <1>1, <1>4, <1>12 DEF SkillsInTurn, SkillsSeen
<1>17. ASSUME NEW p \in skillAsked' PROVE SkillPhase(p)'
  <2>1. p = w
    BY <1>1
  <2> QED
    BY <2>1, <1>1, <1>2, <1>4, SkillIds DEF SkillPhase
<1> QED
  BY <1>10, <1>11, <1>14, <1>15, <1>16, <1>17 DEF SkillsInTurn

(* The file is removed.                                                      *)
LEMMA SkillRemoved ==
  ASSUME SK!Slugged, SkillsInTurn, NEW q \in skillAsked, SK!Removes(q)
  PROVE  SkillsInTurn'
<1> DEFINE i == q.id
           w == SK!Call(q.n, q.op, "saved", i, q.name, q.seen)
<1>1. /\ skillAsked = {q} /\ q \in SkillRequests /\ SkillPhase(q) /\ q.at = "writing"
         /\ q.op = "delete" /\ skillAsked' = {w}
      /\ files' = [files EXCEPT ![i] = None] /\ promised' = {s \in promised : s[1] # i}
      /\ UNCHANGED <<skillView, skillAsks, mentions>>
  BY OneRequest DEF SK!Removes, SK!Moves
<1>2. i \in SK!Ids
  BY <1>1 DEF SkillPhase, SkillRequests
<1>4. w \in SkillRequests /\ w.n = q.n /\ w.op = q.op /\ w.at = "saved" /\ w.id = i
  <2>1. q \in SkillRequests /\ q.seen \in SUBSET (SK!Ids \X SK!Skills) /\ i \in SK!Ids \cup {SK!New}
    BY <1>1, <1>2 DEF SkillRequests
  <2>2. w = SK!Call(q.n, q.op, "saved", i, q.name, q.seen)
    OBVIOUS
  <2> HIDE DEF w
  <2>3. q.n \in Nat /\ q.op \in {"create", "edit", "delete"} /\ q.name \in SkillNames
    BY <2>1 DEF SkillRequests
  <2> QED
    BY <2>1, <2>2, <2>3 DEF SK!Call, SkillRequests
<1> HIDE DEF w
<1>6. \A j : ~SkillHole(j)' /\ ~SkillHole(j)
  BY <1>1, <1>4 DEF SkillHole
<1>7. DOMAIN files = SK!Ids /\ DOMAIN files' = SK!Ids /\ files'[i] = None
      /\ \A j \in SK!Ids : j # i => files'[j] = files[j]
  BY <1>1, <1>2 DEF SkillsInTurn, SkillsStored
<1>8. OneSkillCall' /\ SkillsStored'
  BY <1>1, <1>4, <1>6, <1>7 DEF SkillsInTurn, OneSkillCall, SkillsStored
<1>9. SkillsPromised'
  BY <1>1, <1>6, <1>7 DEF SkillsInTurn, SkillsPromised
<1>10. MentionsTold' = MentionsTold
  BY <1>1 DEF MentionsTold
<1>11. SkillsAged' /\ SkillsCounted'
  BY <1>1, <1>2, <1>4, <1>7, <1>10 DEF SkillsInTurn, SkillsAged, SkillsCounted, SkillUnwritten
<1>12. SkillsSeen'
  <2>1. ASSUME NEW m \in MentionsTold PROVE StandsFor(m)'
    <3>1. StandsFor(m) /\ m[1] \in SK!Ids
      BY DEF SkillsInTurn, SkillsSeen, MentionsTold
    <3>2. CASE m[1] = i
      <4>1. ASSUME NEW s \in promised, s[1] # i, s[2].origin = m[2] PROVE FALSE
        <5>1. files[i] # None /\ files[i].origin = m[2]
          BY <4>1, <3>1, <3>2, <1>6 DEF StandsFor
        <5>2. <<i, files[i]>> \in promised
          BY <5>1, <1>2, <1>6 DEF SkillsInTurn, SkillsPromised
        <5> QED
          BY <5>1, <5>2, <4>1 DEF SkillsInTurn, SkillsPromised
      <4> QED
        BY <4>1, <3>2, <1>1, <1>6, <1>7 DEF StandsFor
    <3>3. CASE m[1] # i
      BY <3>1, <3>3, <1>1, <1>6, <1>7 DEF StandsFor
    <3> QED
      BY <3>2, <3>3
  <2> QED
    BY <2>1, <1>1, <1>4, <1>10 DEF SkillsInTurn, SkillsSeen
<1>13. ASSUME NEW p \in skillAsked' PROVE SkillPhase(p)'
  <2>1. p = w
    BY <1>1
  <2> QED
    BY <2>1, <1>1, <1>2, <1>4, SkillIds DEF SkillPhase
<1> QED
  BY <1>8, <1>9, <1>11, <1>12, <1>13 DEF SkillsInTurn

(* What is listed is what was promised.                                      *)
LEMMA ListedFacts ==
  ASSUME SkillsInTurn, \A j : ~SkillHole(j)
  PROVE  SK!Listed(files) \subseteq SK!Ids \X SK!Skills /\ SK!Listed(files) \subseteq promised
  BY DEF SK!Listed, SkillsInTurn, SkillsStored, SkillsPromised

(* The directory is listed.                                                  *)
LEMMA SkillsListed ==
  ASSUME SK!Slugged, SkillsInTurn, NEW q \in skillAsked, SK!Lists(q)
  PROVE  SkillsInTurn'
<1> DEFINE w == SK!Call(q.n, q.op, "listed", q.id, q.name, SK!Listed(files))
<1>1. /\ skillAsked = {q} /\ q \in SkillRequests /\ SkillPhase(q) /\ q.at = "saved"
         /\ skillAsked' = {w}
      /\ UNCHANGED <<files, skillView, skillAsks, mentions, promised>>
  BY OneRequest DEF SK!Lists, SK!Moves
<1>2. \A j : ~SkillHole(j)
  BY <1>1 DEF SkillHole
<1>3. SK!Listed(files) \in SUBSET (SK!Ids \X SK!Skills)
  BY <1>2, ListedFacts
<1>4. w \in SkillRequests /\ w.n = q.n /\ w.op = q.op /\ w.at = "listed" /\ w.id = q.id
      /\ w.seen = SK!Listed(files)
  <2>1. q \in SkillRequests /\ q.id \in SK!Ids \cup {SK!New}
    BY <1>1 DEF SkillRequests
  <2>2. w = SK!Call(q.n, q.op, "listed", q.id, q.name, SK!Listed(files))
    OBVIOUS
  <2>3. q.n \in Nat /\ q.op \in {"create", "edit", "delete"} /\ q.name \in SkillNames
    BY <2>1 DEF SkillRequests
  <2> HIDE DEF w
  <2> QED
    BY <1>3, <2>1, <2>2, <2>3 DEF SK!Call, SkillRequests
<1> HIDE DEF w
<1>5. \A j : ~SkillHole(j)'
  BY <1>1, <1>4 DEF SkillHole
<1>6. MentionsTold' = MentionsTold /\ SK!Listed(files)' = SK!Listed(files)
  BY <1>1 DEF MentionsTold, SK!Listed
<1>7. OneSkillCall' /\ SkillsStored' /\ SkillsPromised' /\ SkillsAged' /\ SkillsCounted'
  BY <1>1, <1>2, <1>4, <1>5, <1>6 DEF SkillsInTurn, OneSkillCall, SkillsStored, SkillsPromised,
     SkillsAged, SkillsCounted, SkillUnwritten
<1>8. SkillsSeen'
  BY <1>1, <1>2, <1>4, <1>5, <1>6 DEF SkillsInTurn, SkillsSeen, StandsFor
<1>9. ASSUME NEW p \in skillAsked' PROVE SkillPhase(p)'
  <2>1. p = w
    BY <1>1
  <2> QED
    BY <2>1, <1>1, <1>4, <1>6, SkillIds DEF SkillPhase
<1> QED
  BY <1>7, <1>8, <1>9 DEF SkillsInTurn

(* No call, and the page shows the files.                                    *)
LEMMA SkillsIdle ==
  ASSUME SK!Slugged, SkillsInTurn, \A j : ~SkillHole(j), skillAsked' = {},
         skillAsks' \in skillAsks..SkillCalls,
         skillView' = SK!Listed(files),
         UNCHANGED <<files, mentions, promised>>
  PROVE  SkillsInTurn'
<1>1. \A j : ~SkillHole(j)'
  BY DEF SkillHole
<1>2. OneSkillCall' /\ SkillsStored' /\ SkillsPromised' /\ (\A q \in skillAsked' : SkillPhase(q)')
  BY <1>1 DEF SkillsInTurn, OneSkillCall, SkillsStored, SkillsPromised
<1>3. SK!Listed(files)' = SK!Listed(files) /\ skillView' \subseteq SK!Ids \X SK!Skills
      /\ skillView' \subseteq promised
  BY ListedFacts DEF SK!Listed
<1>4. skillAsks \in Nat /\ skillAsks' \in Nat /\ skillAsks <= skillAsks'
      /\ skillAsks' \in 0..SkillCalls
  BY DEF SkillsInTurn, SkillsCounted
<1>5. \A o \in Nat : o <= skillAsks => o <= skillAsks'
  BY <1>4
<1>6. \A m \in MentionsTold' : m \in mentions \/ \E s \in skillView' : m = <<s[1], s[2].origin>>
  BY DEF MentionsTold
<1>7. SkillsAged'
  <2>1. \A s \in promised : s[2].origin \in Nat /\ s[2].origin <= skillAsks
    BY DEF SkillsInTurn, SkillsPromised, SkillsAged, SK!Skills
  <2>2. \A m \in mentions : m[2] \in Nat /\ m[2] <= skillAsks
    BY DEF SkillsInTurn, SkillsSeen, SkillsAged, MentionsTold
  <2>3. \A m \in MentionsTold' : m[2] \in Nat /\ m[2] <= skillAsks
    BY <2>1, <2>2, <1>3, <1>6
  <2> QED
    BY <2>1, <2>3, <1>5 DEF SkillsAged
<1>8. SkillsSeen'
  <2>1. ASSUME NEW m \in MentionsTold' PROVE StandsFor(m)'
    <3>1. CASE m \in mentions
      <4>1. StandsFor(m)
        BY <3>1 DEF SkillsInTurn, SkillsSeen, MentionsTold
      <4> QED
        BY <4>1, <1>1 DEF StandsFor
    <3>2. CASE \E s \in skillView' : m = <<s[1], s[2].origin>>
      <4>1. PICK s \in skillView' : m = <<s[1], s[2].origin>>
        BY <3>2
      <4>2. files[s[1]] = s[2] /\ files[s[1]] # None
        BY <4>1, <1>3 DEF SK!Listed
      <4> QED
        BY <4>1, <4>2, <1>1 DEF StandsFor
    <3> QED
      BY <3>1, <3>2, <1>6
  <2> QED
    BY <2>1, <1>3 DEF SkillsInTurn, SkillsSeen
<1>9. SkillsCounted'
  <2>1. \A i \in SK!Ids : files[i] # None => i[2] <= skillAsks'
    BY <1>4, SkillIds DEF SkillsInTurn, SkillsCounted
  <2> QED
    BY <2>1, <1>4 DEF SkillsCounted
<1> QED
  BY <1>2, <1>7, <1>8, <1>9 DEF SkillsInTurn

(* The page shows what was listed.                                           *)
LEMMA SkillsShown ==
  ASSUME SK!Slugged, SkillsInTurn, NEW q \in skillAsked, SK!Shows(q)
  PROVE  SkillsInTurn'
<1>1. /\ skillAsked = {q} /\ SkillPhase(q) /\ q.at = "listed" /\ skillAsked' = {}
         /\ skillView' = q.seen
      /\ UNCHANGED <<files, skillAsks, mentions, promised>>
  BY OneRequest DEF SK!Shows
<1>2. (\A j : ~SkillHole(j)) /\ skillView' = SK!Listed(files)
  BY <1>1 DEF SkillHole, SkillPhase
<1>3. skillAsks' \in skillAsks..SkillCalls
  BY <1>1 DEF SkillsInTurn, SkillsCounted, SK!Slugged
<1> QED
  BY <1>1, <1>2, <1>3, SkillsIdle

(* A call fails.                                                             *)
LEMMA SkillFailed ==
  ASSUME SK!Slugged, SkillsInTurn, NEW q \in skillAsked, SK!Fails(q)
  PROVE  SkillsInTurn'
<1>1. /\ skillAsked = {q} /\ q.at = "failed" /\ skillAsked' = {}
      /\ UNCHANGED <<files, skillView, skillAsks, mentions, promised>>
  BY OneRequest DEF SK!Fails
<1>2. (\A j : ~SkillHole(j)) /\ skillView' = SK!Listed(files)
  BY <1>1 DEF SkillHole, SkillsInTurn, SkillsSeen
<1>3. skillAsks' \in skillAsks..SkillCalls
  BY <1>1 DEF SkillsInTurn, SkillsCounted, SK!Slugged
<1> QED
  BY <1>1, <1>2, <1>3, SkillsIdle

(* The program starts again.                                                 *)
LEMMA SkillsRestarted ==
  ASSUME SK!Slugged, SkillsInTurn, ~skillDisturbed, ~skillDisturbed', SK!Restarts
  PROVE  SkillsInTurn'
<1>1. /\ skillAsks < SkillCalls /\ skillAsks' = skillAsks + 1 /\ skillAsked' = {}
         /\ skillView' = SK!Listed(files)
      /\ ~(\E q \in skillAsked : q.at = "emptied") /\ UNCHANGED <<files, mentions, promised>>
  BY DEF SK!Restarts
<1>2. \A j : ~SkillHole(j)
  BY <1>1 DEF SkillHole
<1>3. skillAsks' \in skillAsks..SkillCalls
  BY <1>1 DEF SkillsInTurn, SkillsCounted, SK!Slugged
<1> QED
  BY <1>1, <1>2, <1>3, SkillsIdle

(* Every step keeps the invariant of the skills.                             *)
LEMMA SkillsStep ==
  ASSUME SK!Slugged, SkillsOrderly, [SK!Next]_(SK!vars)
  PROVE  SkillsOrderly'
<1>1. skillDisturbed' \in BOOLEAN /\ (skillDisturbed => skillDisturbed')
  BY DEF SkillsOrderly, SK!Next, SK!vars, SK!OpensEditor, SK!Cancels, SK!Restarts, SK!Deletes,
     SK!Mentions, SK!SavesSkill, SK!Ask,
         SK!Resolves, SK!Truncates, SK!Writes, SK!Removes, SK!Lists, SK!Shows, SK!Fails
<1> SUFFICES ASSUME ~skillDisturbed' PROVE SkillsInTurn'
  BY <1>1 DEF SkillsOrderly
<1>2. ~skillDisturbed /\ SkillsInTurn
  BY <1>1 DEF SkillsOrderly
<1>3. ASSUME NEW id, SK!OpensEditor(id) PROVE SkillsInTurn'
  BY <1>2, <1>3, SkillsSame DEF SK!OpensEditor
<1>4. CASE SK!Cancels
  BY <1>2, <1>4, SkillsSame DEF SK!Cancels
<1>5. CASE UNCHANGED SK!vars
  BY <1>2, <1>5, SkillsSame DEF SK!vars
<1>6. CASE SK!Restarts
  BY <1>2, <1>6, SkillsRestarted
<1>7. ASSUME NEW s \in skillView,
             SK!OpensEditor(s[1]) \/ SK!Deletes(s) \/ SK!Mentions(s) PROVE SkillsInTurn'
  BY <1>2, <1>3, <1>7, DeleteAsked, SkillMentioned
<1>8. ASSUME NEW name \in SkillNames, SK!SavesSkill(name) PROVE SkillsInTurn'
  BY <1>2, <1>8, SaveAsked
<1>9. ASSUME NEW q \in skillAsked,
             SK!Resolves(q) \/ SK!Truncates(q) \/ SK!Writes(q)
             \/ SK!Removes(q) \/ SK!Lists(q) \/ SK!Shows(q) \/ SK!Fails(q)
      PROVE SkillsInTurn'
  BY <1>2, <1>9, SkillResolved, SkillTruncated, SkillWritten, SkillRemoved, SkillsListed,
     SkillsShown, SkillFailed
<1> QED
  BY <1>3, <1>4, <1>5, <1>6, <1>7, <1>8, <1>9 DEF SK!Next

(* For any names and order of calls, what was saved is in the file it was    *)
(* saved to, and a mention never leads to another skill than the one it was  *)
(* made of, unless calls overlapped or the program ended within one          *)
(* (skillsStorage.ts).                                                       *)
THEOREM SkillsCorrect ==
  ASSUME SK!Slugged
  PROVE  SK!Spec => []SK!SkillsKept
<1>1. SK!Init => SkillsOrderly
  BY SkillsBegin
<1>2. SkillsOrderly /\ [SK!Next]_(SK!vars) => SkillsOrderly'
  BY SkillsStep
<1>3. SkillsOrderly => SK!SkillsKept
  <2> SUFFICES ASSUME SkillsOrderly, ~skillDisturbed, skillAsked = {}
               PROVE  /\ SK!Listed(files) = promised /\ skillView = SK!Listed(files)
                      /\ \A m \in mentions :
                            IF files[m[1]] = None THEN \A s \in promised : s[2].origin # m[2]
                            ELSE files[m[1]].origin = m[2]
    BY DEF SK!SkillsKept, SK!SavedIsKept, SK!ViewIsListed, SK!MentionsResolve
  <2>1. SkillsInTurn /\ \A j : ~SkillHole(j)
    BY DEF SkillsOrderly, SkillHole
  <2>2. promised \subseteq SK!Listed(files)
    <3> SUFFICES ASSUME NEW s \in promised PROVE s \in SK!Listed(files)
      OBVIOUS
    <3>1. s[1] \in SK!Ids /\ s[2] \in SK!Skills /\ s = <<s[1], s[2]>> /\ files[s[1]] = s[2]
      BY <2>1 DEF SkillsInTurn, SkillsPromised
    <3> QED
      BY <3>1 DEF SK!Listed, SK!Slugged
  <2>3. \A m \in mentions : StandsFor(m)
    BY <2>1 DEF SkillsInTurn, SkillsSeen, MentionsTold
  <2> QED
    BY <2>1, <2>2, <2>3, ListedFacts DEF StandsFor, SkillsInTurn, SkillsSeen
<1> QED
  BY <1>1, <1>2, <1>3, PTL DEF SK!Spec
=============================================================================
