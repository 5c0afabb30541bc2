---------------------------- MODULE ReplayProofs ----------------------------
(***************************************************************************)
(* Proofs about one invocation of Invocation: what a replay of the user's  *)
(* function knows, for every program.                                      *)
(*                                                                         *)
(* A request carries the results r of the time it was sent.  Given r, some *)
(* calls can be reached by a replay (Open), and the number of a call among *)
(* the calls of its id, and so its hash, is determined by r (HashOf).      *)
(* Results that are added to r close no call and renumber none (AddResult) *)
(* and no two open calls have the same hash (OpenHashes).                  *)
(* LocalInv says that an invocation follows this: where it is, what it has *)
(* counted, and what its operations and its target stand for.              *)
(***************************************************************************)
EXTENDS Invocation, FiniteSets, FiniteSetTheorems, WellFoundedInduction, TLAPS

\* What HasResult, Failed and Settled say, of the results r.
HasResultIn(r, s) == \E h \in Hashes : r[h] # None /\ r[h].site = s

FailedIn(r, s) ==
  \E h \in Hashes : /\ r[h] # None
                    /\ r[h].site = s
                    /\ ErrorOf(Program[s].kind, r[h].value) # "none"

\* An earlier call in the branch of s has failed.
CutIn(r, s) == \E t \in 1 .. s - 1 : SameBranch(s, t) /\ FailedIn(r, t)

SettledIn(r, s) == HasResultIn(r, s) \/ CutIn(r, s)

\* A replay makes call s when every earlier call is in another branch of the
\* same Parallel or lets it pass.
Elsewhere(u, s) == SameBlock(s, u) /\ ~SameBranch(s, u)

Past(r, u, s) ==
  /\ SettledIn(r, u)
  /\ FailedIn(r, u) => Program[u].parallel /\ ~SameBlock(s, u)

Open(r, s) == \A u \in 1 .. s - 1 : Elsewhere(u, s) \/ Past(r, u, s)

\* The calls of id that come before s in a replay, and the hash of s.
Prior(r, id, s) == {t \in 1 .. s - 1 : Program[t].id = id /\ ~CutIn(r, t)}

HashOf(r, s) == Hash(Program[s].id, Cardinality(Prior(r, Program[s].id, s)))

\* The hash h stands for the open call s.
Known(r, h, s) == s \in Sites /\ Open(r, s) /\ h = HashOf(r, s)

\* Every result is stored under the hash of an open call.
Consistent(r) == \A h \in Hashes : r[h] # None => Known(r, h, r[h].site)

ResultMap == [Hashes -> Results \cup {None}]

-----------------------------------------------------------------------------
(* The shape of a program.                                                 *)

LEMMA SitesAreNumbers == Sites \subseteq Nat /\ Len(Program) \in Nat
BY ProgramAssumption DEF Sites

LEMMA BlockFacts ==
  ASSUME NEW s \in Sites, NEW t \in Sites
  PROVE  /\ SameBlock(s, s) /\ SameBranch(s, s)
         /\ SameBlock(s, t) <=> SameBlock(t, s)
         /\ SameBranch(s, t) <=> SameBranch(t, s)
         /\ SameBranch(s, t) => SameBlock(s, t)
         /\ SameBlock(s, t) \in BOOLEAN /\ SameBranch(s, t) \in BOOLEAN
         /\ SameBlock(s, t) /\ s # t => Program[s].parallel /\ Program[t].parallel
         /\ \A u \in Sites : SameBlock(s, t) /\ SameBlock(t, u) => SameBlock(s, u)
         /\ \A u \in Sites : SameBranch(s, t) /\ SameBranch(t, u) => SameBranch(s, u)
BY ProgramAssumption DEF SameBlock, SameBranch

LEMMA ElsewhereFacts ==
  ASSUME NEW s \in Sites, NEW t \in Sites
  PROVE  /\ Elsewhere(s, t) <=> Elsewhere(t, s)
         /\ Elsewhere(s, t) => SameBlock(t, s) /\ SameBlock(s, t) /\ s # t
         /\ \A u \in Sites : SameBranch(u, s) => (Elsewhere(s, t) <=> Elsewhere(u, t))
BY DEF Elsewhere, SameBlock, SameBranch

\* The calls of a block, and those of a branch, are contiguous.
LEMMA Contiguous ==
  ASSUME NEW s \in Sites, NEW t \in Sites, NEW u \in Sites, s < u, u < t
  PROVE  /\ SameBlock(s, t) => SameBlock(s, u) /\ SameBlock(u, t)
         /\ SameBranch(s, t) => SameBranch(s, u) /\ SameBranch(u, t)
<1>1. SameBlock(s, t) => SameBlock(s, u)
  BY ProgramAssumption
<1>2. SameBranch(s, t) => SameBranch(s, u)
  BY ProgramAssumption
<1> QED
  BY <1>1, <1>2, BlockFacts

LEMMA FirstOf ==
  ASSUME NEW T \in SUBSET Nat, T # {}
  PROVE  \E t \in T : \A u \in T : t <= u
<1> DEFINE R == OpToRel(<, Nat)
<1>1. IsWellFoundedOn(R, Nat)
  BY NatLessThanWellFounded, Zenon
<1>2. PICK t \in T : \A u \in T : <<u, t>> \notin R
  <2> HIDE DEF R
  <2> QED
    BY <1>1, WFMin
<1>3. \A u \in T : ~(u < t)
  BY <1>2 DEF OpToRel
<1> QED
  BY <1>3

\* AfterBranch finds the first call after the branch, or the end.
LEMMA AfterBranchFacts ==
  ASSUME NEW s \in Sites
  PROVE  /\ AfterBranch(s) \in s + 1 .. Len(Program) + 1
         /\ ~SameBranch(s, AfterBranch(s))
         /\ \A u \in s + 1 .. AfterBranch(s) - 1 : u \in Sites /\ SameBranch(s, u)
<1> DEFINE T == {t \in s + 1 .. Len(Program) + 1 : ~SameBranch(s, t)}
<1>1. Len(Program) + 1 \in T
  BY SitesAreNumbers DEF Sites, SameBranch, SameBlock
<1>2. T \in SUBSET Nat
  BY SitesAreNumbers
<1>3. PICK t \in T : \A u \in T : t <= u
  <2> HIDE DEF T
  <2> QED BY <1>1, <1>2, FirstOf
<1>4. \A u \in s + 1 .. t - 1 : SameBranch(s, u)
  BY <1>2, <1>3, SitesAreNumbers
<1>5. /\ AfterBranch(s) \in s + 1 .. Len(Program) + 1
      /\ ~SameBranch(s, AfterBranch(s))
      /\ \A u \in s + 1 .. AfterBranch(s) - 1 : SameBranch(s, u)
  BY <1>3, <1>4 DEF AfterBranch
<1> QED
  BY <1>5, SitesAreNumbers DEF Sites

-----------------------------------------------------------------------------
(* Hashes.                                                                 *)

LEMMA PriorFacts ==
  ASSUME NEW r, NEW id, NEW s \in 1 .. Len(Program) + 1
  PROVE  /\ IsFiniteSet(Prior(r, id, s))
         /\ Cardinality(Prior(r, id, s)) \in 0 .. s - 1
<1>0. 1 \in Int /\ s - 1 \in Int /\ s - 1 >= 0
  BY SitesAreNumbers
<1>1. /\ IsFiniteSet(1 .. s - 1)
      /\ Cardinality(1 .. s - 1) = s - 1
  BY <1>0, FS_Interval
<1>2. Prior(r, id, s) \in SUBSET (1 .. s - 1)
  BY DEF Prior
<1>3. /\ IsFiniteSet(Prior(r, id, s))
      /\ Cardinality(Prior(r, id, s)) <= s - 1
  BY <1>1, <1>2, FS_Subset
<1>4. Cardinality(Prior(r, id, s)) \in Nat
  BY <1>3, FS_CardinalityType
<1> QED
  BY <1>3, <1>4, SitesAreNumbers

LEMMA HashesHold ==
  ASSUME NEW s \in Sites, NEW n \in 0 .. s - 1
  PROVE  Hash(Program[s].id, n) \in Hashes
BY DEF Hashes

LEMMA HashOfType ==
  ASSUME NEW r, NEW s \in Sites
  PROVE  HashOf(r, s) \in Hashes
BY PriorFacts, HashesHold, SitesAreNumbers DEF HashOf, Sites

\* Calls with the same hash have the same id and the same number.
LEMMA HashInjective ==
  ASSUME NEW r, NEW s \in Sites, NEW t \in Sites, HashOf(r, s) = HashOf(r, t)
  PROVE  /\ Program[s].id = Program[t].id
         /\ Cardinality(Prior(r, Program[s].id, s))
              = Cardinality(Prior(r, Program[t].id, t))
<1>1. /\ Cardinality(Prior(r, Program[s].id, s)) \in 0 .. s - 1
      /\ Cardinality(Prior(r, Program[t].id, t)) \in 0 .. t - 1
  BY PriorFacts, SitesAreNumbers DEF Sites
<1> QED
  BY <1>1, IdsAssumption DEF HashOf

\* An open call comes after no failed call of its branch.
LEMMA OpenIsNotCut ==
  ASSUME NEW r, NEW s \in Sites, Open(r, s)
  PROVE  ~CutIn(r, s)
BY BlockFacts, SitesAreNumbers DEF Open, CutIn, Elsewhere, Past, Sites

\* Two open calls never have the same hash.
LEMMA OpenHashes ==
  ASSUME NEW r, NEW s \in Sites, NEW t \in Sites, Open(r, s), Open(r, t),
         HashOf(r, s) = HashOf(r, t)
  PROVE  s = t
<1>1. ASSUME NEW x \in Sites, NEW y \in Sites, Open(r, x), x < y,
             Program[x].id = Program[y].id,
             Cardinality(Prior(r, Program[x].id, x))
               = Cardinality(Prior(r, Program[y].id, y))
      PROVE  FALSE
  <2> DEFINE X == Prior(r, Program[x].id, x)
             Y == Prior(r, Program[y].id, y)
  <2>1. x \notin X /\ x \in Y /\ X \subseteq Y
    BY <1>1, OpenIsNotCut, SitesAreNumbers DEF Prior, Sites
  <2>2. IsFiniteSet(X) /\ IsFiniteSet(Y)
    BY PriorFacts, SitesAreNumbers DEF Sites
  <2>3. X = Y
    <3> HIDE DEF X, Y
    <3>1. X \in SUBSET Y
      BY <2>1
    <3> QED
      BY <2>2, <3>1, FS_Subset, <1>1 DEF X, Y
  <2> QED
    BY <2>1, <2>3
<1>2. s < t \/ s = t \/ t < s
  BY SitesAreNumbers
<1> QED
  BY <1>1, <1>2, HashInjective

-----------------------------------------------------------------------------
(* More results.                                                           *)

Extends(r, q) == \A h \in Hashes : r[h] # None => q[h] = r[h]

LEMMA ResultType ==
  ASSUME NEW r \in ResultMap, NEW h \in Hashes, r[h] # None
  PROVE  r[h] \in Results /\ r[h].site \in Sites /\ r[h].value \in Values
BY DEF ResultMap, Results

\* A call has one result.
LEMMA OneResult ==
  ASSUME NEW r, Consistent(r), NEW s \in Sites, HasResultIn(r, s)
  PROVE  /\ Open(r, s)
         /\ r[HashOf(r, s)] # None /\ r[HashOf(r, s)].site = s
         /\ \A h \in Hashes : r[h] # None /\ r[h].site = s => h = HashOf(r, s)
BY DEF Consistent, HasResultIn, Known

LEMMA FailedHasResult ==
  ASSUME NEW r, NEW s, FailedIn(r, s)
  PROVE  HasResultIn(r, s)
BY DEF FailedIn, HasResultIn

LEMMA MoreResults ==
  ASSUME NEW r, NEW q, Extends(r, q), NEW s
  PROVE  /\ HasResultIn(r, s) => HasResultIn(q, s)
         /\ FailedIn(r, s) => FailedIn(q, s)
         /\ CutIn(r, s) => CutIn(q, s)
         /\ SettledIn(r, s) => SettledIn(q, s)
<1>1. \A t : HasResultIn(r, t) => HasResultIn(q, t)
  BY DEF Extends, HasResultIn
<1>2. \A t : FailedIn(r, t) => FailedIn(q, t)
  BY DEF Extends, FailedIn
<1>3. CutIn(r, s) => CutIn(q, s)
  BY <1>2 DEF CutIn
<1> QED
  BY <1>1, <1>2, <1>3 DEF SettledIn

\* A settled call gains no failure: if it has a result, it has no other, and
\* if it is cut off, it gets none.
LEMMA SettledIsFinal ==
  ASSUME NEW r, NEW q, Consistent(q), Extends(r, q), NEW u \in Sites,
         SettledIn(r, u)
  PROVE  /\ FailedIn(q, u) => FailedIn(r, u)
         /\ CutIn(q, u) => CutIn(r, u)
<1>1. CASE CutIn(r, u)
  <2>1. CutIn(q, u)
    BY <1>1, MoreResults
  <2>2. ~HasResultIn(q, u)
    BY <2>1, OneResult, OpenIsNotCut
  <2> QED
    BY <1>1, <2>2, FailedHasResult
<1>2. CASE HasResultIn(r, u)
  <2>1. PICK h \in Hashes : r[h] # None /\ r[h].site = u
    BY <1>2 DEF HasResultIn
  <2>2. q[h] = r[h]
    BY <2>1 DEF Extends
  <2>3. HasResultIn(q, u)
    BY <1>2, MoreResults
  <2>4. \A g \in Hashes : q[g] # None /\ q[g].site = u => g = h
    BY <2>1, <2>2, <2>3, OneResult
  <2>5. FailedIn(q, u) => FailedIn(r, u)
    BY <2>1, <2>2, <2>4 DEF FailedIn
  <2>6. ~CutIn(q, u)
    BY <2>3, OneResult, OpenIsNotCut
  <2> QED
    BY <2>5, <2>6
<1> QED
  BY <1>1, <1>2 DEF SettledIn

\* What a replay knows stays true when there are more results.
LEMMA KnownStays ==
  ASSUME NEW r, NEW q, Consistent(q), Extends(r, q), NEW s \in Sites, Open(r, s)
  PROVE  Open(q, s) /\ HashOf(q, s) = HashOf(r, s)
<1>1. ASSUME NEW u \in 1 .. s - 1
      PROVE  Elsewhere(u, s) \/ Past(q, u, s)
  <2>1. u \in Sites
    BY SitesAreNumbers DEF Sites
  <2> QED
    BY <2>1, SettledIsFinal, MoreResults DEF Open, Past
<1>2. ASSUME NEW t \in 1 .. s - 1, Program[t].id = Program[s].id
      PROVE  CutIn(q, t) <=> CutIn(r, t)
  <2>1. t \in Sites
    BY SitesAreNumbers DEF Sites
  <2>2. ~Elsewhere(t, s)
    BY <1>2, <2>1, IdsAssumption DEF Elsewhere
  <2>3. SettledIn(r, t)
    BY <2>2 DEF Open, Past
  <2> QED
    BY <2>1, <2>3, SettledIsFinal, MoreResults
<1>3. Prior(q, Program[s].id, s) = Prior(r, Program[s].id, s)
  BY <1>2 DEF Prior
<1> QED
  BY <1>1, <1>3 DEF Open, HashOf

\* The result of an open call that has none changes nothing for open calls.
LEMMA AddResult ==
  ASSUME NEW r \in ResultMap, Consistent(r), NEW s \in Sites, Open(r, s),
         r[HashOf(r, s)] = None,
         NEW v \in Results, v.site = s,
         NEW q \in ResultMap, q = [r EXCEPT ![HashOf(r, s)] = v]
  PROVE  /\ Extends(r, q)
         /\ Consistent(q)
         /\ HasResultIn(q, s)
<1> DEFINE h == HashOf(r, s)
<1>1. h \in Hashes
  BY HashOfType
<1> HIDE DEF h
<1>2. q[h] = v /\ v # None /\ \A g \in Hashes : g # h => q[g] = r[g]
  BY <1>1, NoneAssumption DEF h, ResultMap
<1>3. Extends(r, q)
  BY <1>2 DEF Extends, h
<1>4. ~SettledIn(r, s)
  BY OneResult, OpenIsNotCut DEF SettledIn
<1>5. \A u : u # s => (FailedIn(q, u) <=> FailedIn(r, u))
  BY <1>1, <1>2 DEF FailedIn, h
<1>6. ASSUME NEW t \in Sites, Open(r, t)
      PROVE  Open(q, t) /\ HashOf(q, t) = HashOf(r, t)
  <2>1. s < t => Elsewhere(s, t)
    BY <1>4, <1>6, SitesAreNumbers DEF Open, Past, Sites
  <2>2. ASSUME NEW u \in 1 .. t - 1
        PROVE  Elsewhere(u, t) \/ Past(q, u, t)
    <3>1. CASE u = s
      BY <2>1, <3>1, SitesAreNumbers
    <3>2. CASE u # s
      BY <1>3, <1>5, <1>6, <3>2, MoreResults DEF Open, Past
    <3> QED
      BY <3>1, <3>2
  <2>3. ASSUME NEW u \in 1 .. t - 1, Program[u].id = Program[t].id
        PROVE  CutIn(q, u) <=> CutIn(r, u)
    <3>1. u \in Sites /\ u < t
      BY SitesAreNumbers DEF Sites
    <3>2. ~Elsewhere(u, t)
      BY <2>3, <3>1, IdsAssumption DEF Elsewhere
    <3>3. s < u /\ SameBranch(u, s) => Elsewhere(u, t)
      <4>1. s < u => s < t
        BY <3>1, SitesAreNumbers
      <4> QED
        BY <2>1, <3>1, <4>1, ElsewhereFacts
    <3>4. CutIn(q, u) => CutIn(r, u)
      <4> SUFFICES ASSUME NEW x \in 1 .. u - 1, SameBranch(u, x), FailedIn(q, x)
                   PROVE  FailedIn(r, x)
        BY DEF CutIn
      <4>1. x < u
        BY <3>1, SitesAreNumbers
      <4>2. x # s
        BY <3>2, <3>3, <4>1
      <4> QED
        BY <1>5, <4>2
    <3> QED
      BY <1>3, <3>4, MoreResults
  <2>4. Prior(q, Program[t].id, t) = Prior(r, Program[t].id, t)
    BY <2>3 DEF Prior
  <2> QED
    BY <2>2, <2>4 DEF Open, HashOf
<1>7. Consistent(q)
  <2> SUFFICES ASSUME NEW g \in Hashes, q[g] # None
               PROVE  Known(q, g, q[g].site)
    BY DEF Consistent
  <2>1. CASE g = h
    BY <1>2, <1>6, <2>1 DEF Known, h
  <2>2. CASE g # h
    BY <1>2, <1>6, <2>2 DEF Known, Consistent
  <2> QED
    BY <2>1, <2>2
<1>8. HasResultIn(q, s)
  BY <1>1, <1>2 DEF HasResultIn
<1> QED
  BY <1>3, <1>7, <1>8

-----------------------------------------------------------------------------
(* What holds of an invocation.                                            *)

\* Every call before the current one is settled, or is in another branch of
\* the same Parallel and was hijacked, or panicked, there.
PathOK(i) == i.status = "running" =>
  \A u \in 1 .. i.at - 1 :
    \/ Elsewhere(u, i.at) /\ (i.planned \/ i.unexpected \/ SettledIn(i.steps, u))
    \/ Past(i.steps, u, i.at)

\* mgr.indexes counts the calls of id as every other replay does, unless a
\* branch that uses the id was left early.
Clean(i, id) ==
  i.planned => \A s \in 1 .. i.at - 1 : ~(Program[s].id = id /\ Elsewhere(s, i.at))

CountOK(i) == i.status = "running" /\ ~i.cancelled =>
  \A id \in Ids : Clean(i, id) =>
    i.calls[id] = Cardinality(Prior(i.steps, id, i.at))

\* The operations are for open calls without a result, in program order.
OpsOK(i) == \A n \in 1 .. Len(i.ops) :
  /\ i.steps[i.ops[n].hash] = None
  /\ Known(i.steps, i.ops[n].hash, i.ops[n].site)
  /\ i.ops[n].op = "StepPlanned" => Program[i.ops[n].site].kind = "run"
  /\ i.status = "running" => i.ops[n].site < i.at
  /\ \A m \in 1 .. n - 1 : i.ops[m].site < i.ops[n].site

\* A step that was executed is the last operation, the one that was asked for.
Executed == {"StepRun", "StepError"}

ExecutedOK(i) == \A n \in 1 .. Len(i.ops) : i.ops[n].op \in Executed =>
  /\ n = Len(i.ops)
  /\ i.cancelled
  /\ i.target = i.ops[n].hash \/ (i.target = None /\ ~i.plan)

\* An invocation that stopped early has something to say.
Reports(i) == i.ops # <<>> \/ i.err # "none"

StatusOK(i) ==
  /\ i.status = "running" /\ (i.planned \/ i.unexpected \/ i.cancelled)
       => Program[i.at].parallel
  /\ i.cancelled => Reports(i) \/ i.unexpected \/ i.status = "panicked"
  /\ i.status = "running" /\ i.planned
       => Reports(i) \/ i.unexpected \/ (i.target # None /\ ~i.cancelled)
  /\ i.status = "hijacked" => Reports(i)
  /\ i.unexpected => i.cancelled /\ i.status \in {"running", "panicked"}

\* The step that was asked for is still to come, unless the invocation fails.
TargetOK(i) == i.target # None =>
  /\ i.steps[i.target] = None
  /\ i.status = "running" /\ ~i.cancelled /\ i.err = "none" =>
       \E s \in Sites : /\ Known(i.steps, i.target, s)
                        /\ Program[s].kind = "run"
                        /\ i.at <= s
                        /\ i.planned => SameBlock(i.at, s)

ReturnedOK(i) == i.status = "returned" /\ i.ret = "none" =>
  \A s \in Sites : SettledIn(i.steps, s)

\* A request for a step has run it, or fails.
Answers(i) ==
  i.err # "none" \/ \E n \in 1 .. Len(i.ops) : i.ops[n].op \in Executed

AnsweredOK(i) ==
  /\ i.cancelled => Answers(i) \/ i.unexpected \/ i.status = "panicked"
  /\ i.target # None /\ i.status \in {"hijacked", "returned"} => Answers(i)

LocalInv(i) ==
  /\ Consistent(i.steps)
  /\ PathOK(i)
  /\ CountOK(i)
  /\ OpsOK(i)
  /\ ExecutedOK(i)
  /\ StatusOK(i)
  /\ TargetOK(i)
  /\ ReturnedOK(i)
  /\ AnsweredOK(i)

LEMMA InvocationType ==
  ASSUME NEW i \in Invocations
  PROVE  /\ i.status \in Statuses /\ i.steps \in ResultMap
         /\ i.target \in Hashes \cup {None} /\ i.plan \in BOOLEAN
         /\ i.at \in Sites /\ i.calls \in [Ids -> Nat] /\ i.ops \in Seq(Ops)
         /\ i.err \in Errors /\ i.ret \in Errors /\ i.cancelled \in BOOLEAN
         /\ i.planned \in BOOLEAN /\ i.unexpected \in BOOLEAN
BY DEF Invocations, ResultMap

-----------------------------------------------------------------------------
(* Where a replay goes on.                                                 *)

\* It goes on with t after call s: with the next call, or after the branch.
Onward(s, t) ==
  /\ t \in s + 1 .. Len(Program) + 1
  /\ \A u \in s + 1 .. t - 1 : u \in Sites /\ SameBranch(s, u)
  /\ t = s + 1 \/ ~SameBranch(s, t)

\* The call returned a value, or an error that ended its branch.
Passed(r, s, t) ==
  /\ HasResultIn(r, s)
  /\ \/ t = s + 1 /\ ~FailedIn(r, s)
     \/ ~SameBranch(s, t) /\ FailedIn(r, s) /\ Program[s].parallel

LEMMA OnwardIsLater ==
  ASSUME NEW s \in Sites, NEW t, Onward(s, t)
  PROVE  /\ t \in s + 1 .. Len(Program) + 1
         /\ t \in Nat /\ s < t
<1>1. s \in Nat /\ Len(Program) \in Nat
  BY SitesAreNumbers
<1>2. t \in s + 1 .. Len(Program) + 1
  BY DEF Onward
<1> QED
  BY <1>1, <1>2

LEMMA BeforeOnward ==
  ASSUME NEW s \in Sites, NEW t \in Sites, NEW u \in Sites, u < s, s < t
  PROVE  /\ SameBlock(s, t) /\ Elsewhere(u, s) => Elsewhere(u, t)
         /\ SameBlock(s, t) => (SameBlock(t, u) <=> SameBlock(s, u))
         /\ ~SameBlock(s, t) => ~SameBlock(t, u)
<1>1. /\ SameBlock(u, t) => SameBlock(u, s) /\ SameBlock(s, t)
      /\ SameBranch(u, t) => SameBranch(u, s) /\ SameBranch(s, t)
  BY Contiguous
<1> QED
  BY <1>1 DEF Elsewhere, SameBlock, SameBranch

LEMMA PathStep ==
  ASSUME NEW i \in Invocations, NEW k \in Invocations, PathOK(i),
         i.status = "running", Onward(i.at, k.at), k.steps = i.steps,
         i.planned => k.planned, i.unexpected => k.unexpected,
         k.planned \/ k.unexpected => SameBlock(i.at, k.at),
         \/ Passed(i.steps, i.at, k.at)
         \/ ~SameBranch(i.at, k.at) /\ (k.planned \/ k.unexpected)
  PROVE  PathOK(k)
<1> DEFINE s == i.at
           t == k.at
           r == i.steps
<1>0. s \in Sites /\ t \in Sites /\ s < t
  <2>1. s \in Sites /\ t \in Sites
    BY InvocationType
  <2> QED
    BY <2>1, OnwardIsLater
<1> SUFFICES ASSUME NEW u \in 1 .. t - 1
             PROVE  \/ Elsewhere(u, t) /\ (k.planned \/ k.unexpected \/ SettledIn(r, u))
                    \/ Past(r, u, t)
  BY DEF PathOK
<1>1. u \in Sites
  BY <1>0, SitesAreNumbers DEF Sites
<1> HIDE DEF s, t, r
<1>2. CASE u < s
  <2>1. \/ Elsewhere(u, s) /\ (i.planned \/ i.unexpected \/ SettledIn(r, u))
        \/ Past(r, u, s)
    BY <1>1, <1>2, <1>0, SitesAreNumbers DEF PathOK, s, r, Sites
  <2>2. CASE SameBlock(s, t)
    <3>1. CASE Elsewhere(u, s) /\ (i.planned \/ i.unexpected \/ SettledIn(r, u))
      BY <1>0, <1>1, <1>2, <2>2, <3>1, BeforeOnward DEF t
    <3>2. CASE Past(r, u, s)
      BY <1>0, <1>1, <1>2, <2>2, <3>2, BeforeOnward DEF Past
    <3> QED
      BY <2>1, <3>1, <3>2
  <2>3. CASE ~SameBlock(s, t)
    <3>1. ~k.planned /\ ~k.unexpected
      BY <2>3 DEF s, t
    <3>2. ~i.planned /\ ~i.unexpected
      BY <3>1
    <3>3. Elsewhere(u, s) => Program[u].parallel
      BY <1>0, <1>1, BlockFacts DEF Elsewhere
    <3> QED
      BY <1>0, <1>1, <1>2, <2>1, <2>3, <3>2, <3>3, BeforeOnward DEF Past
  <2> QED
    BY <2>2, <2>3
<1>3. CASE u = s
  <2>1. CASE Passed(r, s, t)
    <3>1. ~FailedIn(r, s) => Past(r, s, t)
      BY <2>1 DEF Passed, Past, SettledIn
    <3>2. FailedIn(r, s) => Elsewhere(s, t) \/ Past(r, s, t)
      BY <1>0, <2>1, BlockFacts, SitesAreNumbers DEF Passed, Past, SettledIn, Elsewhere
    <3>3. SettledIn(r, s)
      BY <2>1 DEF Passed, SettledIn
    <3> QED
      BY <1>3, <3>1, <3>2, <3>3
  <2>2. CASE ~SameBranch(s, t) /\ (k.planned \/ k.unexpected)
    BY <1>0, <1>3, <2>2, BlockFacts DEF Elsewhere, s, t
  <2> QED
    BY <2>1, <2>2 DEF s, t, r
<1>4. CASE s < u
  <2>0. u \in s + 1 .. t - 1 /\ t # s + 1
    BY <1>0, <1>1, <1>4, SitesAreNumbers
  <2>1. SameBranch(s, u)
    BY <2>0 DEF Onward, s, t
  <2>2. ~SameBranch(s, t)
    BY <2>0 DEF Onward, s, t
  <2>3. CASE k.planned \/ k.unexpected
    <3>1. SameBlock(s, t)
      BY <2>3 DEF s, t
    <3> QED
      BY <1>0, <1>1, <2>1, <2>2, <2>3, <3>1 DEF Elsewhere, SameBlock, SameBranch
  <2>4. CASE ~(k.planned \/ k.unexpected)
    <3>1. Passed(r, s, t)
      BY <2>4 DEF s, t, r
    <3>2. FailedIn(r, s) /\ Program[s].parallel
      BY <2>0, <3>1 DEF Passed
    <3>3. SettledIn(r, u)
      BY <1>0, <1>1, <1>4, <2>1, <3>2, BlockFacts, SitesAreNumbers
         DEF SettledIn, CutIn, Sites
    <3>4. Elsewhere(u, t) \/ ~SameBlock(t, u)
      BY <1>0, <1>1, <2>1, <2>2 DEF Elsewhere, SameBlock, SameBranch
    <3>5. Program[u].parallel
      BY <1>0, <1>1, <1>4, <2>1, BlockFacts, SitesAreNumbers
    <3> QED
      BY <3>3, <3>4, <3>5 DEF Past
  <2> QED
    BY <2>3, <2>4
<1> QED
  BY <1>0, <1>1, <1>2, <1>3, <1>4, SitesAreNumbers

\* NewOp counts the call.
Counted(i, k) == k.calls = [i.calls EXCEPT ![Program[i.at].id] = @ + 1]

LEMMA CleanStep ==
  ASSUME NEW i \in Invocations, NEW k \in Invocations, Onward(i.at, k.at),
         i.planned => k.planned, k.planned => SameBlock(i.at, k.at),
         NEW id, Clean(k, id)
  PROVE  /\ Clean(i, id)
         /\ k.planned /\ ~SameBranch(i.at, k.at)
              => \A u \in i.at .. k.at - 1 : Program[u].id # id
<1> DEFINE s == i.at
           t == k.at
<1>0. s \in Sites /\ t \in Sites /\ s \in Nat /\ t \in Nat /\ s < t
  BY InvocationType, OnwardIsLater, SitesAreNumbers
<1>1. ASSUME i.planned, NEW u \in 1 .. s - 1, Program[u].id = id, Elsewhere(u, s)
      PROVE  FALSE
  <2>1. u \in Sites /\ u < s /\ u \in 1 .. t - 1
    BY <1>0, SitesAreNumbers DEF Sites
  <2>2. Elsewhere(u, t)
    BY <1>0, <1>1, <2>1, BeforeOnward
  <2> QED
    BY <1>1, <2>1, <2>2 DEF Clean
<1>2. ASSUME k.planned, ~SameBranch(s, t), NEW u \in s .. t - 1, Program[u].id = id
      PROVE  FALSE
  <2>1. u \in Sites /\ u \in 1 .. t - 1 /\ (u = s \/ u \in s + 1 .. t - 1)
    BY <1>0, SitesAreNumbers DEF Sites
  <2>2. SameBranch(s, u)
    BY <1>0, <2>1, BlockFacts DEF Onward
  <2>3. Elsewhere(u, t)
    BY <1>0, <1>2, <2>1, <2>2 DEF Elsewhere, SameBlock, SameBranch
  <2> QED
    BY <1>2, <2>1, <2>3 DEF Clean
<1> QED
  BY <1>1, <1>2 DEF Clean

LEMMA CountStep ==
  ASSUME NEW i \in Invocations, NEW k \in Invocations, CountOK(i),
         i.status = "running", ~i.cancelled, Open(i.steps, i.at),
         Onward(i.at, k.at), k.steps = i.steps, Counted(i, k),
         i.planned => k.planned, k.planned => SameBlock(i.at, k.at),
         \/ Passed(i.steps, i.at, k.at)
         \/ ~SameBranch(i.at, k.at) /\ k.planned
  PROVE  CountOK(k)
<1> DEFINE s == i.at
           t == k.at
           r == i.steps
<1>0. s \in Sites /\ t \in Sites /\ s \in Nat /\ t \in Nat /\ s < t
  BY InvocationType, OnwardIsLater, SitesAreNumbers
<1> SUFFICES ASSUME NEW id \in Ids, Clean(k, id)
             PROVE  k.calls[id] = Cardinality(Prior(r, id, t))
  BY DEF CountOK
<1> DEFINE P == Prior(r, id, s)
           Q == Prior(r, id, t)
<1>1. i.calls[id] = Cardinality(P)
  BY CleanStep DEF CountOK
<1>2. k.calls[id] = IF id = Program[s].id THEN i.calls[id] + 1 ELSE i.calls[id]
  BY <1>0, InvocationType DEF Counted, Ids
<1>3. IsFiniteSet(P) /\ s \notin P
  <2>1. s \in 1 .. Len(Program) + 1 /\ s \notin 1 .. s - 1
    BY <1>0, SitesAreNumbers DEF Sites
  <2> QED
    BY <2>1, PriorFacts DEF Prior
<1>4. ~CutIn(r, s)
  BY <1>0, OpenIsNotCut
<1>5. \A u \in 1 .. t - 1 : u \in Nat /\ (u \in 1 .. s - 1 \/ u = s \/ u \in s + 1 .. t - 1)
  BY <1>0
<1>6. 1 .. s - 1 \subseteq 1 .. t - 1 /\ s \in 1 .. t - 1
  BY <1>0 DEF Sites
<1>7. Q = IF id = Program[s].id THEN P \cup {s} ELSE P
  <2>1. CASE Passed(r, s, t)
    <3>1. ASSUME NEW u \in s + 1 .. t - 1
          PROVE  CutIn(r, u)
      <4>1. t # s + 1 /\ u \in Sites /\ SameBranch(u, s) /\ s \in 1 .. u - 1
        BY <1>0, BlockFacts, SitesAreNumbers DEF Onward, Sites
      <4>2. FailedIn(r, s)
        BY <2>1, <4>1 DEF Passed
      <4> QED
        BY <4>1, <4>2 DEF CutIn
    <3> QED
      BY <1>4, <1>5, <1>6, <3>1 DEF Prior
  <2>2. CASE ~SameBranch(s, t) /\ k.planned
    <3>1. \A u \in s .. t - 1 : Program[u].id # id
      BY <2>2, CleanStep
    <3>2. s \in s .. t - 1 /\ \A u \in s + 1 .. t - 1 : u \in s .. t - 1
      BY <1>0
    <3> QED
      BY <1>5, <1>6, <3>1, <3>2 DEF Prior
  <2> QED
    BY <2>1, <2>2
<1> HIDE DEF P, Q
<1>8. Cardinality(Q) = IF id = Program[s].id THEN Cardinality(P) + 1 ELSE Cardinality(P)
  BY <1>3, <1>7, FS_AddElement
<1> QED
  BY <1>1, <1>2, <1>8 DEF Q

\* The current call of a replay: its hash is the hash of every other replay,
\* and a result under this hash is its own.
LEMMA CurrentCall ==
  ASSUME NEW i \in Invocations, LocalInv(i), i.status = "running", ~i.cancelled
  PROVE  /\ Known(i.steps, OpHash(i), i.at) /\ OpHash(i) \in Hashes
         /\ i.steps[OpHash(i)] # None =>
              /\ HasResultIn(i.steps, i.at)
              /\ i.steps[OpHash(i)].site = i.at
              /\ i.steps[OpHash(i)] \in Results
              /\ FailedIn(i.steps, i.at) <=>
                   ErrorOf(Program[i.at].kind, i.steps[OpHash(i)].value) # "none"
         /\ i.steps[OpHash(i)] = None => ~SettledIn(i.steps, i.at)
<1> DEFINE s == i.at
           r == i.steps
           h == OpHash(i)
<1>0. s \in Sites /\ r \in ResultMap
  BY InvocationType
<1>1. Open(r, s)
  BY DEF LocalInv, PathOK, Open
<1>2. Clean(i, Program[s].id)
  <2> SUFFICES ASSUME NEW u \in 1 .. s - 1, Program[u].id = Program[s].id
               PROVE  ~Elsewhere(u, s)
    BY DEF Clean
  <2>1. u \in Sites
    BY <1>0, SitesAreNumbers DEF Sites
  <2> QED
    BY <1>0, <2>1, IdsAssumption DEF Elsewhere
<1>3. h = HashOf(r, s)
  BY <1>0, <1>2 DEF LocalInv, CountOK, OpHash, HashOf, Ids
<1>4. h \in Hashes /\ Known(r, h, s)
  BY <1>0, <1>1, <1>3, HashOfType DEF Known
<1>5. Consistent(r)
  BY DEF LocalInv
<1> HIDE DEF s, r, h
<1>6. ASSUME r[h] # None
      PROVE  /\ HasResultIn(r, s)
             /\ r[h].site = s
             /\ r[h] \in Results
             /\ FailedIn(r, s) <=> ErrorOf(Program[s].kind, r[h].value) # "none"
  <2>1. r[h] \in Results /\ r[h].site \in Sites
    BY <1>0, <1>4, <1>6, ResultType
  <2>2. r[h].site = s
    BY <1>0, <1>1, <1>3, <1>4, <1>5, <1>6, <2>1, OpenHashes DEF Consistent, Known
  <2>3. HasResultIn(r, s)
    BY <1>4, <1>6, <2>2 DEF HasResultIn
  <2>4. \A g \in Hashes : r[g] # None /\ r[g].site = s => g = h
    BY <1>0, <1>3, <1>5, <2>3, OneResult
  <2> QED
    BY <1>4, <1>6, <2>1, <2>2, <2>3, <2>4 DEF FailedIn
<1>7. ASSUME r[h] = None
      PROVE  ~SettledIn(r, s)
  BY <1>0, <1>1, <1>3, <1>5, <1>7, OneResult, OpenIsNotCut DEF SettledIn
<1> QED
  BY <1>4, <1>6, <1>7 DEF s, r, h

\* A request for a step: the step comes after every other call that the
\* replay passes or skips.
LEMMA TargetStep ==
  ASSUME NEW i \in Invocations, LocalInv(i), i.status = "running", ~i.cancelled,
         i.target # None, i.err = "none",
         NEW t, Onward(i.at, t),
         \/ Passed(i.steps, i.at, t)
         \/ /\ i.steps[OpHash(i)] = None
            /\ OpHash(i) # i.target \/ Program[i.at].kind # "run"
            /\ ~SameBranch(i.at, t)
  PROVE  \E s \in Sites : /\ Known(i.steps, i.target, s)
                          /\ Program[s].kind = "run"
                          /\ t <= s /\ t \in Sites
                          /\ i.planned \/ i.steps[OpHash(i)] = None
                               => SameBlock(i.at, t) /\ SameBlock(t, s)
<1> DEFINE a == i.at
           r == i.steps
<1>0. a \in Sites /\ a \in Nat /\ t \in Nat /\ a < t /\ r \in ResultMap
      /\ t \in a + 1 .. Len(Program) + 1 /\ Len(Program) \in Nat
  BY InvocationType, OnwardIsLater, SitesAreNumbers
<1>1. PICK s \in Sites : /\ Known(r, i.target, s)
                         /\ Program[s].kind = "run"
                         /\ a <= s
                         /\ i.planned => SameBlock(a, s)
  BY DEF LocalInv, TargetOK
<1>2. s \in Nat /\ Open(r, s) /\ i.target = HashOf(r, s) /\ r[i.target] = None
  BY <1>1, SitesAreNumbers DEF Known, LocalInv, TargetOK
<1>3. OpHash(i) = HashOf(r, a) /\ Open(r, a) /\ Consistent(r)
  BY CurrentCall DEF Known, LocalInv
<1> HIDE DEF a, r
<1>4. ~HasResultIn(r, s)
  BY <1>2, <1>3, OneResult
<1>5. a # s
  BY <1>1, <1>2, <1>3, <1>4 DEF Passed, a, r
<1>6. a \in 1 .. s - 1
  BY <1>0, <1>1, <1>2, <1>5 DEF Sites
<1>7. Elsewhere(a, s) \/ Past(r, a, s)
  BY <1>2, <1>6 DEF Open
<1>8. r[OpHash(i)] = None => SameBlock(a, s) /\ ~SameBranch(a, s)
  <2>1. r[OpHash(i)] = None => ~SettledIn(r, a)
    BY CurrentCall DEF a, r
  <2> QED
    BY <1>0, <1>7, <2>1, ElsewhereFacts, BlockFacts DEF Past, Elsewhere
<1>9. t = a + 1 \/ ~SameBranch(a, s)
  <2>1. CASE Passed(r, a, t) /\ FailedIn(r, a)
    BY <1>0, <1>7, <2>1, BlockFacts DEF Past, Elsewhere
  <2>2. CASE Passed(r, a, t) /\ ~FailedIn(r, a)
    BY <2>2 DEF Passed
  <2>3. CASE r[OpHash(i)] = None
    BY <1>8, <2>3
  <2> QED
    BY <2>1, <2>2, <2>3 DEF a, r
<1>10. t <= s
  <2> SUFFICES ASSUME s < t
               PROVE  FALSE
    BY <1>0, <1>2
  <2>1. s \in a + 1 .. t - 1 /\ t # a + 1
    BY <1>0, <1>2, <1>6
  <2> QED
    BY <1>9, <2>1 DEF Onward, a
<1>11. t \in Sites
  BY <1>0, <1>1, <1>2, <1>10 DEF Sites
<1>12. SameBlock(a, s) => SameBlock(a, t) /\ SameBlock(t, s)
  <2>1. CASE t = s
    BY <1>1, <2>1, BlockFacts
  <2>2. CASE t < s
    BY <1>0, <1>1, <1>11, <2>2, Contiguous
  <2> QED
    BY <1>0, <1>2, <1>10, <2>1, <2>2
<1> QED
  BY <1>1, <1>8, <1>10, <1>11, <1>12 DEF a, r

-----------------------------------------------------------------------------
(* The steps of an invocation, field by field.                             *)

Kept(i, k) == k.steps = i.steps /\ k.target = i.target /\ k.plan = i.plan

\* Goto.
Moved(i, k, t) ==
  \/ SameBlock(i.at, t) /\ k.status = "running" /\ k.at = t
  \/ /\ ~SameBlock(i.at, t)
     /\ \/ k.unexpected /\ k.status = "panicked"
        \/ ~k.unexpected /\ k.planned /\ k.status = "hijacked"
        \/ ~k.unexpected /\ ~k.planned /\ t \notin Sites /\ k.status = "returned"
        \/ /\ ~k.unexpected /\ ~k.planned /\ t \in Sites
           /\ k.status = "running" /\ k.at = t

LEMMA MovedRunning ==
  ASSUME NEW i \in Invocations, NEW k \in Invocations, NEW t, Onward(i.at, t),
         Moved(i, k, t), k.status = "running"
  PROVE  /\ k.at = t /\ i.at < k.at /\ Onward(i.at, k.at)
         /\ k.planned \/ k.unexpected => SameBlock(i.at, k.at)
         /\ SameBlock(i.at, k.at) => Program[k.at].parallel
<1>1. k.at = t /\ (k.planned \/ k.unexpected => SameBlock(i.at, t))
  BY DEF Moved
<1>2. i.at \in Sites /\ k.at \in Sites
  BY InvocationType
<1>3. i.at < t /\ i.at \in Nat /\ t \in Nat
  BY <1>2, OnwardIsLater, SitesAreNumbers
<1>4. i.at # t
  BY <1>3
<1> QED
  BY <1>1, <1>2, <1>3, <1>4, BlockFacts

\* The call has a result: the replay goes on.
GoesOn(i, k) ==
  /\ Kept(i, k) /\ Counted(i, k)
  /\ k.ops = i.ops /\ k.err = i.err /\ k.ret = i.ret /\ k.cancelled = i.cancelled
  /\ k.planned = i.planned /\ k.unexpected = i.unexpected
  /\ \E t : Onward(i.at, t) /\ Passed(i.steps, i.at, t) /\ Moved(i, k, t)

LEMMA GoesOnLocal ==
  ASSUME NEW i \in Invocations, LocalInv(i), i.status = "running", ~i.cancelled,
         NEW k \in Invocations, GoesOn(i, k)
  PROVE  LocalInv(k)
<1>1. PICK t : Onward(i.at, t) /\ Passed(i.steps, i.at, t) /\ Moved(i, k, t)
  BY DEF GoesOn
<1> USE DEF GoesOn, Kept
<1>2. ~i.unexpected /\ ~k.unexpected /\ ~k.cancelled
  BY DEF LocalInv, StatusOK
<1>3. Consistent(k.steps)
  BY DEF LocalInv
<1>4. k.status = "running" =>
        /\ k.at = t /\ i.at < k.at /\ Onward(i.at, k.at)
        /\ Passed(i.steps, i.at, k.at)
        /\ k.planned \/ k.unexpected => SameBlock(i.at, k.at)
        /\ SameBlock(i.at, k.at) => Program[k.at].parallel
  BY <1>1, MovedRunning
<1>5. PathOK(k)
  <2>1. CASE k.status = "running"
    BY <1>4, <2>1, PathStep DEF LocalInv
  <2> QED
    BY <2>1 DEF PathOK
<1>6. CountOK(k)
  <2>1. CASE k.status = "running"
    <3>1. Open(i.steps, i.at)
      BY CurrentCall DEF Known
    <3> QED
      BY <1>4, <2>1, <3>1, CountStep DEF LocalInv
  <2> QED
    BY <2>1 DEF CountOK
<1>7. OpsOK(k)
  <2>1. i.at \in Nat /\ k.at \in Nat /\ \A n \in 1 .. Len(i.ops) : i.ops[n].site \in Nat
    BY InvocationType, SitesAreNumbers DEF LocalInv, OpsOK, Known
  <2> QED
    BY <1>4, <2>1 DEF LocalInv, OpsOK
<1>8. ExecutedOK(k)
  BY DEF LocalInv, ExecutedOK
<1>9. i.target # None /\ i.err = "none" =>
        \E s \in Sites : /\ Known(i.steps, i.target, s)
                         /\ Program[s].kind = "run"
                         /\ t <= s /\ t \in Sites
                         /\ i.planned => SameBlock(i.at, t) /\ SameBlock(t, s)
  BY <1>1, TargetStep
<1>10. StatusOK(k)
  <2>1. k.status = "hijacked" => Reports(k)
    <3> SUFFICES ASSUME k.status = "hijacked", ~Reports(k)
                 PROVE  FALSE
      OBVIOUS
    <3>1. i.planned /\ ~SameBlock(i.at, t)
      BY <1>1 DEF Moved
    <3>2. i.target # None /\ i.err = "none"
      BY <1>2, <3>1 DEF LocalInv, StatusOK, Reports
    <3> QED
      BY <1>9, <3>1, <3>2
  <2> QED
    BY <1>2, <1>4, <2>1 DEF LocalInv, StatusOK, Reports
<1>11. TargetOK(k)
  BY <1>4, <1>9 DEF LocalInv, TargetOK
<1>12. ReturnedOK(k)
  <2> SUFFICES ASSUME k.status = "returned", NEW s \in Sites
               PROVE  SettledIn(i.steps, s)
    BY DEF ReturnedOK
  <2>1. t \notin Sites /\ ~i.planned
    BY <1>1 DEF Moved
  <2>2. i.at \in Sites /\ i.at \in Nat /\ s \in Nat /\ Len(Program) \in Nat
        /\ t \in i.at + 1 .. Len(Program) + 1
    BY <1>1, InvocationType, SitesAreNumbers, OnwardIsLater
  <2>3. t = Len(Program) + 1
    BY <2>1, <2>2 DEF Sites
  <2>4. CASE s < i.at
    <3>1. s \in 1 .. i.at - 1
      BY <2>2, <2>4 DEF Sites
    <3> QED
      BY <1>2, <2>1, <3>1 DEF LocalInv, PathOK, Past
  <2>5. CASE s = i.at
    BY <1>1, <2>5 DEF Passed, SettledIn
  <2>6. CASE i.at < s
    <3>1. s \in i.at + 1 .. t - 1 /\ t # i.at + 1
      BY <2>2, <2>3, <2>6 DEF Sites
    <3>2. SameBranch(i.at, s) /\ FailedIn(i.steps, i.at)
      BY <1>1, <3>1 DEF Onward, Passed
    <3>3. SameBranch(s, i.at) /\ i.at \in 1 .. s - 1
      BY <2>2, <2>6, <3>2, BlockFacts DEF Sites
    <3> QED
      BY <3>2, <3>3 DEF SettledIn, CutIn
  <2> QED
    BY <2>2, <2>4, <2>5, <2>6
<1>13. AnsweredOK(k)
  <2> SUFFICES ASSUME i.target # None, i.err = "none",
                      k.status \in {"hijacked", "returned"}
               PROVE  FALSE
    BY <1>2 DEF AnsweredOK, Answers
  <2>1. ~SameBlock(i.at, t) /\ (i.planned \/ t \notin Sites)
    BY <1>1 DEF Moved
  <2> QED
    BY <1>9, <2>1
<1> QED
  BY <1>3, <1>5, <1>6, <1>7, <1>8, <1>10, <1>11, <1>12, <1>13 DEF LocalInv

\* The call is hijacked, after it added operation o or none.
NewOperation(i, k, o) ==
  /\ k.ops = Append(i.ops, o)
  /\ o \in Ops /\ o.hash = OpHash(i) /\ o.site = i.at
  /\ i.steps[OpHash(i)] = None
  /\ o.op = "StepPlanned" => Program[i.at].kind = "run"
  /\ o.op \in Executed =>
       k.cancelled /\ (i.target = OpHash(i) \/ (i.target = None /\ ~i.plan))

HijackCause(i, k) ==
  /\ Kept(i, k) /\ k.ret = i.ret /\ k.unexpected = i.unexpected
  /\ k.ops = i.ops \/ (~i.cancelled /\ \E o : NewOperation(i, k, o))
  /\ k.cancelled \/ Counted(i, k)
  /\ i.err # "none" => k.err # "none"
  /\ i.cancelled => k.cancelled
  /\ k.cancelled => i.cancelled \/ (Reports(k) /\ Answers(k))
  /\ ~k.cancelled => Reports(k) \/ i.target # None
  /\ ~k.cancelled /\ k.err = "none" /\ i.target # None =>
       /\ i.steps[OpHash(i)] = None
       /\ OpHash(i) # i.target \/ Program[i.at].kind # "run"

Hijacks(i, k) ==
  /\ HijackCause(i, k)
  /\ \/ /\ Program[i.at].parallel /\ k.planned
        /\ Moved(i, k, AfterBranch(i.at))
     \/ ~Program[i.at].parallel /\ k.status = "hijacked"

LEMMA AfterBranchIsOnward ==
  ASSUME NEW s \in Sites
  PROVE  Onward(s, AfterBranch(s)) /\ ~SameBranch(s, AfterBranch(s))
BY AfterBranchFacts DEF Onward

LEMMA HijacksLocal ==
  ASSUME NEW i \in Invocations, LocalInv(i), i.status = "running",
         NEW k \in Invocations, Hijacks(i, k)
  PROVE  LocalInv(k)
<1> DEFINE t == AfterBranch(i.at)
<1>1. i.at \in Sites /\ Onward(i.at, t) /\ ~SameBranch(i.at, t)
  BY InvocationType, AfterBranchIsOnward
<1> HIDE DEF t
<1> USE DEF Kept, HijackCause
<1>0. /\ k.steps = i.steps /\ k.target = i.target /\ k.plan = i.plan
      /\ i.cancelled => k.cancelled
  BY DEF Hijacks
<1>2. k.status \in {"running", "hijacked", "panicked"}
  <2>1. CASE Program[i.at].parallel
    BY <2>1 DEF Hijacks, Moved
  <2>2. CASE ~Program[i.at].parallel
    BY <2>2 DEF Hijacks
  <2> QED
    BY <2>1, <2>2
<1>3. Consistent(k.steps)
  BY DEF LocalInv, Hijacks
<1>4. k.status = "running" =>
        /\ k.at = t /\ i.at < k.at /\ Onward(i.at, k.at)
        /\ k.planned /\ SameBlock(i.at, k.at) /\ ~SameBranch(i.at, k.at)
        /\ Program[k.at].parallel
  <2> SUFFICES ASSUME k.status = "running"
               PROVE  /\ k.at = t /\ i.at < k.at /\ Onward(i.at, k.at)
                      /\ k.planned /\ SameBlock(i.at, k.at) /\ ~SameBranch(i.at, k.at)
                      /\ Program[k.at].parallel
    OBVIOUS
  <2>1. k.planned /\ Moved(i, k, t)
    BY DEF Hijacks, t
  <2> QED
    BY <1>1, <2>1, MovedRunning
<1>5. PathOK(k)
  <2>1. CASE k.status = "running"
    <3>1. k.steps = i.steps /\ (i.planned => k.planned) /\ (i.unexpected => k.unexpected)
      BY <1>4, <2>1 DEF Hijacks
    <3> QED
      BY <1>4, <2>1, <3>1, PathStep DEF LocalInv
  <2> QED
    BY <2>1 DEF PathOK
<1>6. CountOK(k)
  <2>1. CASE k.status = "running" /\ ~k.cancelled
    <3>1. ~i.cancelled /\ Counted(i, k) /\ k.steps = i.steps
      BY <2>1 DEF Hijacks
    <3>2. Open(i.steps, i.at)
      BY <3>1, CurrentCall DEF Known
    <3> QED
      BY <1>4, <2>1, <3>1, <3>2, CountStep DEF LocalInv
  <2> QED
    BY <2>1 DEF CountOK
<1>7. i.at \in Nat /\ k.at \in Nat /\ i.ops \in Seq(Ops) /\ k.ops \in Seq(Ops)
      /\ \A n \in 1 .. Len(i.ops) : i.ops[n].site \in Nat /\ i.ops[n].site < i.at
  BY InvocationType, SitesAreNumbers DEF LocalInv, OpsOK, Known
<1>8. ASSUME ~i.cancelled, \E o : NewOperation(i, k, o)
      PROVE  OpsOK(k) /\ ExecutedOK(k)
  <2>1. PICK o : NewOperation(i, k, o)
    BY <1>8
  <2>2. /\ Len(k.ops) = Len(i.ops) + 1
        /\ k.ops[Len(k.ops)] = o
        /\ \A n \in 1 .. Len(i.ops) : k.ops[n] = i.ops[n]
        /\ k.ops # <<>>
    BY <1>7, <2>1 DEF NewOperation
  <2>3. \A n \in 1 .. Len(k.ops) : n \in 1 .. Len(i.ops) \/ n = Len(k.ops)
    BY <1>7, <2>2
  <2>4. \A n \in 1 .. Len(k.ops) - 1 : n \in 1 .. Len(i.ops)
    BY <1>7, <2>2
  <2>5. Known(i.steps, o.hash, o.site)
    BY <1>8, <2>1, CurrentCall DEF NewOperation
  <2>6. OpsOK(k)
    <3> SUFFICES ASSUME NEW n \in 1 .. Len(k.ops)
                 PROVE  /\ k.steps[k.ops[n].hash] = None
                        /\ Known(k.steps, k.ops[n].hash, k.ops[n].site)
                        /\ k.ops[n].op = "StepPlanned" => Program[k.ops[n].site].kind = "run"
                        /\ k.status = "running" => k.ops[n].site < k.at
                        /\ \A m \in 1 .. n - 1 : k.ops[m].site < k.ops[n].site
      BY DEF OpsOK
    <3>1. k.steps = i.steps
      BY DEF Hijacks
    <3>2. CASE n \in 1 .. Len(i.ops)
      <4>1. \A m \in 1 .. n - 1 : m \in 1 .. Len(i.ops)
        BY <1>7, <3>2
      <4>2. /\ i.steps[i.ops[n].hash] = None
            /\ Known(i.steps, i.ops[n].hash, i.ops[n].site)
            /\ i.ops[n].op = "StepPlanned" => Program[i.ops[n].site].kind = "run"
            /\ \A m \in 1 .. n - 1 : i.ops[m].site < i.ops[n].site
        BY <3>2 DEF LocalInv, OpsOK
      <4>3. k.ops[n] = i.ops[n] /\ \A m \in 1 .. n - 1 : k.ops[m] = i.ops[m]
        BY <2>2, <3>2, <4>1
      <4>4. k.status = "running" => i.ops[n].site < k.at
        BY <1>4, <1>7, <3>2
      <4> QED
        BY <3>1, <4>2, <4>3, <4>4
    <3>3. CASE n = Len(k.ops)
      BY <1>4, <1>7, <2>1, <2>2, <2>4, <2>5, <3>1, <3>3 DEF NewOperation
    <3> QED
      BY <2>3, <3>2, <3>3
  <2>7. \A n \in 1 .. Len(i.ops) : i.ops[n].op \notin Executed
    BY <1>8 DEF LocalInv, ExecutedOK
  <2>8. ExecutedOK(k)
    <3>1. o.op \in Executed =>
            k.cancelled /\ (k.target = o.hash \/ (k.target = None /\ ~k.plan))
      BY <1>0, <2>1 DEF NewOperation
    <3> QED
      BY <2>2, <2>3, <2>7, <3>1 DEF ExecutedOK
  <2> QED
    BY <2>6, <2>8
<1>9. ASSUME k.ops = i.ops
      PROVE  OpsOK(k) /\ ExecutedOK(k)
  <2>1. OpsOK(k)
    <3>1. \A n \in 1 .. Len(i.ops) :
            k.status = "running" => i.ops[n].site < k.at
      BY <1>4, <1>7
    <3>2. OpsOK(i)
      BY DEF LocalInv
    <3> QED
      BY <1>0, <1>9, <3>1, <3>2 DEF OpsOK
  <2>2. ExecutedOK(k)
    <3>1. ExecutedOK(i)
      BY DEF LocalInv
    <3> QED
      BY <1>0, <1>9, <3>1 DEF ExecutedOK
  <2> QED
    BY <2>1, <2>2
<1>10. OpsOK(k) /\ ExecutedOK(k)
  BY <1>8, <1>9 DEF Hijacks
<1>11. Reports(i) => Reports(k)
  <2>1. i.ops # <<>> => k.ops # <<>>
    BY <1>7 DEF Hijacks, NewOperation
  <2> QED
    BY <2>1 DEF Reports, Hijacks
<1>12. ASSUME i.target # None, ~k.cancelled, k.err = "none"
       PROVE  \E s \in Sites : /\ Known(i.steps, i.target, s)
                               /\ Program[s].kind = "run"
                               /\ t <= s /\ t \in Sites
                               /\ SameBlock(i.at, t) /\ SameBlock(t, s)
  <2>1. ~i.cancelled /\ i.err = "none" /\ i.steps[OpHash(i)] = None
        /\ (OpHash(i) # i.target \/ Program[i.at].kind # "run")
    BY <1>12 DEF Hijacks
  <2> QED
    BY <1>1, <1>12, <2>1, TargetStep
<1>13. TargetOK(k)
  BY <1>4, <1>12 DEF LocalInv, TargetOK, Hijacks
<1>14. StatusOK(k)
  <2>1. k.cancelled => Reports(k) \/ k.unexpected
    BY <1>11 DEF LocalInv, StatusOK, Hijacks
  <2>2. ~k.cancelled => Reports(k) \/ k.target # None
    BY DEF Hijacks
  <2>3. k.unexpected => k.cancelled /\ k.status \in {"running", "panicked"}
    <3> SUFFICES ASSUME k.unexpected
                 PROVE  k.cancelled /\ k.status \in {"running", "panicked"}
      OBVIOUS
    <3>1. i.unexpected /\ i.cancelled /\ k.cancelled
      BY DEF LocalInv, StatusOK, Hijacks
    <3>2. Program[i.at].parallel
      BY <3>1 DEF LocalInv, StatusOK
    <3> QED
      BY <3>1, <3>2 DEF Hijacks, Moved
  <2>4. k.status = "hijacked" => Reports(k)
    <3> SUFFICES ASSUME k.status = "hijacked", ~Reports(k)
                 PROVE  FALSE
      OBVIOUS
    <3>1. ~k.unexpected /\ ~k.cancelled /\ i.target # None /\ k.err = "none"
      BY <2>1, <2>2, <2>3 DEF Hijacks, Reports
    <3>2. SameBlock(i.at, t) /\ t \in Sites /\ t # i.at
      <4>1. i.at < t /\ t \in Nat /\ i.at \in Nat
        BY <1>1, OnwardIsLater, SitesAreNumbers
      <4> QED
        BY <1>12, <3>1, <4>1
    <3>3. Program[i.at].parallel
      BY <1>1, <3>2, BlockFacts
    <3> QED
      BY <3>2, <3>3 DEF Hijacks, Moved, t
  <2> QED
    BY <1>4, <2>1, <2>2, <2>3, <2>4 DEF StatusOK
<1>15. ReturnedOK(k)
  BY <1>2 DEF ReturnedOK
<1>16. AnsweredOK(k)
  <2>1. Answers(i) => Answers(k)
    <3>1. \A n \in 1 .. Len(i.ops) : n \in 1 .. Len(k.ops) /\ k.ops[n] = i.ops[n]
      <4>1. CASE k.ops = i.ops
        BY <4>1
      <4>2. ASSUME NEW o, NewOperation(i, k, o)
            PROVE  \A n \in 1 .. Len(i.ops) : n \in 1 .. Len(k.ops) /\ k.ops[n] = i.ops[n]
        BY <1>7, <4>2 DEF NewOperation
      <4> QED
        BY <4>1, <4>2 DEF Hijacks
    <3> QED
      BY <3>1 DEF Answers, Hijacks
  <2>2. k.cancelled => Answers(k) \/ k.unexpected
    BY <2>1 DEF LocalInv, AnsweredOK, Hijacks
  <2>3. k.unexpected => k.status # "hijacked"
    BY <1>14 DEF StatusOK
  <2>4. k.target # None /\ k.status = "hijacked" /\ ~k.cancelled => k.err # "none"
    <3> SUFFICES ASSUME i.target # None, k.status = "hijacked", ~k.cancelled,
                        k.err = "none"
                 PROVE  FALSE
      BY DEF Hijacks
    <3>1. SameBlock(i.at, t) /\ t \in Sites /\ t # i.at
      <4>1. i.at < t /\ t \in Nat /\ i.at \in Nat
        BY <1>1, OnwardIsLater, SitesAreNumbers
      <4> QED
        BY <1>12, <4>1
    <3>2. Program[i.at].parallel
      BY <1>1, <3>1, BlockFacts
    <3> QED
      BY <3>1, <3>2 DEF Hijacks, Moved, t
  <2> QED
    BY <1>2, <2>2, <2>3, <2>4 DEF AnsweredOK, Answers
<1> QED
  BY <1>3, <1>5, <1>6, <1>10, <1>13, <1>14, <1>15, <1>16 DEF LocalInv

\* The code of the step panicked.
Panics(i, k) ==
  /\ Kept(i, k) /\ k.ret = i.ret /\ k.ops = i.ops /\ k.err = i.err
  /\ k.cancelled
  /\ \/ /\ Program[i.at].parallel /\ k.unexpected /\ k.planned = i.planned
        /\ Moved(i, k, AfterBranch(i.at))
     \/ ~Program[i.at].parallel /\ k.unexpected = i.unexpected /\ k.status = "panicked"

LEMMA PanicsLocal ==
  ASSUME NEW i \in Invocations, LocalInv(i), i.status = "running", ~i.cancelled,
         NEW k \in Invocations, Panics(i, k)
  PROVE  LocalInv(k)
<1> DEFINE t == AfterBranch(i.at)
<1>1. i.at \in Sites /\ Onward(i.at, t) /\ ~SameBranch(i.at, t)
  BY InvocationType, AfterBranchIsOnward
<1> HIDE DEF t
<1>2. /\ k.steps = i.steps /\ k.target = i.target /\ k.plan = i.plan
      /\ k.ops = i.ops /\ k.err = i.err /\ k.cancelled
  BY DEF Panics, Kept
<1>3. ~i.unexpected
  BY DEF LocalInv, StatusOK
<1>4. k.status \in {"running", "panicked"}
  BY DEF Panics, Moved
<1>5. k.status = "running" =>
        /\ k.at = t /\ i.at < k.at /\ Onward(i.at, k.at)
        /\ k.unexpected /\ k.planned = i.planned
        /\ SameBlock(i.at, k.at) /\ ~SameBranch(i.at, k.at)
        /\ Program[k.at].parallel
  <2>1. k.status = "running" => k.unexpected /\ k.planned = i.planned /\ Moved(i, k, t)
    BY DEF Panics, t
  <2> QED
    BY <1>1, <2>1, MovedRunning
<1>6. PathOK(k)
  <2>1. CASE k.status = "running"
    BY <1>2, <1>3, <1>5, <2>1, PathStep DEF LocalInv
  <2> QED
    BY <2>1 DEF PathOK
<1>7. CountOK(k)
  BY <1>2 DEF CountOK
<1>8. OpsOK(k)
  <2>1. i.at \in Nat /\ k.at \in Nat /\ \A n \in 1 .. Len(i.ops) : i.ops[n].site \in Nat
    BY InvocationType, SitesAreNumbers DEF LocalInv, OpsOK, Known
  <2> QED
    BY <1>2, <1>5, <2>1 DEF LocalInv, OpsOK
<1>9. ExecutedOK(k)
  BY <1>2 DEF LocalInv, ExecutedOK
<1>10. StatusOK(k)
  BY <1>2, <1>3, <1>4, <1>5 DEF StatusOK, Panics, Moved
<1>11. TargetOK(k)
  BY <1>2 DEF LocalInv, TargetOK
<1>12. ReturnedOK(k)
  BY <1>4 DEF ReturnedOK
<1>13. AnsweredOK(k)
  BY <1>4 DEF AnsweredOK, Panics
<1> QED
  BY <1>2, <1>6, <1>7, <1>8, <1>9, <1>10, <1>11, <1>12, <1>13 DEF LocalInv

\* The function returned the error of the call.
Fails(i, k) ==
  /\ ~Program[i.at].parallel /\ i.steps[OpHash(i)] # None /\ FailedIn(i.steps, i.at)
  /\ Kept(i, k) /\ k.ops = i.ops /\ k.err = i.err /\ k.cancelled = i.cancelled
  /\ k.unexpected = i.unexpected
  /\ k.status = "returned" /\ k.ret # "none"

LEMMA FailsLocal ==
  ASSUME NEW i \in Invocations, LocalInv(i), i.status = "running", ~i.cancelled,
         NEW k \in Invocations, Fails(i, k)
  PROVE  LocalInv(k)
<1>1. Consistent(k.steps) /\ PathOK(k) /\ CountOK(k) /\ ReturnedOK(k)
  BY DEF LocalInv, Fails, Kept, PathOK, CountOK, ReturnedOK
<1>2. OpsOK(k)
  BY DEF LocalInv, Fails, Kept, OpsOK
<1>3. ExecutedOK(k)
  BY DEF LocalInv, Fails, Kept, ExecutedOK
<1>4. StatusOK(k)
  BY DEF LocalInv, Fails, StatusOK
<1>5. TargetOK(k)
  BY DEF LocalInv, Fails, Kept, TargetOK
<1>6. AnsweredOK(k)
  <2> SUFFICES ASSUME i.target # None, i.err = "none"
               PROVE  FALSE
    BY DEF AnsweredOK, Answers, Fails, Kept
  <2> DEFINE a == i.at
             r == i.steps
  <2>1. PICK s \in Sites : Known(r, i.target, s) /\ a <= s
    BY DEF LocalInv, TargetOK
  <2>2. a # s
    BY <2>1, CurrentCall DEF LocalInv, TargetOK, Known, Fails
  <2>3. a \in Sites /\ a \in 1 .. s - 1
    BY <2>1, <2>2, InvocationType, SitesAreNumbers DEF Sites
  <2>4. Elsewhere(a, s) \/ Past(r, a, s)
    BY <2>1, <2>3 DEF Known, Open
  <2>5. ~Program[a].parallel /\ FailedIn(r, a)
    BY DEF Fails
  <2> HIDE DEF a, r
  <2> QED
    BY <2>2, <2>3, <2>4, <2>5, ElsewhereFacts, BlockFacts DEF Past
<1> QED
  BY <1>1, <1>2, <1>3, <1>4, <1>5, <1>6 DEF LocalInv

-----------------------------------------------------------------------------
(* The operators on invocations.                                           *)

LEMMA IdsHold ==
  ASSUME NEW i \in Invocations
  PROVE  Program[i.at].id \in Ids
BY InvocationType DEF Ids

LEMMA NewOpFacts ==
  ASSUME NEW i \in Invocations
  PROVE  /\ NewOp(i) \in Invocations
         /\ Counted(i, NewOp(i))
         /\ NewOp(i).status = i.status /\ NewOp(i).steps = i.steps
         /\ NewOp(i).target = i.target /\ NewOp(i).plan = i.plan
         /\ NewOp(i).at = i.at /\ NewOp(i).ops = i.ops
         /\ NewOp(i).err = i.err /\ NewOp(i).ret = i.ret
         /\ NewOp(i).cancelled = i.cancelled /\ NewOp(i).planned = i.planned
         /\ NewOp(i).unexpected = i.unexpected
<1>1. [i.calls EXCEPT ![Program[i.at].id] = @ + 1] \in [Ids -> Nat]
  BY InvocationType, IdsHold
<1> QED
  BY <1>1 DEF NewOp, Counted, Invocations

LEMMA AppendOpFacts ==
  ASSUME NEW i \in Invocations, OpHash(i) \in Hashes, NEW op \in OpNames
  PROVE  LET o == [hash |-> OpHash(i), op |-> op, site |-> i.at]
             k == AppendOp(i, op)
         IN  /\ o \in Ops
             /\ k \in Invocations
             /\ k.ops = Append(i.ops, o)
             /\ k.status = i.status /\ k.steps = i.steps
             /\ k.target = i.target /\ k.plan = i.plan
             /\ k.at = i.at /\ k.calls = i.calls
             /\ k.err = i.err /\ k.ret = i.ret
             /\ k.cancelled = i.cancelled /\ k.planned = i.planned
             /\ k.unexpected = i.unexpected
<1> DEFINE o == [hash |-> OpHash(i), op |-> op, site |-> i.at]
<1>1. o \in Ops
  BY InvocationType DEF Ops
<1>2. Append(i.ops, o) \in Seq(Ops)
  <2> HIDE DEF o
  <2> QED
    BY <1>1, InvocationType
<1> QED
  BY <1>1, <1>2 DEF AppendOp, Invocations

LEMMA CancelFacts ==
  ASSUME NEW i \in Invocations
  PROVE  /\ Cancel(i) \in Invocations
         /\ Cancel(i).cancelled
         /\ Cancel(i).status = i.status /\ Cancel(i).steps = i.steps
         /\ Cancel(i).target = i.target /\ Cancel(i).plan = i.plan
         /\ Cancel(i).at = i.at /\ Cancel(i).calls = i.calls
         /\ Cancel(i).ops = i.ops
         /\ Cancel(i).err = i.err /\ Cancel(i).ret = i.ret
         /\ Cancel(i).planned = i.planned
         /\ Cancel(i).unexpected = i.unexpected
BY DEF Cancel, Invocations

\* mgr.SetErr.
SetErr(i, err) == [i EXCEPT !.err = err]

LEMMA SetErrFacts ==
  ASSUME NEW i \in Invocations, NEW err \in Errors
  PROVE  LET k == SetErr(i, err)
         IN  /\ k \in Invocations
             /\ k.err = err
             /\ k.status = i.status /\ k.steps = i.steps
             /\ k.target = i.target /\ k.plan = i.plan
             /\ k.at = i.at /\ k.calls = i.calls /\ k.ops = i.ops
             /\ k.ret = i.ret
             /\ k.cancelled = i.cancelled /\ k.planned = i.planned
             /\ k.unexpected = i.unexpected
BY DEF Invocations, SetErr

LEMMA GotoFacts ==
  ASSUME NEW i \in Invocations, i.status = "running", NEW t
  PROVE  LET k == Goto(i, t)
         IN  /\ k \in Invocations
             /\ Moved(i, k, t)
             /\ k.steps = i.steps /\ k.target = i.target /\ k.plan = i.plan
             /\ k.calls = i.calls /\ k.ops = i.ops
             /\ k.err = i.err /\ k.ret = i.ret
             /\ k.cancelled = i.cancelled /\ k.planned = i.planned
             /\ k.unexpected = i.unexpected
<1>1. CASE SameBlock(i.at, t)
  <2>1. t \in Sites /\ Goto(i, t) = [i EXCEPT !.at = t]
    BY <1>1 DEF Goto, SameBlock
  <2> QED
    BY <1>1, <2>1 DEF Moved, Invocations
<1>2. CASE ~SameBlock(i.at, t) /\ i.unexpected
  <2>1. Goto(i, t) = [i EXCEPT !.status = "panicked"]
    BY <1>2 DEF Goto, End
  <2> QED
    BY <1>2, <2>1 DEF Moved, Invocations, Statuses
<1>3. CASE ~SameBlock(i.at, t) /\ ~i.unexpected /\ i.planned
  <2>1. Goto(i, t) = [i EXCEPT !.status = "hijacked"]
    BY <1>3 DEF Goto, End
  <2> QED
    BY <1>3, <2>1 DEF Moved, Invocations, Statuses
<1>4. CASE ~SameBlock(i.at, t) /\ ~i.unexpected /\ ~i.planned /\ t \notin Sites
  <2>1. Goto(i, t) = [i EXCEPT !.status = "returned"]
    BY <1>4 DEF Goto, End
  <2> QED
    BY <1>4, <2>1 DEF Moved, Invocations, Statuses
<1>5. CASE ~SameBlock(i.at, t) /\ ~i.unexpected /\ ~i.planned /\ t \in Sites
  <2>1. Goto(i, t) = [i EXCEPT !.at = t]
    BY <1>5 DEF Goto
  <2> QED
    BY <1>5, <2>1 DEF Moved, Invocations
<1> QED
  BY <1>1, <1>2, <1>3, <1>4, <1>5

LEMMA MovedIsNotIdle ==
  ASSUME NEW i, NEW k, NEW t, Moved(i, k, t)
  PROVE  k.status # "idle"
BY DEF Moved

LEMMA HijackFacts ==
  ASSUME NEW i \in Invocations, i.status = "running"
  PROVE  LET k == Hijack(i)
         IN  /\ k \in Invocations /\ k.status # "idle"
             /\ \/ /\ Program[i.at].parallel /\ k.planned
                   /\ Moved(i, k, AfterBranch(i.at))
                \/ ~Program[i.at].parallel /\ k.status = "hijacked"
             /\ k.steps = i.steps /\ k.target = i.target /\ k.plan = i.plan
             /\ k.calls = i.calls /\ k.ops = i.ops
             /\ k.err = i.err /\ k.ret = i.ret
             /\ k.cancelled = i.cancelled /\ k.unexpected = i.unexpected
             /\ ~k.unexpected => k.status \in {"running", "hijacked"}
<1>1. CASE Program[i.at].parallel
  <2> DEFINE j == [i EXCEPT !.planned = TRUE]
             t == AfterBranch(i.at)
  <2>1. /\ j \in Invocations /\ j.planned /\ j.status = "running" /\ j.at = i.at
        /\ j.steps = i.steps /\ j.target = i.target /\ j.plan = i.plan
        /\ j.calls = i.calls /\ j.ops = i.ops
        /\ j.err = i.err /\ j.ret = i.ret
        /\ j.cancelled = i.cancelled /\ j.unexpected = i.unexpected
    BY DEF Invocations
  <2>2. Hijack(i) = Goto(j, t)
    BY <1>1 DEF Hijack, Parallel
  <2> HIDE DEF j, t
  <2> DEFINE k == Goto(j, t)
  <2>0. j \in Invocations /\ j.status = "running"
    BY <2>1
  <2>3. /\ k \in Invocations
        /\ Moved(j, k, t)
        /\ k.steps = j.steps /\ k.target = j.target /\ k.plan = j.plan
        /\ k.calls = j.calls /\ k.ops = j.ops
        /\ k.err = j.err /\ k.ret = j.ret
        /\ k.cancelled = j.cancelled /\ k.planned = j.planned
        /\ k.unexpected = j.unexpected
    BY <2>0, GotoFacts, Zenon
  <2> HIDE DEF k
  <2>4. Moved(i, k, t)
    BY <2>1, <2>3 DEF Moved
  <2>5. k.status # "idle"
    BY <2>4, MovedIsNotIdle
  <2>6. k.planned
    BY <2>1, <2>3
  <2>7. ~k.unexpected => k.status \in {"running", "hijacked"}
    BY <2>4, <2>6 DEF Moved
  <2> QED
    BY <1>1, <2>1, <2>2, <2>3, <2>4, <2>5, <2>6, <2>7 DEF k, t
<1>2. CASE ~Program[i.at].parallel
  <2>1. Hijack(i) = [i EXCEPT !.status = "hijacked"]
    BY <1>2 DEF Hijack, Parallel, End
  <2> DEFINE k == [i EXCEPT !.status = "hijacked"]
  <2>2. /\ k \in Invocations /\ k.status = "hijacked"
        /\ k.steps = i.steps /\ k.target = i.target /\ k.plan = i.plan
        /\ k.calls = i.calls /\ k.ops = i.ops
        /\ k.err = i.err /\ k.ret = i.ret
        /\ k.cancelled = i.cancelled /\ k.unexpected = i.unexpected
    BY DEF Invocations, Statuses
  <2> HIDE DEF k
  <2> QED
    BY <1>2, <2>1, <2>2 DEF k
<1> QED
  BY <1>1, <1>2

\* What every step of an invocation keeps.
StepKeeps(i, k) ==
  k \in Invocations /\ LocalInv(k) /\ Kept(i, k) /\ k.status # "idle"

LEMMA HijackStep ==
  ASSUME NEW i \in Invocations, LocalInv(i), i.status = "running",
         NEW j \in Invocations, j.status = "running", j.at = i.at,
         HijackCause(i, j)
  PROVE  StepKeeps(i, Hijack(j))
<1> DEFINE k == Hijack(j)
<1>1. /\ k \in Invocations /\ k.status # "idle"
      /\ \/ /\ Program[j.at].parallel /\ k.planned
            /\ Moved(j, k, AfterBranch(j.at))
         \/ ~Program[j.at].parallel /\ k.status = "hijacked"
      /\ k.steps = j.steps /\ k.target = j.target /\ k.plan = j.plan
      /\ k.calls = j.calls /\ k.ops = j.ops
      /\ k.err = j.err /\ k.ret = j.ret
      /\ k.cancelled = j.cancelled /\ k.unexpected = j.unexpected
  BY HijackFacts
<1> HIDE DEF k
<1>2. \/ /\ Program[i.at].parallel /\ k.planned
         /\ Moved(i, k, AfterBranch(i.at))
      \/ ~Program[i.at].parallel /\ k.status = "hijacked"
  BY <1>1 DEF Moved
<1>3. \A o : NewOperation(i, j, o) => NewOperation(i, k, o)
  BY <1>1 DEF NewOperation
<1>4. Counted(i, j) => Counted(i, k)
  BY <1>1 DEF Counted
<1>5. Reports(j) = Reports(k) /\ (Answers(j) => Answers(k))
  BY <1>1 DEF Reports, Answers
<1>6. Kept(i, k)
  BY <1>1 DEF Kept, HijackCause
<1>7. HijackCause(i, k)
  BY <1>1, <1>3, <1>4, <1>5, <1>6 DEF HijackCause
<1>8. LocalInv(k)
  BY <1>1, <1>2, <1>7, HijacksLocal DEF Hijacks
<1> QED
  BY <1>1, <1>6, <1>8 DEF StepKeeps, k

LEMMA PreflightStep ==
  ASSUME NEW i \in Invocations, LocalInv(i), i.status = "running", i.cancelled
  PROVE  StepKeeps(i, Hijack(i))
<1>1. HijackCause(i, i)
  BY DEF HijackCause, Kept
<1> QED
  BY <1>1, HijackStep

LEMMA FailInvocationStep ==
  ASSUME NEW i \in Invocations, LocalInv(i), i.status = "running", ~i.cancelled,
         NEW c \in {i, Cancel(i)}
  PROVE  StepKeeps(i, FailInvocation(c))
<1>1. c \in Invocations /\ c.status = "running" /\ c.at = i.at /\ c.calls = i.calls
      /\ Kept(i, c) /\ c.ret = i.ret /\ c.unexpected = i.unexpected /\ c.ops = i.ops
  BY CancelFacts DEF Kept
<1> DEFINE n == NewOp(c)
           j == SetErr(n, "plain")
<1>2. n \in Invocations /\ n.status = "running" /\ n.at = i.at /\ Counted(c, n)
      /\ Kept(c, n) /\ n.ret = c.ret /\ n.unexpected = c.unexpected /\ n.ops = c.ops
  BY <1>1, NewOpFacts DEF Kept
<1> HIDE DEF n
<1>3. j \in Invocations /\ j.status = "running" /\ j.at = i.at /\ j.calls = n.calls
      /\ Kept(n, j) /\ j.ret = n.ret /\ j.unexpected = n.unexpected /\ j.ops = n.ops
      /\ j.err = "plain"
  BY <1>2, SetErrFacts DEF Kept, Errors
<1>4. FailInvocation(c) = Hijack(j)
  BY DEF FailInvocation, SetErr, n
<1> HIDE DEF j
<1>5. Kept(i, j) /\ Counted(i, j) /\ Reports(j) /\ Answers(j) /\ j.err # "none"
      /\ j.ret = i.ret /\ j.unexpected = i.unexpected /\ j.ops = i.ops
  BY <1>1, <1>2, <1>3 DEF Kept, Counted, Reports, Answers
<1>6. HijackCause(i, j)
  BY <1>5 DEF HijackCause
<1> QED
  BY <1>3, <1>4, <1>6, HijackStep

LEMMA SkipRunStep ==
  ASSUME NEW i \in Invocations, LocalInv(i), i.status = "running", ~i.cancelled,
         i.steps[OpHash(i)] = None, i.target \notin {None, OpHash(i)}
  PROVE  StepKeeps(i, Hijack(NewOp(i)))
<1> DEFINE j == NewOp(i)
<1>1. /\ j \in Invocations /\ j.status = "running" /\ j.at = i.at /\ Counted(i, j)
      /\ Kept(i, j) /\ j.ret = i.ret /\ j.unexpected = i.unexpected
      /\ j.ops = i.ops /\ j.err = i.err /\ j.cancelled = i.cancelled
  BY NewOpFacts DEF Kept
<1> HIDE DEF j
<1>2. HijackCause(i, j)
  BY <1>1 DEF HijackCause
<1> QED
  BY <1>1, <1>2, HijackStep DEF j

OpOf(i, op) == [hash |-> OpHash(i), op |-> op, site |-> i.at]

\* NewOp and AppendOp.
Appended(i, k, op) ==
  /\ k \in Invocations /\ k.status = i.status /\ k.at = i.at
  /\ Kept(i, k) /\ k.ret = i.ret /\ k.unexpected = i.unexpected
  /\ Counted(i, k) /\ OpOf(i, op) \in Ops
  /\ k.ops = Append(i.ops, OpOf(i, op)) /\ k.ops # <<>>

LEMMA AppendedFacts ==
  ASSUME NEW i \in Invocations, LocalInv(i), i.status = "running", ~i.cancelled,
         NEW op \in OpNames
  PROVE  LET k == NewOp(AppendOp(i, op))
         IN  /\ Appended(i, k, op) /\ k.err = i.err /\ ~k.cancelled
             /\ Appended(i, Cancel(k), op) /\ Cancel(k).err = i.err
             /\ Cancel(k).cancelled
             /\ \A err \in Errors :
                  LET e == [Cancel(k) EXCEPT !.err = err]
                  IN  Appended(i, e, op) /\ e.err = err /\ e.cancelled
<1> DEFINE a == AppendOp(i, op)
           k == NewOp(a)
           c == Cancel(k)
<1>0. OpHash(i) \in Hashes
  BY CurrentCall
<1>1. /\ OpOf(i, op) \in Ops
      /\ a \in Invocations
      /\ a.ops = Append(i.ops, OpOf(i, op))
      /\ a.status = i.status /\ Kept(i, a)
      /\ a.at = i.at /\ a.calls = i.calls
      /\ a.err = i.err /\ a.ret = i.ret
      /\ a.cancelled = i.cancelled /\ a.unexpected = i.unexpected
  BY <1>0, AppendOpFacts DEF OpOf, Kept
<1>2. a.ops # <<>>
  <2>1. i.ops \in Seq(Ops) /\ OpOf(i, op) \in Ops
    BY <1>1, InvocationType
  <2> HIDE DEF a
  <2> QED
    BY <1>1, <2>1
<1> HIDE DEF a
<1>3. /\ k \in Invocations
      /\ Counted(a, k)
      /\ k.status = a.status /\ Kept(a, k)
      /\ k.at = a.at /\ k.ops = a.ops
      /\ k.err = a.err /\ k.ret = a.ret
      /\ k.cancelled = a.cancelled /\ k.unexpected = a.unexpected
  BY <1>1, NewOpFacts DEF Kept
<1> HIDE DEF k
<1>4. Appended(i, k, op) /\ k.err = i.err /\ ~k.cancelled
  BY <1>1, <1>2, <1>3 DEF Appended, Kept, Counted
<1>5. /\ c \in Invocations
      /\ c.cancelled
      /\ c.status = k.status /\ Kept(k, c)
      /\ c.at = k.at /\ c.calls = k.calls
      /\ c.ops = k.ops
      /\ c.err = k.err /\ c.ret = k.ret
      /\ c.unexpected = k.unexpected
  BY <1>3, CancelFacts DEF Kept
<1> HIDE DEF c
<1>6. Appended(i, c, op) /\ c.err = i.err /\ c.cancelled
  BY <1>4, <1>5 DEF Appended, Kept, Counted
<1>7. ASSUME NEW err \in Errors
      PROVE  LET e == [c EXCEPT !.err = err]
             IN  Appended(i, e, op) /\ e.err = err /\ e.cancelled
  <2> DEFINE e == SetErr(c, err)
  <2>0. c \in Invocations
    BY <1>5
  <2>1. /\ e \in Invocations
        /\ e.err = err
        /\ e.status = c.status /\ Kept(c, e)
        /\ e.at = c.at /\ e.calls = c.calls /\ e.ops = c.ops
        /\ e.ret = c.ret
        /\ e.cancelled = c.cancelled /\ e.unexpected = c.unexpected
    BY <2>0, SetErrFacts DEF Kept
  <2> HIDE DEF e
  <2>2. Appended(i, e, op) /\ e.err = err /\ e.cancelled
    BY <1>6, <2>1 DEF Appended, Kept, Counted
  <2> QED
    BY <2>2 DEF e, SetErr
<1> QED
  BY <1>4, <1>6, <1>7 DEF c, k, a

LEMMA AppendedStep ==
  ASSUME NEW i \in Invocations, LocalInv(i), i.status = "running", ~i.cancelled,
         i.steps[OpHash(i)] = None,
         NEW op \in OpNames, op = "StepPlanned" => Program[i.at].kind = "run",
         NEW j, Appended(i, j, op),
         i.err # "none" => j.err # "none",
         j.cancelled <=> op \in Executed,
         op \in Executed =>
           i.target = OpHash(i) \/ (i.target = None /\ ~i.plan),
         ~j.cancelled => i.target = None \/ Program[i.at].kind # "run"
  PROVE  StepKeeps(i, Hijack(j))
<1>1. NewOperation(i, j, OpOf(i, op))
  BY DEF NewOperation, Appended, OpOf
<1>2. Reports(j)
  BY DEF Reports, Appended
<1>3. op \in Executed => Answers(j)
  <2>1. i.ops \in Seq(Ops) /\ OpOf(i, op) \in Ops /\ j.ops = Append(i.ops, OpOf(i, op))
    BY InvocationType DEF Appended
  <2>2. Len(j.ops) \in 1 .. Len(j.ops) /\ j.ops[Len(j.ops)] = OpOf(i, op)
    BY <2>1
  <2>3. OpOf(i, op).op = op
    BY DEF OpOf
  <2> QED
    BY <2>2, <2>3 DEF Answers
<1>4. HijackCause(i, j)
  BY <1>1, <1>2, <1>3 DEF HijackCause, Appended
<1> QED
  BY <1>4, HijackStep DEF Appended

LEMMA ValueStep ==
  ASSUME NEW i \in Invocations, LocalInv(i), i.status = "running", ~i.cancelled,
         i.steps[OpHash(i)] # None,
         ErrorOf(Program[i.at].kind, i.steps[OpHash(i)].value) = "none"
  PROVE  StepKeeps(i, Value(NewOp(i)))
<1> DEFINE j == NewOp(i)
           t == i.at + 1
           k == Goto(j, t)
<1>1. /\ j \in Invocations /\ j.status = "running" /\ j.at = i.at /\ Counted(i, j)
      /\ Kept(i, j) /\ j.ret = i.ret /\ j.ops = i.ops /\ j.err = i.err
      /\ j.cancelled = i.cancelled /\ j.planned = i.planned
      /\ j.unexpected = i.unexpected
  BY NewOpFacts DEF Kept
<1>2. Value(NewOp(i)) = k
  BY <1>1 DEF Value
<1>3. Onward(i.at, t) /\ Passed(i.steps, i.at, t)
  <2>1. i.at \in Sites /\ i.at \in Nat /\ Len(Program) \in Nat
    BY InvocationType, SitesAreNumbers
  <2>2. i.at + 1 \in i.at + 1 .. Len(Program) + 1
        /\ \A u \in i.at + 1 .. i.at + 1 - 1 : FALSE
    BY <2>1 DEF Sites
  <2>3. HasResultIn(i.steps, i.at) /\ ~FailedIn(i.steps, i.at)
    BY CurrentCall
  <2> QED
    BY <2>2, <2>3 DEF Onward, Passed
<1> HIDE DEF j, t
<1>4. /\ k \in Invocations
      /\ Moved(j, k, t)
      /\ Kept(j, k) /\ k.calls = j.calls /\ k.ops = j.ops
      /\ k.err = j.err /\ k.ret = j.ret
      /\ k.cancelled = j.cancelled /\ k.planned = j.planned
      /\ k.unexpected = j.unexpected
  BY <1>1, GotoFacts DEF Kept
<1> HIDE DEF k
<1>5. Moved(i, k, t) /\ k.status # "idle"
  BY <1>1, <1>4, MovedIsNotIdle DEF Moved
<1>6. GoesOn(i, k)
  BY <1>1, <1>3, <1>4, <1>5 DEF GoesOn, Kept, Counted
<1>7. LocalInv(k) /\ Kept(i, k)
  BY <1>4, <1>6, GoesOnLocal DEF GoesOn
<1> QED
  BY <1>2, <1>4, <1>5, <1>7 DEF StepKeeps

LEMMA ErrorStep ==
  ASSUME NEW i \in Invocations, LocalInv(i), i.status = "running", ~i.cancelled,
         i.steps[OpHash(i)] # None, NEW err \in Errors, err # "none",
         err = ErrorOf(Program[i.at].kind, i.steps[OpHash(i)].value)
  PROVE  StepKeeps(i, Error(NewOp(i), err))
<1> DEFINE j == NewOp(i)
           t == AfterBranch(i.at)
<1>1. /\ j \in Invocations /\ j.status = "running" /\ j.at = i.at /\ Counted(i, j)
      /\ Kept(i, j) /\ j.ret = i.ret /\ j.ops = i.ops /\ j.err = i.err
      /\ j.cancelled = i.cancelled /\ j.planned = i.planned
      /\ j.unexpected = i.unexpected
  BY NewOpFacts DEF Kept
<1>2. HasResultIn(i.steps, i.at) /\ FailedIn(i.steps, i.at)
  BY CurrentCall
<1>3. Onward(i.at, t) /\ ~SameBranch(i.at, t)
  BY InvocationType, AfterBranchIsOnward
<1>4. CASE Program[i.at].parallel
  <2> DEFINE k == Goto(j, t)
  <2>1. Error(NewOp(i), err) = k
    BY <1>1, <1>4 DEF Error, Parallel
  <2>2. Passed(i.steps, i.at, t)
    BY <1>2, <1>3, <1>4 DEF Passed
  <2> HIDE DEF j, t
  <2>4. /\ k \in Invocations
        /\ Moved(j, k, t)
        /\ Kept(j, k) /\ k.calls = j.calls /\ k.ops = j.ops
        /\ k.err = j.err /\ k.ret = j.ret
        /\ k.cancelled = j.cancelled /\ k.planned = j.planned
        /\ k.unexpected = j.unexpected
    BY <1>1, GotoFacts DEF Kept
  <2> HIDE DEF k
  <2>5. Moved(i, k, t) /\ k.status # "idle"
    BY <1>1, <2>4, MovedIsNotIdle DEF Moved
  <2>6. GoesOn(i, k)
    BY <1>1, <1>3, <2>2, <2>4, <2>5 DEF GoesOn, Kept, Counted
  <2>7. LocalInv(k) /\ Kept(i, k)
    BY <2>4, <2>6, GoesOnLocal DEF GoesOn
  <2> QED
    BY <2>1, <2>4, <2>5, <2>7 DEF StepKeeps
<1>5. CASE ~Program[i.at].parallel
  <2> HIDE DEF j
  <2> DEFINE e == [j EXCEPT !.status = "returned"]
             k == [e EXCEPT !.ret = err]
  <2>1. Error(j, err) = k
    BY <1>1, <1>5 DEF Error, Parallel, End
  <2>2. /\ k \in Invocations /\ k.status = "returned" /\ k.ret = err
        /\ Kept(j, k) /\ k.ops = j.ops /\ k.cancelled = j.cancelled
        /\ k.unexpected = j.unexpected /\ k.err = j.err
    BY <1>1 DEF Invocations, Statuses, Kept
  <2> HIDE DEF k
  <2>3. Fails(i, k)
    BY <1>1, <1>2, <1>5, <2>2 DEF Fails, Kept
  <2>4. LocalInv(k) /\ Kept(i, k)
    BY <2>2, <2>3, FailsLocal DEF Fails
  <2> QED
    BY <2>1, <2>2, <2>4 DEF StepKeeps, j
<1> QED
  BY <1>4, <1>5

LEMMA PanicStep ==
  ASSUME NEW i \in Invocations, LocalInv(i), i.status = "running", ~i.cancelled
  PROVE  StepKeeps(i, Panic(Cancel(NewOp(i))))
<1> DEFINE n == NewOp(i)
           j == Cancel(n)
           t == AfterBranch(i.at)
<1>1. /\ n \in Invocations /\ n.status = "running" /\ n.at = i.at
      /\ Kept(i, n) /\ n.ret = i.ret /\ n.ops = i.ops /\ n.err = i.err
      /\ n.planned = i.planned /\ n.unexpected = i.unexpected
  BY NewOpFacts DEF Kept
<1> HIDE DEF n
<1>2. /\ j \in Invocations /\ j.status = "running" /\ j.at = i.at
      /\ Kept(i, j) /\ j.ret = i.ret /\ j.ops = i.ops /\ j.err = i.err
      /\ j.planned = i.planned /\ j.unexpected = i.unexpected /\ j.cancelled
  BY <1>1, CancelFacts DEF Kept
<1> HIDE DEF j
<1>3. CASE Program[i.at].parallel
  <2> DEFINE p == [j EXCEPT !.unexpected = TRUE]
             k == Goto(p, t)
  <2>1. /\ p \in Invocations /\ p.status = "running" /\ p.at = i.at
        /\ Kept(i, p) /\ p.ret = i.ret /\ p.ops = i.ops /\ p.err = i.err
        /\ p.planned = i.planned /\ p.unexpected /\ p.cancelled
    BY <1>2 DEF Invocations, Kept
  <2>2. Panic(j) = k
    BY <1>2, <1>3 DEF Panic, Parallel
  <2> HIDE DEF p, t
  <2>4. /\ k \in Invocations
        /\ Moved(p, k, t)
        /\ Kept(p, k) /\ k.ops = p.ops
        /\ k.err = p.err /\ k.ret = p.ret
        /\ k.cancelled = p.cancelled /\ k.planned = p.planned
        /\ k.unexpected = p.unexpected
    <3>1. p \in Invocations /\ p.status = "running"
      BY <2>1
    <3> QED
      BY <3>1, GotoFacts DEF Kept
  <2> HIDE DEF k
  <2>5. Moved(i, k, t) /\ k.status # "idle"
    BY <2>1, <2>4, MovedIsNotIdle DEF Moved
  <2>6. Panics(i, k)
    BY <1>3, <2>1, <2>4, <2>5 DEF Panics, Kept, t
  <2>7. LocalInv(k) /\ Kept(i, k)
    BY <2>4, <2>6, PanicsLocal DEF Panics
  <2> QED
    BY <2>2, <2>4, <2>5, <2>7 DEF StepKeeps, j, n
<1>4. CASE ~Program[i.at].parallel
  <2> DEFINE k == [j EXCEPT !.status = "panicked"]
  <2>1. Panic(j) = k
    BY <1>2, <1>4 DEF Panic, Parallel, End
  <2>2. /\ k \in Invocations /\ k.status = "panicked"
        /\ Kept(j, k) /\ k.ops = j.ops /\ k.err = j.err /\ k.ret = j.ret
        /\ k.cancelled = j.cancelled /\ k.unexpected = j.unexpected
    BY <1>2 DEF Invocations, Statuses, Kept
  <2> HIDE DEF k
  <2>3. Panics(i, k)
    BY <1>2, <1>4, <2>2 DEF Panics, Kept
  <2>4. LocalInv(k) /\ Kept(i, k)
    BY <2>2, <2>3, PanicsLocal DEF Panics
  <2> QED
    BY <2>1, <2>2, <2>4 DEF StepKeeps, j, n
<1> QED
  BY <1>3, <1>4

LEMMA FreshFacts ==
  ASSUME NEW steps \in ResultMap, NEW target \in Hashes \cup {None},
         NEW plan \in BOOLEAN
  PROVE  LET k == Fresh(steps, target, plan)
         IN  /\ k \in Invocations
             /\ k.status = "running" /\ k.steps = steps /\ k.target = target
             /\ k.plan = plan /\ k.at = 1 /\ k.calls = [id \in Ids |-> 0]
             /\ k.ops = <<>> /\ k.err = "none" /\ k.ret = "none"
             /\ ~k.cancelled /\ ~k.planned /\ ~k.unexpected
<1>1. 1 \in Sites
  BY ProgramAssumption DEF Sites
<1> QED
  BY <1>1 DEF Fresh, Invocations, ResultMap, Statuses, Errors

\* A new invocation, for no step or for a step that can be run.
LEMMA FreshStep ==
  ASSUME NEW steps \in ResultMap, Consistent(steps), NEW plan \in BOOLEAN,
         NEW target \in Hashes \cup {None},
         target # None =>
           /\ steps[target] = None
           /\ \E s \in Sites : Known(steps, target, s) /\ Program[s].kind = "run"
  PROVE  LocalInv(Fresh(steps, target, plan))
<1> DEFINE k == Fresh(steps, target, plan)
<1>1. /\ k \in Invocations
      /\ k.status = "running" /\ k.steps = steps /\ k.target = target
      /\ k.plan = plan /\ k.at = 1 /\ k.calls = [id \in Ids |-> 0]
      /\ k.ops = <<>> /\ k.err = "none" /\ k.ret = "none"
      /\ ~k.cancelled /\ ~k.planned /\ ~k.unexpected
  BY FreshFacts
<1> HIDE DEF k
<1>2. 1 \in Nat /\ \A u \in 1 .. 1 - 1 : FALSE
  OBVIOUS
<1>3. PathOK(k)
  BY <1>1, <1>2 DEF PathOK
<1>4. CountOK(k)
  <2> SUFFICES ASSUME NEW id \in Ids
               PROVE  k.calls[id] = Cardinality(Prior(k.steps, id, k.at))
    BY DEF CountOK
  <2>1. Prior(k.steps, id, k.at) = {}
    BY <1>1, <1>2 DEF Prior
  <2> QED
    BY <1>1, <2>1, FS_EmptySet
<1>5. OpsOK(k) /\ ExecutedOK(k)
  BY <1>1 DEF OpsOK, ExecutedOK
<1>6. StatusOK(k) /\ ReturnedOK(k) /\ AnsweredOK(k) /\ Consistent(k.steps)
  BY <1>1 DEF StatusOK, ReturnedOK, AnsweredOK
<1>7. TargetOK(k)
  BY <1>1, SitesAreNumbers DEF TargetOK, Sites
<1> QED
  BY <1>3, <1>4, <1>5, <1>6, <1>7 DEF LocalInv, k

LEMMA IdleStep ==
  /\ IdleInvocation \in Invocations /\ LocalInv(IdleInvocation)
  /\ IdleInvocation.status = "idle" /\ IdleInvocation.target = None
  /\ IdleInvocation.ops = <<>> /\ IdleInvocation.steps = NoResults
  /\ NoResults \in ResultMap /\ Consistent(NoResults)
<1>1. NoResults \in ResultMap /\ Consistent(NoResults)
  BY DEF NoResults, ResultMap, Consistent
<1> DEFINE f == Fresh(NoResults, None, FALSE)
           k == [f EXCEPT !.status = "idle"]
<1>2. /\ f \in Invocations
      /\ f.status = "running" /\ f.steps = NoResults /\ f.target = None
      /\ f.plan = FALSE /\ f.at = 1 /\ f.calls = [id \in Ids |-> 0]
      /\ f.ops = <<>> /\ f.err = "none" /\ f.ret = "none"
      /\ ~f.cancelled /\ ~f.planned /\ ~f.unexpected
  BY <1>1, FreshFacts
<1> HIDE DEF f
<1>3. /\ k \in Invocations /\ k.status = "idle" /\ k.steps = NoResults
      /\ k.target = None /\ k.ops = <<>> /\ ~k.cancelled /\ ~k.unexpected
  BY <1>2 DEF Invocations, Statuses
<1>4. IdleInvocation = k
  BY DEF IdleInvocation, f
<1> HIDE DEF k
<1>5. LocalInv(k)
  BY <1>1, <1>3 DEF LocalInv, PathOK, CountOK, OpsOK, ExecutedOK, StatusOK,
                    TargetOK, ReturnedOK, AnsweredOK
<1> QED
  BY <1>1, <1>3, <1>4, <1>5

LEMMA ErrorOfType ==
  ASSUME NEW kind, NEW value
  PROVE  ErrorOf(kind, value) \in Errors
BY DEF ErrorOf, Errors

\* Every step of w.
LEMMA StepLocal ==
  ASSUME TypeOK, NEW w \in Workers, LocalInv(inv[w]), Step(w)
  PROVE  \E k : /\ inv' = [inv EXCEPT ![w] = k]
                /\ inv[w].status = "running"
                /\ StepKeeps(inv[w], k)
<1> DEFINE i == inv[w]
<1>0. i \in Invocations
  BY DEF TypeOK
<1>1. CASE Preflight(w)
  BY <1>0, <1>1, PreflightStep DEF Preflight
<1>2. CASE ReturnResult(w)
  <2> DEFINE err == ErrorOf(Kind(w), MemoValue(w))
  <2>1. /\ i.status = "running" /\ ~i.cancelled /\ i.steps[OpHash(i)] # None
        /\ inv' = [inv EXCEPT ![w] = IF err = "none" THEN Value(NewOp(i))
                                                    ELSE Error(NewOp(i), err)]
    BY <1>2 DEF ReturnResult, Called, Memoized
  <2>2. err = ErrorOf(Program[i.at].kind, i.steps[OpHash(i)].value) /\ err \in Errors
    BY ErrorOfType DEF Kind, MemoValue
  <2> HIDE DEF i, err
  <2>3. CASE err = "none"
    BY <1>0, <2>1, <2>2, <2>3, ValueStep DEF i
  <2>4. CASE err # "none"
    BY <1>0, <2>1, <2>2, <2>4, ErrorStep DEF i
  <2> QED
    BY <2>3, <2>4
<1>3. CASE ReturnBadResult(w)
  BY <1>0, <1>3, FailInvocationStep DEF ReturnBadResult, Called
<1>4. ASSUME NEW kind \in Deferred, Defer(w, kind)
      PROVE  \E k : /\ inv' = [inv EXCEPT ![w] = k]
                    /\ inv[w].status = "running"
                    /\ StepKeeps(inv[w], k)
  <2> DEFINE j == NewOp(AppendOp(i, kind))
  <2>1. /\ i.status = "running" /\ ~i.cancelled /\ i.steps[OpHash(i)] = None
        /\ Program[i.at].kind = kind
        /\ inv' = [inv EXCEPT ![w] = Hijack(j)]
    BY <1>4 DEF Defer, Called, Memoized, Kind
  <2>2. kind \in OpNames /\ kind # "run" /\ kind # "StepPlanned" /\ kind \notin Executed
    BY DEF OpNames, Deferred, Executed
  <2>3. Appended(i, j, kind) /\ j.err = i.err /\ ~j.cancelled
    BY <1>0, <2>1, <2>2, AppendedFacts
  <2> HIDE DEF i, j
  <2>4. StepKeeps(i, Hijack(j))
    BY <1>0, <2>1, <2>2, <2>3, AppendedStep DEF i
  <2> QED
    BY <2>1, <2>4 DEF i
<1>5. CASE InferUnencodable(w)
  BY <1>0, <1>5, FailInvocationStep DEF InferUnencodable, Called
<1>6. CASE SkipRun(w)
  BY <1>0, <1>6, SkipRunStep DEF SkipRun, Called, Memoized, OtherTarget
<1>7. CASE PlanRun(w)
  <2> DEFINE j == NewOp(AppendOp(i, "StepPlanned"))
  <2>1. /\ i.status = "running" /\ ~i.cancelled /\ i.steps[OpHash(i)] = None
        /\ Program[i.at].kind = "run" /\ i.target = None
        /\ inv' = [inv EXCEPT ![w] = Hijack(j)]
    BY <1>7 DEF PlanRun, Called, Memoized, Kind, Plans
  <2>2. "StepPlanned" \in OpNames /\ "StepPlanned" \notin Executed
    BY DEF OpNames, Executed
  <2>3. Appended(i, j, "StepPlanned") /\ j.err = i.err /\ ~j.cancelled
    BY <1>0, <2>1, <2>2, AppendedFacts
  <2> HIDE DEF i, j
  <2>4. StepKeeps(i, Hijack(j))
    BY <1>0, <2>1, <2>2, <2>3, AppendedStep DEF i
  <2> QED
    BY <2>1, <2>4 DEF i
<1>8. ASSUME Runs(w)
      PROVE  /\ i.status = "running" /\ ~i.cancelled /\ i.steps[OpHash(i)] = None
             /\ Program[i.at].kind = "run"
             /\ i.target = OpHash(i) \/ (i.target = None /\ ~i.plan)
  BY <1>8 DEF Runs, Called, Memoized, Kind, OtherTarget, Plans
<1>9. ASSUME Runs(w), NEW op \in Executed
      PROVE  LET j == Cancel(NewOp(AppendOp(i, op)))
             IN  /\ StepKeeps(i, Hijack(j))
                 /\ \A err \in Errors \ {"none"} :
                      StepKeeps(i, Hijack([j EXCEPT !.err = err]))
  <2> DEFINE j == Cancel(NewOp(AppendOp(i, op)))
  <2>1. op \in OpNames /\ op # "StepPlanned"
    BY DEF OpNames, Executed
  <2>2. /\ Appended(i, j, op) /\ j.err = i.err /\ j.cancelled
        /\ \A err \in Errors :
             LET e == [j EXCEPT !.err = err]
             IN  Appended(i, e, op) /\ e.err = err /\ e.cancelled
    BY <1>0, <1>8, <1>9, <2>1, AppendedFacts
  <2> HIDE DEF i, j
  <2>3. StepKeeps(i, Hijack(j))
    BY <1>0, <1>8, <1>9, <2>1, <2>2, AppendedStep DEF i
  <2>4. ASSUME NEW err \in Errors \ {"none"}
        PROVE  StepKeeps(i, Hijack([j EXCEPT !.err = err]))
    <3> DEFINE e == [j EXCEPT !.err = err]
    <3>1. Appended(i, e, op) /\ e.err # "none" /\ e.cancelled
      BY <2>2
    <3> HIDE DEF e
    <3>2. StepKeeps(i, Hijack(e))
      BY <1>0, <1>8, <1>9, <2>1, <3>1, AppendedStep DEF i
    <3> QED
      BY <3>2 DEF e
  <2> QED
    BY <2>3, <2>4 DEF j
<1>10. CASE RunSucceeds(w)
  BY <1>8, <1>9, <1>10 DEF RunSucceeds, Executed
<1>11. ASSUME NEW err \in {"plain", "noRetry"}, RunFails(w, err)
       PROVE  \E k : /\ inv' = [inv EXCEPT ![w] = k]
                     /\ inv[w].status = "running"
                     /\ StepKeeps(inv[w], k)
  BY <1>8, <1>9, <1>11 DEF RunFails, Executed, Errors
<1>12. CASE \E wrapped \in BOOLEAN : RunReturnsStepError(w, wrapped)
  BY <1>0, <1>8, <1>12, FailInvocationStep DEF RunReturnsStepError
<1>13. CASE RunUnencodable(w)
  BY <1>8, <1>9, <1>13 DEF RunUnencodable, Executed, Errors
<1>14. CASE RunPanics(w)
  BY <1>0, <1>8, <1>14, PanicStep DEF RunPanics
<1> QED
  BY <1>1, <1>2, <1>3, <1>4, <1>5, <1>6, <1>7, <1>10, <1>11, <1>12, <1>13, <1>14
     DEF Step, Sleep, WaitForEvent, Invoke, Infer, Deferred

=============================================================================
