--------------------------- MODULE AssemblyProofs ---------------------------
(***************************************************************************)
(* Processes that assemble a system, for every number of them, every mesh  *)
(* with every ownership of its cells and every list of calls.  The first   *)
(* part is their lock step: the stamper's compress is the only place where *)
(* the processes wait for each other, and nothing makes them wait before   *)
(* an updater zeroes what it is about to fill: a fast process may have     *)
(* stamped its cells when a slow one zeroes the same matrix.  The second   *)
(* part, which needs it, is what they assemble: symmetric matrices.        *)
(***************************************************************************)
EXTENDS Assembly, FiniteSetTheorems, WellFoundedInduction, TLAPS

AssemblyStep == AssemblyNext \/ Done

(***************************************************************************)
(* The inductive invariant.  Processes are never a call apart, and within  *)
(* a call a compress apart at most in one way: some have not entered it    *)
(* (stamp 0), the others are in its first stamp.  Until one process has    *)
(* compressed, what the call fills is zero in the owners' memory.          *)
(***************************************************************************)
Places == [call : Int, stamp : Nat, cells : SUBSET Cells]

PlaceInv ==
  /\ at \in [Processes -> Places]
  /\ waiting \subseteq Processes
  /\ \A p \in Processes :
       /\ at[p].stamp = 0 => at[p].cells = {}
       /\ at[p].stamp > 0 => Running(p)
       /\ p \in waiting => at[p].stamp > 0 /\ at[p].cells = {}

LockStep ==
  \A p, q \in Processes :
    /\ at[p].call = at[q].call
    /\ at[p].stamp = at[q].stamp \/ {at[p].stamp, at[q].stamp} \subseteq {0, 1}

ZeroInv ==
  /\ terms = [key \in DOMAIN terms |-> terms[key]]
  /\ \A p \in Processes : at[p].stamp = 1 =>
       \A key \in Keys(CallOf(p)) : key \in DOMAIN terms /\ terms[key] = Zero(key[1])

LockInv == PlaceInv /\ LockStep /\ ZeroInv

-----------------------------------------------------------------------------
(***************************************************************************)
(* What is proved of them.                                                 *)
(***************************************************************************)
\* The processes that meet in a compress have all stamped the same term.
CollectiveCallsMatch == waiting = Processes => \A p, q \in Processes : at[p] = at[q]

\* The guards of the actions.
CanBegin(p)  == Running(p) /\ at[p].stamp = 0
CanStamp(p)  == at[p].cells # {}
CanArrive(p) == Running(p) /\ at[p].stamp > 0 /\ at[p].cells = {} /\ p \notin waiting
CanCompress  == waiting = Processes /\ \A p, q \in Processes : at[p] = at[q]
CanSolve     == \A p \in Processes : ~Ended(p) /\ CallOf(p).op = "solve"
SomebodyCanStep ==
  \/ AllEnded
  \/ \E p \in Processes : CanBegin(p) \/ CanStamp(p) \/ CanArrive(p)
  \/ CanCompress
  \/ CanSolve

\* A process that enters a call after another one wipes nothing out.
LateZeroingWipesNothing ==
  \A p \in Processes : Begin(p) /\ (\E q \in Processes : at[q].stamp > 0) => terms' = terms

-----------------------------------------------------------------------------
\* Every call stamps something.
LEMMA CallsStamp == \A call : Len(Stamps(call)) \in Nat /\ Len(Stamps(call)) > 0
<1>1. Len(FixedStamps) \in Nat /\ Len(FixedStamps) > 0
  BY DEF FixedStamps, SAAFFixedStamps, DiffusionFixedStamps, DriftFixedStamps
<1> QED
  BY <1>1 DEF Stamps

\* The problem and the calls never change, and with them what a call is.
LEMMA SameCalls ==
  ASSUME AssemblyStep \/ UNCHANGED vars
  PROVE  /\ setup' = setup /\ program' = program /\ Cells' = Cells
         /\ \A call : Stamps(call)' = Stamps(call) /\ Keys(call)' = Keys(call)
         /\ \A target : Zero(target)' = Zero(target)
<1>1. setup' = setup /\ program' = program
  BY DEF AssemblyStep, AssemblyNext, ProcessStep, Begin, StampCell, Arrive, Compress,
         SolveGroups, Done, vars
<1>2. Cells' = Cells
  BY <1>1 DEF Cells
<1>3. AllDofs' = AllDofs
  BY <1>2 DEF AllDofs
<1>4. \A target : Zero(target)' = Zero(target)
  BY <1>3 DEF Zero
<1>5. FixedStamps' = FixedStamps
  BY <1>1 DEF FixedStamps, SAAFFixedStamps, DiffusionFixedStamps, DriftFixedStamps
<1>6. \A call : Stamps(call)' = Stamps(call)
  BY <1>5 DEF Stamps
<1>7. \A call : Keys(call)' = Keys(call)
  BY DEF Keys, Key, Targets
<1> QED
  BY <1>1, <1>2, <1>4, <1>6, <1>7

\* Where a process goes after a stamp, or on entering a call.
LEMMA AdvancedPlace ==
  ASSUME LockInv, NEW p \in Processes, Running(p)
  PROVE  /\ Advanced(p) \in Places
         /\ at[p].stamp = 0 => Advanced(p).stamp = 1
         /\ at[p].stamp > 0 => Advanced(p).stamp # 1
         /\ Advanced(p).stamp = 0 => Advanced(p).cells = {}
         /\ Advanced(p).stamp > 0 => Advanced(p).call = at[p].call
<1> DEFINE n == Len(Stamps(CallOf(p)))
<1>1. n \in Nat /\ n > 0
  BY CallsStamp
<1>2. at[p] \in Places
  BY DEF LockInv, PlaceInv
<1>3. OwnCells(p) \in SUBSET Cells
  BY DEF OwnCells
<1> HIDE DEF n
<1>4. CASE at[p].stamp < n
  <2>1. Advanced(p) = [at[p] EXCEPT !.stamp = at[p].stamp + 1, !.cells = OwnCells(p)]
    BY <1>4 DEF Advanced, n
  <2>2. Advanced(p) = [call |-> at[p].call, stamp |-> at[p].stamp + 1, cells |-> OwnCells(p)]
    BY <2>1, <1>2 DEF Places
  <2> QED
    BY <2>2, <1>2, <1>3 DEF Places
<1>5. CASE ~(at[p].stamp < n)
  <2>1. Advanced(p) = [call |-> at[p].call + 1, stamp |-> 0, cells |-> {}]
    BY <1>5 DEF Advanced, n
  <2>2. at[p].stamp > 0
    BY <1>1, <1>2, <1>5 DEF Places
  <2> QED
    BY <2>1, <2>2, <1>2 DEF Places
<1> QED
  BY <1>4, <1>5

LEMMA InitLockInv == AssemblyInit => LockInv
<1> SUFFICES ASSUME AssemblyInit PROVE LockInv
  OBVIOUS
<1>1. \A p \in Processes : at[p] = [call |-> 1, stamp |-> 0, cells |-> {}]
  BY DEF AssemblyInit
<1>2. PlaceInv
  BY <1>1 DEF AssemblyInit, PlaceInv, Places
<1>3. LockStep
  BY <1>1 DEF LockStep
<1>4. terms = [key \in DOMAIN terms |-> terms[key]]
  BY DEF AssemblyInit
<1>5. ZeroInv
  BY <1>1, <1>4 DEF ZeroInv
<1> QED
  BY <1>2, <1>3, <1>5 DEF LockInv

\* Two processes in the same call that one of them has compressed in are in
\* the same stamp.
LEMMA Together ==
  ASSUME LockInv, NEW p \in Processes, NEW q \in Processes,
         at[p].stamp > 0, at[q].stamp > 0
  PROVE  at[p].stamp = at[q].stamp
BY DEF LockInv, LockStep, PlaceInv, Places

\* Entering a call.
LEMMA BeginKeeps ==
  ASSUME LockInv, NEW p \in Processes, Begin(p)
  PROVE  LockInv'
<1>1. /\ setup' = setup /\ program' = program /\ Cells' = Cells
         /\ \A call : Keys(call)' = Keys(call)
         /\ \A target : Zero(target)' = Zero(target)
  BY SameCalls DEF AssemblyStep, AssemblyNext, ProcessStep
<1>2. Running(p) /\ at[p].stamp = 0 /\ p \notin waiting
  BY DEF Begin, LockInv, PlaceInv
<1> DEFINE now == Advanced(p)
<1>3. now \in Places /\ now.stamp = 1 /\ now.call = at[p].call
  BY <1>2, AdvancedPlace
<1> HIDE DEF now
<1>4. at' = [at EXCEPT ![p] = now] /\ waiting' = waiting
  BY DEF Begin, now
<1>5. at \in [Processes -> Places]
  BY DEF LockInv, PlaceInv
<1>6. at'[p] = now /\ \A q \in Processes : q # p => at'[q] = at[q]
  BY <1>4, <1>5
<1>7. at' \in [Processes -> Places']
  BY <1>1, <1>3, <1>4, <1>5 DEF Places
<1>8. \A q \in Processes : at'[q].call = at[q].call
  BY <1>3, <1>6
<1>9. \A q \in Processes : CallOf(q)' = CallOf(q) /\ (Running(q)' <=> Running(q))
  BY <1>1, <1>8 DEF CallOf, Running, Ended
<1>10. PlaceInv'
  BY <1>1, <1>2, <1>3, <1>4, <1>6, <1>7, <1>9 DEF LockInv, PlaceInv
<1>11. LockStep'
  <2> SUFFICES ASSUME NEW q \in Processes, NEW r \in Processes
               PROVE  /\ at'[q].call = at'[r].call
                      /\ \/ at'[q].stamp = at'[r].stamp
                         \/ {at'[q].stamp, at'[r].stamp} \subseteq {0, 1}
    BY DEF LockStep
  <2>1. \A s \in Processes : at[s].stamp \in {0, 1}
    BY <1>2 DEF LockInv, LockStep
  <2>2. \A s \in Processes : at'[s].stamp \in {0, 1}
    BY <2>1, <1>3, <1>6
  <2> QED
    BY <2>2, <1>8 DEF LockInv, LockStep
<1>12. ZeroInv'
  <2>1. terms' = Zeroed(CallOf(p))
    BY DEF Begin
  <2>2. terms' = [key \in DOMAIN terms' |-> terms'[key]]
    BY <2>1 DEF Zeroed
  <2>3. \A key \in Keys(CallOf(p)) : key \in DOMAIN terms' /\ terms'[key] = Zero(key[1])
    BY <2>1 DEF Zeroed
  <2>4. \A q \in Processes : CallOf(q) = CallOf(p)
    BY DEF CallOf, LockInv, LockStep
  <2> QED
    BY <2>2, <2>3, <2>4, <1>1, <1>9 DEF ZeroInv
<1> QED
  BY <1>10, <1>11, <1>12 DEF LockInv

\* Stamping a cell, and having stamped them all.
LEMMA StampKeeps ==
  ASSUME LockInv, NEW p \in Processes, StampCell(p) \/ Arrive(p)
  PROVE  LockInv'
<1>1. /\ setup' = setup /\ program' = program /\ Cells' = Cells
      /\ \A call : Keys(call)' = Keys(call)
      /\ \A target : Zero(target)' = Zero(target)
  BY SameCalls DEF AssemblyStep, AssemblyNext, ProcessStep
<1>2. terms' = terms
  BY DEF StampCell, Arrive
<1>3. at \in [Processes -> Places]
  BY DEF LockInv, PlaceInv
<1>4. /\ at' \in [Processes -> Places]
      /\ \A q \in Processes : at'[q].call = at[q].call /\ at'[q].stamp = at[q].stamp
      /\ \A q \in Processes : at[q].cells = {} => at'[q].cells = {}
  <2>1. CASE StampCell(p)
    <3> DEFINE left == at[p].cells \ {Min(at[p].cells)}
    <3>1. at' = [at EXCEPT ![p] = [at[p] EXCEPT !.cells = left]]
      BY <2>1 DEF StampCell
    <3>2. at[p] \in Places /\ left \in SUBSET Cells /\ at[p].cells # {}
      BY <2>1, <1>3 DEF StampCell, Places
    <3> HIDE DEF left
    <3>3. [at[p] EXCEPT !.cells = left] = [call |-> at[p].call, stamp |-> at[p].stamp, cells |-> left]
      BY <3>2 DEF Places
    <3> DEFINE now == [call |-> at[p].call, stamp |-> at[p].stamp, cells |-> left]
    <3>4. now \in Places /\ now.call = at[p].call /\ now.stamp = at[p].stamp
      BY <3>2 DEF Places
    <3>5. at' = [at EXCEPT ![p] = now]
      BY <3>1, <3>3
    <3> HIDE DEF now
    <3>6. at' \in [Processes -> Places]
      BY <3>4, <3>5, <1>3
    <3>7. at'[p] = now /\ \A q \in Processes : q # p => at'[q] = at[q]
      BY <3>5, <1>3
    <3> QED
      BY <3>2, <3>4, <3>6, <3>7
  <2>2. CASE Arrive(p)
    BY <2>2, <1>3 DEF Arrive
  <2> QED
    BY <2>1, <2>2
<1>5. \A q \in Processes : CallOf(q)' = CallOf(q) /\ (Running(q)' <=> Running(q))
  BY <1>1, <1>4 DEF CallOf, Running, Ended
<1>6. /\ waiting' \subseteq Processes
      /\ \A q \in waiting' : at[q].stamp > 0 /\ at[q].cells = {}
  BY DEF StampCell, Arrive, LockInv, PlaceInv
<1>7. PlaceInv'
  <2>1. at' \in [Processes -> Places']
    BY <1>1, <1>4 DEF Places
  <2> QED
    BY <2>1, <1>4, <1>5, <1>6 DEF LockInv, PlaceInv
<1>8. LockStep'
  BY <1>4 DEF LockInv, LockStep
<1>9. ZeroInv'
  BY <1>1, <1>2, <1>4, <1>5 DEF LockInv, ZeroInv
<1> QED
  BY <1>7, <1>8, <1>9 DEF LockInv

\* The collective steps.
LEMMA CompressKeeps ==
  ASSUME LockInv, Compress
  PROVE  LockInv'
<1>1. setup' = setup /\ program' = program /\ Cells' = Cells
  BY SameCalls DEF AssemblyStep, AssemblyNext
<1>2. \A p \in Processes : Running(p) /\ at[p].stamp > 0
  BY DEF Compress, LockInv, PlaceInv
<1>3. at' = [p \in Processes |-> Advanced(p)] /\ waiting' = {}
  BY DEF Compress
<1>4. \A p \in Processes :
        /\ at'[p] = Advanced(p) /\ at'[p] \in Places
        /\ at'[p].stamp # 1
        /\ at'[p].stamp = 0 => at'[p].cells = {}
        /\ at'[p].stamp > 0 => at'[p].call = at[p].call
  BY <1>2, <1>3, AdvancedPlace
<1>5. \A p \in Processes : at'[p].stamp > 0 => Running(p)'
  <2> SUFFICES ASSUME NEW p \in Processes, at'[p].stamp > 0 PROVE Running(p)'
    OBVIOUS
  <2>1. at'[p].call = at[p].call
    BY <1>4
  <2> QED
    BY <2>1, <1>1, <1>2 DEF Running, Ended, CallOf
<1>6. PlaceInv'
  <2>1. at' \in [Processes -> Places']
    BY <1>1, <1>3, <1>4 DEF Places
  <2> QED
    BY <2>1, <1>3, <1>4, <1>5 DEF PlaceInv
<1>7. LockStep'
  <2> SUFFICES ASSUME NEW p \in Processes, NEW q \in Processes
               PROVE  at'[p].call = at'[q].call /\ at'[p].stamp = at'[q].stamp
    BY DEF LockStep
  <2>1. at[p] = at[q]
    BY DEF Compress
  <2>2. CallOf(p) = CallOf(q)
    BY <2>1 DEF CallOf
  <2> DEFINE n == Len(Stamps(CallOf(p)))
  <2>3. n = Len(Stamps(CallOf(q)))
    BY <2>2
  <2> HIDE DEF n
  <2>4. at[p] \in Places /\ at[q] \in Places
    BY DEF LockInv, PlaceInv
  <2>5. CASE at[p].stamp < n
    <3>1. Advanced(p) = [at[p] EXCEPT !.stamp = at[p].stamp + 1, !.cells = OwnCells(p)]
      BY <2>5 DEF Advanced, n
    <3>2. Advanced(q) = [at[q] EXCEPT !.stamp = at[q].stamp + 1, !.cells = OwnCells(q)]
      BY <2>1, <2>3, <2>5 DEF Advanced
    <3>3. Advanced(p).stamp = at[p].stamp + 1 /\ Advanced(p).call = at[p].call
      BY <3>1, <2>4 DEF Places
    <3>4. Advanced(q).stamp = at[q].stamp + 1 /\ Advanced(q).call = at[q].call
      BY <3>2, <2>4 DEF Places
    <3> QED
      BY <2>1, <3>3, <3>4, <1>4
  <2>6. CASE ~(at[p].stamp < n)
    <3>1. Advanced(p) = [call |-> at[p].call + 1, stamp |-> 0, cells |-> {}]
      BY <2>6 DEF Advanced, n
    <3>2. Advanced(q) = [call |-> at[q].call + 1, stamp |-> 0, cells |-> {}]
      BY <2>1, <2>3, <2>6 DEF Advanced
    <3> QED
      BY <2>1, <3>1, <3>2, <1>4
  <2> QED
    BY <2>5, <2>6
<1>8. ZeroInv'
  <2>1. terms = [key \in DOMAIN terms |-> terms[key]]
    BY DEF LockInv, ZeroInv
  <2> DEFINE one == CHOOSE p \in Processes : TRUE
             sent == Key(Target(StampOf(one)), CallOf(one))
             sum == [x \in DOMAIN terms[sent] |-> terms[sent][x]
                       + SumFunction([p \in Processes |-> pending[p][x]])]
  <2>2. terms' = [terms EXCEPT ![sent] = sum]
    BY DEF Compress
  <2> HIDE DEF one, sent, sum
  <2>3. terms' = [key \in DOMAIN terms' |-> terms'[key]]
    BY <2>1, <2>2
  <2> QED
    BY <2>3, <1>4 DEF ZeroInv
<1> QED
  BY <1>6, <1>7, <1>8 DEF LockInv

LEMMA SolveKeeps ==
  ASSUME LockInv, SolveGroups
  PROVE  LockInv'
<1>1. setup' = setup /\ program' = program /\ Cells' = Cells
  BY SameCalls DEF AssemblyStep, AssemblyNext
<1>2. \A p \in Processes : ~Running(p) /\ at[p] \in Places /\ at[p].stamp = 0 /\ at[p].cells = {}
  <2>1. \A p \in Processes : ~Running(p) /\ at[p] \in Places
    BY DEF SolveGroups, Running, LockInv, PlaceInv
  <2>2. \A p \in Processes : ~(at[p].stamp > 0)
    BY <2>1 DEF LockInv, PlaceInv
  <2>3. \A p \in Processes : at[p].stamp = 0
    BY <2>1, <2>2 DEF Places
  <2> QED
    BY <2>1, <2>3 DEF LockInv, PlaceInv
<1>3. at' = [p \in Processes |-> [at[p] EXCEPT !.call = at[p].call + 1]]
  BY DEF SolveGroups
<1>4. \A p \in Processes :
        /\ at'[p] = [at[p] EXCEPT !.call = at[p].call + 1]
        /\ at'[p].stamp = 0 /\ at'[p].cells = {}
        /\ at'[p].call = at[p].call + 1
        /\ at'[p] \in Places
  BY <1>2, <1>3 DEF Places
<1>5. waiting' = {}
  BY <1>2 DEF SolveGroups, LockInv, PlaceInv
<1>6. PlaceInv'
  <2>1. at' \in [Processes -> Places']
    BY <1>1, <1>3, <1>4 DEF Places
  <2> QED
    BY <2>1, <1>4, <1>5 DEF PlaceInv
<1>7. LockStep'
  <2> SUFFICES ASSUME NEW p \in Processes, NEW q \in Processes
               PROVE  at'[p].call = at'[q].call /\ at'[p].stamp = at'[q].stamp
    BY DEF LockStep
  <2>1. at[p].call = at[q].call
    BY DEF LockInv, LockStep
  <2> QED
    BY <2>1, <1>4
<1>8. ZeroInv'
  BY <1>4 DEF SolveGroups, LockInv, ZeroInv
<1> QED
  BY <1>6, <1>7, <1>8 DEF LockInv

LEMMA StepLockInv == LockInv /\ [AssemblyStep]_vars => LockInv'
<1> SUFFICES ASSUME LockInv, [AssemblyStep]_vars PROVE LockInv'
  OBVIOUS
<1>1. CASE \E p \in Processes : ProcessStep(p)
  BY <1>1, BeginKeeps, StampKeeps DEF ProcessStep
<1>2. CASE Compress
  BY <1>2, CompressKeeps
<1>3. CASE SolveGroups
  BY <1>3, SolveKeeps
<1>4. CASE UNCHANGED vars
  <2>1. /\ Cells' = Cells
        /\ \A call : Keys(call)' = Keys(call)
        /\ \A target : Zero(target)' = Zero(target)
    BY <1>4, SameCalls
  <2>2. \A p \in Processes : CallOf(p)' = CallOf(p) /\ (Running(p)' <=> Running(p))
    BY <1>4 DEF CallOf, Running, Ended, vars
  <2>3. PlaceInv'
    BY <1>4, <2>1, <2>2 DEF LockInv, PlaceInv, Places, vars
  <2>4. LockStep'
    BY <1>4 DEF LockInv, LockStep, vars
  <2>5. ZeroInv'
    BY <1>4, <2>1, <2>2 DEF LockInv, ZeroInv, vars
  <2> QED
    BY <2>3, <2>4, <2>5 DEF LockInv
<1> QED
  BY <1>1, <1>2, <1>3, <1>4 DEF AssemblyStep, AssemblyNext, Done

LEMMA AlwaysLockInv == AssemblySpec => []LockInv
<1>1. AssemblyInit => LockInv
  BY InitLockInv
<1>2. LockInv /\ [AssemblyNext \/ Done]_vars => LockInv'
  BY StepLockInv DEF AssemblyStep
<1> QED
  BY <1>1, <1>2, PTL DEF AssemblySpec

(***************************************************************************)
(* Whatever cells a process owns, the processes that meet in the stamper's *)
(* compress have stamped the same term of the same call: none meets        *)
(* another one's next compress.                                            *)
(***************************************************************************)
THEOREM CompressOfOneTerm == AssemblySpec => []CollectiveCallsMatch
<1>1. LockInv => CollectiveCallsMatch
  <2> SUFFICES ASSUME LockInv, waiting = Processes, NEW p \in Processes, NEW q \in Processes
               PROVE  at[p] = at[q]
    BY DEF CollectiveCallsMatch
  <2>1. at[p].stamp > 0 /\ at[q].stamp > 0 /\ at[p].cells = {} /\ at[q].cells = {}
    BY DEF LockInv, PlaceInv
  <2>2. at[p].stamp = at[q].stamp /\ at[p].call = at[q].call
    BY <2>1, Together DEF LockInv, LockStep
  <2>3. at[p] \in Places /\ at[q] \in Places
    BY DEF LockInv, PlaceInv
  <2> QED
    BY <2>1, <2>2, <2>3 DEF Places
<1> QED
  BY <1>1, AlwaysLockInv, PTL

(***************************************************************************)
(* Until all processes have made all their calls, the guard of one of the  *)
(* actions holds: the collective calls never leave everybody waiting.      *)
(***************************************************************************)
THEOREM NobodyWaitsForEver == AssemblySpec => []SomebodyCanStep
<1>1. LockInv => SomebodyCanStep
  <2> SUFFICES ASSUME LockInv, ~AllEnded,
                      \A p \in Processes : ~CanBegin(p) /\ ~CanStamp(p) /\ ~CanArrive(p),
                      ~CanCompress
               PROVE  CanSolve
    BY DEF SomebodyCanStep
  <2>1. \A p, q \in Processes : CallOf(p) = CallOf(q) /\ (Ended(p) <=> Ended(q))
    BY DEF LockInv, LockStep, CallOf, Ended
  <2>2. \A p \in Processes : ~Ended(p)
    BY <2>1 DEF AllEnded
  <2>3. ASSUME NEW p \in Processes, Running(p) PROVE FALSE
    <3>1. \A q \in Processes : Running(q)
      BY <2>1, <2>2, <2>3 DEF Running
    <3>2. \A q \in Processes : at[q] \in Places
      BY DEF LockInv, PlaceInv
    <3>3. \A q \in Processes : at[q].stamp > 0
      BY <3>1, <3>2 DEF CanBegin, Places
    <3>4. \A q \in Processes : at[q].cells = {}
      BY DEF CanStamp
    <3>5. waiting = Processes
      BY <3>1, <3>3, <3>4 DEF CanArrive, LockInv, PlaceInv
    <3>6. \A q, r \in Processes : at[q] = at[r]
      <4> SUFFICES ASSUME NEW q \in Processes, NEW r \in Processes PROVE at[q] = at[r]
        OBVIOUS
      <4>1. at[q].stamp = at[r].stamp /\ at[q].call = at[r].call
        BY <3>3, Together DEF LockInv, LockStep
      <4> QED
        BY <4>1, <3>2, <3>4 DEF Places
    <3> QED
      BY <3>5, <3>6 DEF CanCompress
  <2> QED
    BY <2>2, <2>3 DEF CanSolve, Running
<1> QED
  BY <1>1, AlwaysLockInv, PTL

(***************************************************************************)
(* An updater zeroes its matrix or vector without waiting for the other    *)
(* processes.  A process that is late does so while others stamp their     *)
(* cells; nothing they have compressed is lost.                            *)
(***************************************************************************)
THEOREM LateZeroing == AssemblySpec => [][LateZeroingWipesNothing]_vars
<1>1. LockInv /\ [AssemblyStep]_vars => LateZeroingWipesNothing
  <2> SUFFICES ASSUME LockInv, NEW p \in Processes, Begin(p),
                      NEW q \in Processes, at[q].stamp > 0
               PROVE  terms' = terms
    BY DEF LateZeroingWipesNothing
  <2>1. at[p].stamp = 0 /\ at[q] \in Places
    BY DEF Begin, LockInv, PlaceInv
  <2>2. at[q].stamp = 1
    BY <2>1 DEF LockInv, LockStep, Places
  <2>3. CallOf(q) = CallOf(p)
    BY DEF CallOf, LockInv, LockStep
  <2>4. \A key \in Keys(CallOf(p)) : key \in DOMAIN terms /\ terms[key] = Zero(key[1])
    BY <2>2, <2>3 DEF LockInv, ZeroInv
  <2>5. terms' = [key \in DOMAIN terms |-> terms[key]]
    BY <2>4 DEF Begin, Zeroed
  <2> QED
    BY <2>5 DEF LockInv, ZeroInv
<1> QED
  BY <1>1, AlwaysLockInv, PTL DEF AssemblySpec, AssemblyStep

-----------------------------------------------------------------------------
(***************************************************************************)
(* The calls of the program: every one is of an updater for a group and an *)
(* angle there is, and the fixed terms of all of them are among the first. *)
(***************************************************************************)
Updates == {"fixed", "fission", "scattering", "reflective"}
UpdateCalls == [op : Updates, group : GroupSet, angle : AngleIndices]

LEMMA Division ==
  ASSUME NEW a \in Nat, NEW b \in Nat \ {0}
  PROVE  /\ a \div b \in Nat /\ a % b \in 0..b - 1
         /\ a = b * (a \div b) + (a % b)
OBVIOUS

LEMMA DivisionIsUnique ==
  ASSUME NEW b \in Nat \ {0}, NEW q \in Nat, NEW r \in 0..b - 1, NEW s \in Nat, NEW t \in 0..b - 1,
         b * q + r = b * s + t
  PROVE  q = s /\ r = t
<1>1. b * (q - s) = t - r
  OBVIOUS
<1>2. \A d \in Int : d >= 1 => b * d >= b
  OBVIOUS
<1>3. \A d \in Int : d <= -1 => b * d <= -b
  OBVIOUS
<1>4. ~(q - s >= 1)
  BY <1>1, <1>2
<1>5. ~(q - s <= -1)
  BY <1>1, <1>3
<1> QED
  BY <1>4, <1>5

LEMMA DivisionBound ==
  ASSUME NEW a \in Nat, NEW b \in Nat \ {0}, NEW n \in Nat, a < n * b
  PROVE  a \div b \in 0..n - 1
<1> DEFINE q == a \div b
<1>1. q \in Nat /\ a = b * q + (a % b) /\ a % b \in 0..b - 1
  BY Division
<1> HIDE DEF q
<1>2. b * q < n * b
  BY <1>1
<1>3. \A x, y \in Int : x >= y => b * x >= b * y
  OBVIOUS
<1>4. ~(q >= n)
  BY <1>1, <1>2, <1>3
<1> QED
  BY <1>1, <1>4 DEF q

LEMMA AngleCount ==
  /\ Cardinality(AngleIndices) \in Nat \ {0}
  /\ AngleIndices = 0..Cardinality(AngleIndices) - 1
<1>1. CASE setup.kind = "saaf"
  <2>1. SetSize(AngleSet) \in Nat \ {0}
    BY NumbersAssumption
  <2>2. AngleIndices = 0..SetSize(AngleSet) - 1
    BY <1>1 DEF AngleIndices, Indices
  <2>3. Cardinality(0..SetSize(AngleSet) - 1) = SetSize(AngleSet)
    BY <2>1, FS_Interval
  <2> QED
    BY <2>1, <2>2, <2>3
<1>2. CASE setup.kind # "saaf"
  <2>1. AngleIndices = 0..0
    BY <1>2 DEF AngleIndices
  <2>2. Cardinality(0..0) = 0 - 0 + 1
    <3>1. 0 \in Int /\ ~(0 > 0)
      OBVIOUS
    <3> QED
      BY <3>1, FS_Interval
  <2> QED
    BY <2>1, <2>2
<1> QED
  BY <1>1, <1>2

LEMMA GroupCalls ==
  ASSUME setup \in Setups, NEW updates \in Seq(Updates), Len(updates) > 0
  PROVE  ForGroups(updates) \in Seq(UpdateCalls)
<1> DEFINE angles == Cardinality(AngleIndices)
           n == Len(updates)
           each == n * angles
           groups == setup.groups
           update(i) == ((i - 1) % each) \div angles + 1
           call(i) == [op |-> updates[update(i)], group |-> (i - 1) \div each + 1,
                       angle |-> (i - 1) % angles]
<1>1. angles \in Nat \ {0} /\ AngleIndices = 0..angles - 1
  BY AngleCount
<1>2. groups \in Nat /\ n \in Nat \ {0}
  BY AssemblyAssumption
<1>3. ForGroups(updates) = [i \in 1..groups * each |-> call(i)]
  BY DEF ForGroups
<1> HIDE DEF angles, n
<1>4. each \in Nat \ {0}
  BY <1>1, <1>2
<1>5. groups * each \in Nat
  BY <1>2, <1>4
<1>6. ASSUME NEW i \in 1..groups * each
      PROVE  call(i) \in UpdateCalls
  <2>1. i - 1 \in Nat /\ i - 1 < groups * each
    BY <1>5
  <2> HIDE DEF each, groups
  <2>2. (i - 1) \div each \in 0..groups - 1
    BY <1>2, <1>4, <2>1, DivisionBound
  <2>3. (i - 1) \div each + 1 \in 1..groups
    BY <1>2, <2>2
  <2>4. (i - 1) % angles \in 0..angles - 1
    BY <1>1, <2>1, Division
  <2>5. (i - 1) % each \in Nat /\ (i - 1) % each < each
    <3>1. (i - 1) % each \in 0..each - 1
      BY <1>4, <2>1, Division
    <3> QED
      BY <1>4, <3>1
  <2>6. ((i - 1) % each) \div angles \in 0..n - 1
    <3>1. (i - 1) % each < n * angles
      BY <2>5 DEF each
    <3> QED
      BY <1>1, <1>2, <2>5, <3>1, DivisionBound
  <2>7. update(i) \in 1..n
    BY <1>2, <2>6
  <2>8. updates[update(i)] \in Updates
    BY <2>7 DEF n
  <2> HIDE DEF update
  <2> QED
    BY <1>1, <2>3, <2>4, <2>8 DEF UpdateCalls, GroupSet, groups
<1> HIDE DEF call, each, groups
<1> QED
  BY <1>3, <1>5, <1>6

LEMMA EveryFixedCall ==
  ASSUME setup \in Setups, NEW g \in GroupSet, NEW a \in AngleIndices
  PROVE  \E i \in 1..Len(ForGroups(UpdateFixedTerms)) :
           ForGroups(UpdateFixedTerms)[i] = [op |-> "fixed", group |-> g, angle |-> a]
<1> DEFINE angles == Cardinality(AngleIndices)
           groups == setup.groups
           call(i) == [op |-> UpdateFixedTerms[((i - 1) % angles) \div angles + 1],
                       group |-> (i - 1) \div angles + 1, angle |-> (i - 1) % angles]
           i == angles * (g - 1) + a + 1
<1>1. angles \in Nat \ {0} /\ AngleIndices = 0..angles - 1
  BY AngleCount
<1>2. groups \in Nat /\ g \in 1..groups
  BY AssemblyAssumption DEF GroupSet
<1>3. ForGroups(UpdateFixedTerms) = [j \in 1..groups * angles |-> call(j)]
  <2>1. Len(UpdateFixedTerms) * angles = angles
    BY <1>1 DEF UpdateFixedTerms
  <2> QED
    BY <2>1 DEF ForGroups
<1> HIDE DEF angles, groups
<1>4. a \in 0..angles - 1 /\ g - 1 \in Nat
  BY <1>1, <1>2
<1>5. i - 1 \in Nat /\ i - 1 = angles * (g - 1) + a
  BY <1>1, <1>4
<1>6. i \in 1..groups * angles
  <2>1. \A x, y \in Int : x <= y => angles * x <= angles * y
    BY <1>1
  <2>2. angles * g <= angles * groups
    BY <1>2, <2>1
  <2> QED
    BY <1>1, <1>2, <1>4, <1>5, <2>2
<1> HIDE DEF i
<1>7. (i - 1) \div angles = g - 1 /\ (i - 1) % angles = a
  <2>1. /\ (i - 1) \div angles \in Nat /\ (i - 1) % angles \in 0..angles - 1
        /\ i - 1 = angles * ((i - 1) \div angles) + ((i - 1) % angles)
    BY <1>1, <1>5, Division
  <2> DEFINE s == (i - 1) \div angles
             t == (i - 1) % angles
  <2>2. s \in Nat /\ t \in 0..angles - 1 /\ angles * (g - 1) + a = angles * s + t
    BY <1>5, <2>1
  <2> HIDE DEF s, t
  <2>3. g - 1 = s /\ a = t
    BY <1>1, <1>4, <2>2, DivisionIsUnique
  <2> QED
    BY <2>3 DEF s, t
<1>8. a \div angles = 0
  <2>1. a \in Nat /\ a < 1 * angles
    BY <1>1, <1>4
  <2> QED
    BY <1>1, <2>1, DivisionBound
<1>9. call(i) = [op |-> "fixed", group |-> g, angle |-> a]
  BY <1>2, <1>7, <1>8 DEF UpdateFixedTerms
<1>10. groups * angles \in Nat
  BY <1>1, <1>2
<1> HIDE DEF call
<1>11. Len(ForGroups(UpdateFixedTerms)) = groups * angles
  BY <1>3, <1>10
<1> QED
  BY <1>3, <1>6, <1>9, <1>11

LEMMA OneUpdate ==
  ASSUME NEW update \in Updates
  PROVE  <<update>> \in Seq(Updates) /\ Len(<<update>>) > 0
OBVIOUS

LEMMA Concatenated ==
  ASSUME NEW C, NEW s \in Seq(C), NEW t \in Seq(C)
  PROVE  /\ s \o t \in Seq(C) /\ Len(s \o t) = Len(s) + Len(t)
         /\ \A i \in 1..Len(s) : i \in 1..Len(s \o t) /\ (s \o t)[i] = s[i]
OBVIOUS

LEMMA ProgramCalls ==
  ASSUME setup \in Setups
  PROVE  /\ Program \in Seq(UpdateCalls \cup {Solve})
         /\ \A g \in GroupSet, a \in AngleIndices : \E i \in 1..Len(Program) :
              Program[i] = [op |-> "fixed", group |-> g, angle |-> a]
<1> DEFINE fixed == ForGroups(UpdateFixedTerms)
           fission == ForGroups(UpdateFissionSource)
           others == ForGroups(UpdateBoundaryConditions \o UpdateScatteringSource)
           C == UpdateCalls \cup {Solve}
           rest == (IF setup.eigen THEN fission ELSE <<>>) \o others
<1>1. fixed \in Seq(UpdateCalls)
  <2>1. "fixed" \in Updates /\ UpdateFixedTerms = <<"fixed">>
    BY DEF UpdateFixedTerms, Updates
  <2> QED
    BY <2>1, OneUpdate, GroupCalls
<1>2. fission \in Seq(UpdateCalls)
  <2>1. "fission" \in Updates /\ UpdateFissionSource = <<"fission">>
    BY DEF UpdateFissionSource, Updates
  <2> QED
    BY <2>1, OneUpdate, GroupCalls
<1>3. others \in Seq(UpdateCalls)
  <2> DEFINE updates == UpdateBoundaryConditions \o UpdateScatteringSource
  <2>1. updates \in Seq(Updates) /\ Len(updates) > 0
    <3>1. <<"scattering">> \in Seq(Updates) /\ Len(<<"scattering">>) = 1
      BY DEF Updates
    <3>2. UpdateBoundaryConditions \in Seq(Updates)
      <4>1. <<"reflective">> \in Seq(Updates) /\ <<>> \in Seq(Updates)
        BY DEF Updates
      <4> QED
        BY <4>1 DEF UpdateBoundaryConditions
    <3>3. updates = UpdateBoundaryConditions \o <<"scattering">>
      BY DEF UpdateScatteringSource
    <3> HIDE DEF updates
    <3>4. updates \in Seq(Updates) /\ Len(updates) = Len(UpdateBoundaryConditions) + 1
      BY <3>1, <3>2, <3>3, Concatenated
    <3> QED
      BY <3>2, <3>4
  <2> HIDE DEF updates
  <2>2. ForGroups(updates) \in Seq(UpdateCalls)
    BY <2>1, GroupCalls
  <2> QED
    BY <2>2 DEF updates
<1>4. /\ Round(TRUE) = fixed \o (IF setup.eigen THEN fission ELSE <<>>) \o others
      /\ Round(setup.nested) = (IF setup.nested THEN fixed ELSE <<>>)
           \o (IF setup.eigen THEN fission ELSE <<>>) \o others
  BY DEF Round
<1>5. fixed \in Seq(C) /\ fission \in Seq(C) /\ others \in Seq(C) /\ <<Solve>> \in Seq(C)
  BY <1>1, <1>2, <1>3
<1> DEFINE second == IF setup.eigen THEN fission ELSE <<>>
           first == IF setup.nested THEN fixed ELSE <<>>
<1> HIDE DEF fixed, fission, others, C
<1>6. second \in Seq(C) /\ first \in Seq(C)
  BY <1>5
<1> HIDE DEF first, second
<1>7. fixed \o second \in Seq(C) /\ first \o second \in Seq(C)
  BY <1>5, <1>6, Concatenated
<1> DEFINE one == Round(TRUE)
           two == Round(setup.nested)
<1>8. one = (fixed \o second) \o others /\ two = (first \o second) \o others
  BY <1>4 DEF first, second
<1>9. Program = (one \o <<Solve>>) \o two
  BY DEF Program
<1> HIDE DEF one, two
<1>10. one \in Seq(C) /\ two \in Seq(C)
  BY <1>5, <1>7, <1>8, Concatenated
<1>11. one \o <<Solve>> \in Seq(C)
  BY <1>5, <1>10, Concatenated
<1>12. Program \in Seq(C)
  BY <1>9, <1>10, <1>11, Concatenated
<1>13. ASSUME NEW i \in 1..Len(fixed)
       PROVE  i \in 1..Len(Program) /\ Program[i] = fixed[i]
  <2>1. i \in 1..Len(fixed \o second) /\ (fixed \o second)[i] = fixed[i]
    BY <1>5, <1>6, Concatenated
  <2>2. i \in 1..Len(one) /\ one[i] = fixed[i]
    BY <1>5, <1>7, <1>8, <2>1, Concatenated
  <2>3. i \in 1..Len(one \o <<Solve>>) /\ (one \o <<Solve>>)[i] = fixed[i]
    BY <1>5, <1>10, <2>2, Concatenated
  <2> QED
    BY <1>9, <1>10, <1>11, <2>3, Concatenated
<1> QED
  BY <1>12, <1>13, EveryFixedCall DEF fixed, C

-----------------------------------------------------------------------------
(***************************************************************************)
(* Symmetry, of what a process adds and of the matrices it is added to.    *)
(* Only the drift is not symmetric.                                        *)
(***************************************************************************)
Symmetric(matrix) ==
  /\ DOMAIN matrix = AllDofs \X AllDofs
  /\ \A x \in AllDofs \X AllDofs : matrix[x] = matrix[<<x[2], x[1]>>]
LocallySymmetric(local) ==
  \A i, j : <<i, j>> \in DOMAIN local =>
    <<j, i>> \in DOMAIN local /\ local[<<i, j>>] = local[<<j, i>>]
MatrixStamps ==
  IF setup.kind = "saaf" THEN {"streaming", "collision", "bilinear"}
  ELSE {"streaming", "collision", "absorption", "vacuum"}

\* Filling a call's matrix is never done with a stamp of another call.
SymmetryInv ==
  /\ setup \in Setups /\ program = Program
  /\ tables = IF setup.kind = "saaf" THEN Initialize(NoTables, AngleSet)
              ELSE Diffusion!Precalculate(<<>>)
  /\ pending = [p \in Processes |-> pending[p]]
  /\ \A p \in Processes :
       /\ at[p].call >= 1
       /\ at[p].stamp > 0 => at[p].stamp <= Len(Stamps(CallOf(p)))
       /\ \A i \in 1..Len(program) :
            /\ program[i].op # "solve"
            /\ i < at[p].call \/ (i = at[p].call /\ at[p].stamp > 0)
            => Keys(program[i]) \subseteq DOMAIN terms
  /\ setup.kind # "drift" =>
       /\ \A key \in DOMAIN terms : key[1] = "matrix" => Symmetric(terms[key])
       /\ \A p \in Processes :
            at[p].stamp > 0 /\ Target(StampOf(p)) = "matrix" => Symmetric(pending[p])

LEMMA LocalMatrix ==
  ASSUME NEW m, m = [ij \in Local \X Local |-> m[ij]], m[<<0, 1>>] = m[<<1, 0>>]
  PROVE  LocallySymmetric(m)
<1> SUFFICES ASSUME NEW i, NEW j, <<i, j>> \in DOMAIN m
             PROVE  <<j, i>> \in DOMAIN m /\ m[<<i, j>>] = m[<<j, i>>]
  BY DEF LocallySymmetric
<1>1. DOMAIN m = {0, 1} \X {0, 1}
  BY DEF Local
<1>2. i \in {0, 1} /\ j \in {0, 1}
  BY <1>1
<1>3. <<j, i>> \in DOMAIN m
  BY <1>1, <1>2
<1> QED
  BY <1>2, <1>3

LEMMA StreamingIsSymmetric ==
  ASSUME NEW xs, NEW m, NEW g, NEW a \in Indices(AngleSet)
  PROVE  LocallySymmetric(SAAFStreamingTerm(xs, Initialize(NoTables, AngleSet), m, g, a))
<1> DEFINE tab == Initialize(NoTables, AngleSet)
           sq(q) == tab.omega_dot_gradient_squared[<<q, a>>]
           term == SAAFStreamingTerm(xs, tab, m, g, a)
<1>1. Omega(AngleSet, a) \in Int
  BY NumbersAssumption
<1>2. ASSUME NEW q \in Points PROVE sq(q)[<<0, 1>>] = sq(q)[<<1, 0>>]
  <2> DEFINE dot(i) == Omega(AngleSet, a) * ShapeGradient(i)
  <2>1. <<q, a>> \in Points \X Indices(AngleSet)
    OBVIOUS
  <2>2. sq(q) = [ij \in Local \X Local |-> dot(ij[1]) * dot(ij[2])]
    BY <2>1 DEF Initialize, NoTables, CellMatrix
  <2>3. dot(0) \in Int /\ dot(1) \in Int
    BY <1>1 DEF ShapeGradient
  <2> HIDE DEF sq, dot
  <2>4. sq(q)[<<0, 1>>] = dot(0) * dot(1) /\ sq(q)[<<1, 0>>] = dot(1) * dot(0)
    BY <2>2 DEF Local
  <2> QED
    BY <2>3, <2>4
<1>3. 0 \in Points /\ 1 \in Points
  BY DEF Points
<1> HIDE DEF tab
<1> DEFINE inv == InverseSigmaT(xs, m, g)
<1>4. term = [ij \in Local \X Local |->
                Integral(LAMBDA q : inv * tab.omega_dot_gradient_squared[<<q, a>>][<<ij[1], ij[2]>>])]
  BY DEF SAAFStreamingTerm, CellMatrix
<1> HIDE DEF inv
<1>5. /\ term = [ij \in Local \X Local |-> term[ij]]
      /\ term[<<0, 1>>] = term[<<1, 0>>]
  BY <1>2, <1>3, <1>4 DEF Integral, Local
<1> QED
  BY <1>5, LocalMatrix DEF tab

LEMMA CollisionIsSymmetric ==
  ASSUME NEW xs, NEW m, NEW g, xs.sigma_t[m][g] \in Int
  PROVE  LocallySymmetric(SAAFCollisionTerm(xs, m, g))
<1> DEFINE term == SAAFCollisionTerm(xs, m, g)
           sigma == SigmaUnit * xs.sigma_t[m][g]
<1>1. sigma \in Int
  BY NumbersAssumption
<1>2. term = [ij \in Local \X Local |->
                Integral(LAMBDA q : sigma * ShapeValue(ij[1], q) * ShapeValue(ij[2], q))]
  BY DEF SAAFCollisionTerm, CellMatrix
<1> HIDE DEF sigma, term
<1>3. term = [ij \in Local \X Local |-> term[ij]]
  BY <1>2
<1>4. /\ term[<<0, 1>>] = Jacobian * (sigma * ShapeValue(0, 0) * ShapeValue(1, 0))
                             + Jacobian * (sigma * ShapeValue(0, 1) * ShapeValue(1, 1))
      /\ term[<<1, 0>>] = Jacobian * (sigma * ShapeValue(1, 0) * ShapeValue(0, 0))
                             + Jacobian * (sigma * ShapeValue(1, 1) * ShapeValue(0, 1))
  BY <1>2 DEF Local, Integral
<1>5. term[<<0, 1>>] = term[<<1, 0>>]
  BY <1>1, <1>4 DEF ShapeValue, Jacobian
<1> QED
  BY <1>3, <1>5, LocalMatrix DEF term

LEMMA BoundaryIsSymmetric ==
  ASSUME NEW a \in Indices(AngleSet), NEW face \in Faces
  PROVE  LocallySymmetric(BoundaryBilinearTerm(AngleSet, face, a))
<1> DEFINE cosine == FaceNormal(face) * Omega(AngleSet, a)
           term == BoundaryBilinearTerm(AngleSet, face, a)
<1>1. cosine \in Int /\ SigmaUnit \in Int
  BY NumbersAssumption DEF FaceNormal
<1>2. term = [ij \in Local \X Local |->
                IF cosine > 0
                THEN SigmaUnit * cosine * FaceShapeValue(ij[1], face)
                       * FaceShapeValue(ij[2], face) * FaceJacobian
                ELSE 0]
  BY DEF BoundaryBilinearTerm, CellMatrix
<1> HIDE DEF cosine, term
<1>3. term = [ij \in Local \X Local |-> term[ij]]
  BY <1>2
<1>4. /\ FaceShapeValue(0, face) \in Int /\ FaceShapeValue(1, face) \in Int
      /\ FaceShapeValue(0, face) = 0 \/ FaceShapeValue(1, face) = 0
  BY DEF FaceShapeValue, Faces
<1>5. term[<<0, 1>>] = 0 /\ term[<<1, 0>>] = 0
  BY <1>1, <1>2, <1>4 DEF Local, FaceJacobian
<1> QED
  BY <1>3, <1>5, LocalMatrix DEF term

LEMMA VacuumIsSymmetric ==
  ASSUME NEW face \in Faces
  PROVE  LocallySymmetric(Diffusion!VacuumTerm(face))
<1> DEFINE term == Diffusion!VacuumTerm(face)
<1>1. term = [ij \in Local \X Local |->
                (FaceJacobian \div 2) * FaceShapeValue(ij[1], face) * FaceShapeValue(ij[2], face)]
  BY DEF Diffusion!VacuumTerm, Diffusion!CellMatrix, Diffusion!Local, Diffusion!FaceJacobian,
         Diffusion!FaceShapeValue, Local, FaceJacobian, FaceShapeValue
<1> HIDE DEF term
<1>2. term = [ij \in Local \X Local |-> term[ij]]
  BY <1>1
<1>3. /\ FaceShapeValue(0, face) \in Int /\ FaceShapeValue(1, face) \in Int
      /\ FaceJacobian \div 2 = 1
  BY DEF FaceShapeValue, FaceJacobian
<1>4. term[<<0, 1>>] = term[<<1, 0>>]
  BY <1>1, <1>3 DEF Local
<1> QED
  BY <1>2, <1>4, LocalMatrix DEF term

\* The squares that diffusion reads.
LEMMA SquaresAreSymmetric ==
  ASSUME NEW q \in {0, 1}
  PROVE  LET squares == Diffusion!Precalculate(<<>>)
         IN  /\ squares[q + 1].shape[<<0, 1>>] = squares[q + 1].shape[<<1, 0>>]
             /\ squares[q + 1].gradient[<<0, 1>>] = squares[q + 1].gradient[<<1, 0>>]
<1> DEFINE shape(n) == [ij \in Local \X Local |-> ShapeValue(ij[1], n - 1) * ShapeValue(ij[2], n - 1)]
           gradient == [ij \in Local \X Local |-> ShapeGradient(ij[1]) * ShapeGradient(ij[2])]
           squares == [n \in 1..2 |-> [shape |-> shape(n), gradient |-> gradient]]
<1>1. Diffusion!Precalculate(<<>>) = <<>> \o squares
  BY DEF Diffusion!Precalculate, Diffusion!CellMatrix, Diffusion!Local, Diffusion!ShapeValue,
         Diffusion!ShapeGradient, Local, ShapeValue, ShapeGradient
<1>2. \A n : shape(n)[<<0, 1>>] = shape(n)[<<1, 0>>]
  BY DEF Local, ShapeValue
<1>3. gradient[<<0, 1>>] = gradient[<<1, 0>>]
  BY DEF Local, ShapeGradient
<1> HIDE DEF shape, gradient
<1>4. squares \in Seq({squares[n] : n \in 1..2})
  OBVIOUS
<1>5. squares[q + 1] = [shape |-> shape(q + 1), gradient |-> gradient]
  OBVIOUS
<1> HIDE DEF squares
<1>6. <<>> \o squares = squares
  BY <1>4
<1> QED
  BY <1>1, <1>2, <1>3, <1>5, <1>6

LEMMA ScalarTermsAreSymmetric ==
  ASSUME NEW xs, NEW m, NEW g
  PROVE  LET squares == Diffusion!Precalculate(<<>>)
         IN  /\ LocallySymmetric(Diffusion!StreamingTerm(xs, squares, m, g))
             /\ LocallySymmetric(Diffusion!CollisionTerm(xs, squares, m, g))
             /\ LocallySymmetric(Diffusion!AbsorptionTerm(xs, squares, m))
<1> DEFINE squares == Diffusion!Precalculate(<<>>)
           streaming == Diffusion!StreamingTerm(xs, squares, m, g)
           collision == Diffusion!CollisionTerm(xs, squares, m, g)
           absorption == Diffusion!AbsorptionTerm(xs, squares, m)
           D == xs.diffusion_coef[m][g]
           R == Diffusion!RemovalCrossSection(xs, m, g)
           A == xs.sigma_absorption[m]
<1>1. \A q \in {0, 1} :
        /\ squares[q + 1].shape[<<0, 1>>] = squares[q + 1].shape[<<1, 0>>]
        /\ squares[q + 1].gradient[<<0, 1>>] = squares[q + 1].gradient[<<1, 0>>]
  BY SquaresAreSymmetric
<1> HIDE DEF squares, R
<1>2. streaming = [ij \in Local \X Local |->
                     Integral(LAMBDA q : D * squares[q + 1].gradient[<<ij[1], ij[2]>>])]
  BY DEF Diffusion!StreamingTerm, Diffusion!CellMatrix, Diffusion!Local, Diffusion!Integral,
         Diffusion!Jacobian, Local, Integral, Jacobian
<1>3. collision = [ij \in Local \X Local |->
                     Integral(LAMBDA q : R * squares[q + 1].shape[<<ij[1], ij[2]>>])]
  BY DEF Diffusion!CollisionTerm, Diffusion!CellMatrix, Diffusion!Local, Diffusion!Integral,
         Diffusion!Jacobian, Local, Integral, Jacobian, R
<1>4. absorption = [ij \in Local \X Local |->
                      Integral(LAMBDA q : A * squares[q + 1].shape[<<ij[1], ij[2]>>])]
  BY DEF Diffusion!AbsorptionTerm, Diffusion!CellMatrix, Diffusion!Local, Diffusion!Integral,
         Diffusion!Jacobian, Local, Integral, Jacobian
<1> HIDE DEF streaming, collision, absorption, D, A
<1>5. /\ streaming = [ij \in Local \X Local |-> streaming[ij]]
      /\ streaming[<<0, 1>>] = streaming[<<1, 0>>]
  BY <1>1, <1>2 DEF Integral, Local
<1>6. /\ collision = [ij \in Local \X Local |-> collision[ij]]
      /\ collision[<<0, 1>>] = collision[<<1, 0>>]
  BY <1>1, <1>3 DEF Integral, Local
<1>7. /\ absorption = [ij \in Local \X Local |-> absorption[ij]]
      /\ absorption[<<0, 1>>] = absorption[<<1, 0>>]
  BY <1>1, <1>4 DEF Integral, Local
<1> QED
  BY <1>5, <1>6, <1>7, LocalMatrix DEF squares, streaming, collision, absorption

\* Adding a symmetric cell matrix, or nothing.
LEMMA AddedIsSymmetric ==
  ASSUME NEW sum, Symmetric(sum), NEW cell, NEW local,
         local = <<>> \/ LocallySymmetric(local)
  PROVE  Symmetric(Added(sum, cell, local))
<1> DEFINE of(i, j) == IF <<i, j>> \in DOMAIN local THEN local[<<i, j>>] ELSE 0
           new == Added(sum, cell, local)
<1>1. \A i, j : of(i, j) = of(j, i)
  <2>1. CASE local = <<>>
    BY <2>1
  <2>2. CASE LocallySymmetric(local)
    BY <2>2 DEF LocallySymmetric
  <2> QED
    BY <2>1, <2>2
<1>2. \A r, c \in AllDofs : new[<<r, c>>] = sum[<<r, c>>] + of(r - cell, c - cell)
  <2> SUFFICES ASSUME NEW r \in AllDofs, NEW c \in AllDofs
               PROVE  new[<<r, c>>] = sum[<<r, c>>] + of(r - cell, c - cell)
    OBVIOUS
  <2>1. <<r, c>> \in DOMAIN sum
    BY DEF Symmetric
  <2>2. [n \in DOMAIN <<r, c>> |-> <<r, c>>[n] - cell] = <<r - cell, c - cell>>
    OBVIOUS
  <2> QED
    BY <2>1, <2>2 DEF Added
<1>3. DOMAIN new = AllDofs \X AllDofs
  BY DEF Added, Symmetric
<1> HIDE DEF new, of
<1>4. \A r, c \in AllDofs : new[<<r, c>>] = new[<<c, r>>]
  <2> SUFFICES ASSUME NEW r \in AllDofs, NEW c \in AllDofs PROVE new[<<r, c>>] = new[<<c, r>>]
    OBVIOUS
  <2>1. sum[<<r, c>>] = sum[<<c, r>>]
    BY DEF Symmetric
  <2>2. of(r - cell, c - cell) = of(c - cell, r - cell)
    BY <1>1
  <2>3. /\ new[<<r, c>>] = sum[<<r, c>>] + of(r - cell, c - cell)
        /\ new[<<c, r>>] = sum[<<c, r>>] + of(c - cell, r - cell)
    BY <1>2
  <2> QED
    BY <2>1, <2>2, <2>3
<1> QED
  BY <1>3, <1>4 DEF Symmetric, new

\* The stamps of a matrix.
LEMMA StampsOfMatrices ==
  ASSUME setup \in Setups, setup.kind # "drift", NEW call, call.op \in Updates,
         NEW n \in 1..Len(Stamps(call)), Target(Stamps(call)[n]) = "matrix"
  PROVE  Stamps(call)[n] \in MatrixStamps
<1>1. setup.kind \in {"diffusion", "saaf", "two_grid"}
  BY AssemblyAssumption
<1>2. CASE call.op # "fixed"
  <2>1. Stamps(call)[n] = call.op
    BY <1>2 DEF Stamps
  <2> QED
    BY <1>2, <2>1 DEF Target, Updates
<1>3. CASE call.op = "fixed"
  <2>1. Stamps(call) = FixedStamps
    BY <1>3 DEF Stamps
  <2>2. CASE setup.kind = "saaf"
    <3>1. FixedStamps = <<"streaming", "collision", "bilinear", "source">>
      BY <2>2 DEF FixedStamps, SAAFFixedStamps
    <3>2. n \in 1..4
      BY <2>1, <3>1
    <3> QED
      BY <2>1, <2>2, <3>1, <3>2 DEF Target, MatrixStamps
  <2>3. CASE setup.kind = "two_grid"
    <3>1. FixedStamps = <<"streaming", "absorption", "source", "constant", "vacuum">>
      BY <2>3 DEF FixedStamps, DiffusionFixedStamps
    <3>2. n \in 1..5
      BY <2>1, <3>1
    <3> QED
      BY <2>1, <2>3, <3>1, <3>2 DEF Target, MatrixStamps
  <2>4. CASE setup.kind = "diffusion"
    <3>1. FixedStamps = <<"streaming", "collision", "source", "vacuum">>
      BY <2>4 DEF FixedStamps, DiffusionFixedStamps
    <3>2. n \in 1..4
      BY <2>1, <3>1
    <3> QED
      BY <2>1, <2>4, <3>1, <3>2 DEF Target, MatrixStamps
  <2> QED
    BY <1>1, <2>2, <2>3, <2>4
<1> QED
  BY <1>2, <1>3

\* What they fill in.
LEMMA CellIsSymmetric ==
  ASSUME setup \in Setups,
         tables = IF setup.kind = "saaf" THEN Initialize(NoTables, AngleSet)
                  ELSE Diffusion!Precalculate(<<>>),
         NEW p, NEW stamp \in MatrixStamps, ~OnFaces(stamp),
         NEW g \in GroupSet, NEW a \in AngleIndices, NEW cell \in Cells, NEW f
  PROVE  LocallySymmetric(CellFill(p, stamp, g, a, cell, f).local)
<1> DEFINE m == setup.material[cell]
           set == SetCell(f, cell)
           local == IF setup.kind = "saaf" THEN AngularCellTerm(stamp, set, m, g, a)
                    ELSE ScalarCellTerm(p, stamp, set, m, g)
<1>1. stamp # "fission"
  BY DEF MatrixStamps
<1>2. CellFill(p, stamp, g, a, cell, f) = [fe |-> set, local |-> local]
  BY <1>1 DEF CellFill, OnCell
<1>3. CASE setup.kind = "saaf"
  <2>1. stamp = "streaming" \/ stamp = "collision"
    BY <1>3 DEF MatrixStamps, OnFaces
  <2>2. a \in Indices(AngleSet) /\ tables = Initialize(NoTables, AngleSet)
    BY <1>3 DEF AngleIndices
  <2>3. setup.xs.sigma_t[m][g] \in Int
    BY <1>3, AssemblyAssumption DEF Cells, GroupSet
  <2> HIDE DEF m, set
  <2>4. CASE stamp = "streaming"
    <3>1. local = SAAFStreamingTerm(setup.xs, tables, m, g, a)
      BY <1>3, <2>4 DEF AngularCellTerm
    <3> QED
      BY <1>2, <2>2, <3>1, StreamingIsSymmetric
  <2>5. CASE stamp = "collision"
    <3>1. local = SAAFCollisionTerm(setup.xs, m, g)
      BY <1>3, <2>5 DEF AngularCellTerm
    <3> QED
      BY <1>2, <2>3, <3>1, CollisionIsSymmetric
  <2> QED
    BY <2>1, <2>4, <2>5
<1>4. CASE setup.kind # "saaf"
  <2>1. stamp \in {"streaming", "collision", "absorption"}
    BY <1>4 DEF MatrixStamps, OnFaces
  <2>2. tables = Diffusion!Precalculate(<<>>)
    BY <1>4
  <2> HIDE DEF m, set
  <2>3. /\ stamp = "streaming" => local = Diffusion!StreamingTerm(setup.xs, tables, m, g)
        /\ stamp = "collision" => local = Diffusion!CollisionTerm(setup.xs, tables, m, g)
        /\ stamp = "absorption" => local = Diffusion!AbsorptionTerm(setup.xs, tables, m)
    BY <1>4 DEF ScalarCellTerm
  <2> QED
    BY <1>2, <2>1, <2>2, <2>3, ScalarTermsAreSymmetric
<1> QED
  BY <1>3, <1>4

LEMMA FaceIsSymmetric ==
  ASSUME setup \in Setups, NEW stamp \in MatrixStamps, OnFaces(stamp),
         NEW g, NEW a \in AngleIndices, NEW cell, NEW face \in Faces, NEW f
  PROVE  LET local == FaceFill(stamp, g, a, cell, face, f).local
         IN  local = <<>> \/ LocallySymmetric(local)
<1> DEFINE local == FaceFill(stamp, g, a, cell, face, f).local
<1>1. stamp = IF setup.kind = "saaf" THEN "bilinear" ELSE "vacuum"
  BY DEF MatrixStamps, OnFaces
<1>2. CASE setup.kind = "saaf"
  <2>1. a \in Indices(AngleSet)
    BY <1>2 DEF AngleIndices
  <2>2. local = BoundaryBilinearTerm(AngleSet, face, a)
    BY <1>1, <1>2 DEF FaceFill, OnFace
  <2> QED
    BY <2>1, <2>2, BoundaryIsSymmetric
<1>3. CASE setup.kind # "saaf" /\ face \in setup.reflective
  BY <1>1, <1>3 DEF FaceFill, Untouched
<1>4. CASE setup.kind # "saaf" /\ face \notin setup.reflective
  <2>1. local = Diffusion!VacuumTerm(face)
    BY <1>1, <1>4 DEF FaceFill, OnFace
  <2> QED
    BY <2>1, VacuumIsSymmetric
<1> QED
  BY <1>2, <1>3, <1>4

LEMMA StampedIsSymmetric ==
  ASSUME setup \in Setups,
         tables = IF setup.kind = "saaf" THEN Initialize(NoTables, AngleSet)
                  ELSE Diffusion!Precalculate(<<>>),
         NEW p, NEW stamp \in MatrixStamps, NEW call, call.group \in GroupSet,
         call.angle \in AngleIndices, NEW cell \in Cells, Symmetric(pending[p])
  PROVE  Symmetric(Stamped(p, stamp, call, cell).sum)
<1> DEFINE g == call.group
           a == call.angle
           onFace(face, now) ==
             IF Outer(cell, face)
             THEN LET filled == FaceFill(stamp, g, a, cell, face, now.fe)
                  IN  [fe |-> filled.fe, sum |-> Added(now.sum, cell, filled.local)]
             ELSE now
           start == [fe |-> fe[p], sum |-> pending[p]]
<1>1. CASE OnFaces(stamp)
  <2>1. Stamped(p, stamp, call, cell) = onFace(1, onFace(0, start))
    BY <1>1 DEF Stamped
  <2>2. ASSUME NEW face \in Faces, NEW now, Symmetric(now.sum)
        PROVE  Symmetric(onFace(face, now).sum)
    <3> DEFINE filled == FaceFill(stamp, g, a, cell, face, now.fe)
    <3>1. filled.local = <<>> \/ LocallySymmetric(filled.local)
      BY <1>1, FaceIsSymmetric
    <3> HIDE DEF filled
    <3>2. Symmetric(Added(now.sum, cell, filled.local))
      BY <2>2, <3>1, AddedIsSymmetric
    <3> QED
      BY <2>2, <3>2 DEF filled
  <2>3. 0 \in Faces /\ 1 \in Faces /\ Symmetric(start.sum)
    BY DEF Faces
  <2> HIDE DEF onFace, start
  <2>4. Symmetric(onFace(0, start).sum)
    BY <2>2, <2>3
  <2>5. Symmetric(onFace(1, onFace(0, start)).sum)
    BY <2>2, <2>3, <2>4
  <2> QED
    BY <2>1, <2>5
<1>2. CASE ~OnFaces(stamp)
  <2> DEFINE filled == CellFill(p, stamp, g, a, cell, fe[p])
  <2>1. Stamped(p, stamp, call, cell).sum = Added(pending[p], cell, filled.local)
    BY <1>2 DEF Stamped
  <2>2. LocallySymmetric(filled.local)
    BY <1>2, CellIsSymmetric
  <2> HIDE DEF filled
  <2> QED
    BY <2>1, <2>2, AddedIsSymmetric
<1> QED
  BY <1>1, <1>2

-----------------------------------------------------------------------------
\* A set of natural numbers has a least one.
LEMMA LeastOne ==
  ASSUME NEW S \in SUBSET Nat, S # {}
  PROVE  Min(S) \in S
<1> DEFINE R == OpToRel(<, Nat)
<1>1. IsWellFoundedOn(R, Nat)
  BY NatLessThanWellFounded
<1>2. \A x, y \in Nat : x < y => <<x, y>> \in R
  BY DEF OpToRel
<1> HIDE DEF R
<1>3. PICK x \in S : \A y \in S : ~(<<y, x>> \in R)
  BY <1>1, WFMin
<1>4. \A y \in S : ~(y < x)
  BY <1>2, <1>3
<1>5. \A y \in S : x =< y
  BY <1>4
<1> QED
  BY <1>5 DEF Min

\* The call of a process that has entered it.
LEMMA CallInProgress ==
  ASSUME LockInv, SymmetryInv, NEW p \in Processes, Running(p)
  PROVE  /\ at[p].call \in 1..Len(program) /\ CallOf(p) \in UpdateCalls
         /\ Len(program) \in Nat /\ at[p] \in Places
         /\ at[p].stamp > 0 => at[p].stamp \in 1..Len(Stamps(CallOf(p)))
<1>1. program \in Seq(UpdateCalls \cup {Solve})
  BY ProgramCalls DEF SymmetryInv
<1>2. at[p] \in Places /\ at[p].call \in Int /\ at[p].stamp \in Nat
  BY DEF LockInv, PlaceInv, Places
<1>3. Len(program) \in Nat
  BY <1>1
<1>4. at[p].call \in 1..Len(program)
  BY <1>2, <1>3 DEF Running, Ended, SymmetryInv
<1>5. CallOf(p) \in UpdateCalls \cup {Solve}
  BY <1>1, <1>4 DEF CallOf
<1>6. CallOf(p) # Solve
  BY DEF Running, Solve
<1>7. Len(Stamps(CallOf(p))) \in Nat
  BY CallsStamp
<1>8. at[p].stamp > 0 => at[p].stamp \in 1..Len(Stamps(CallOf(p)))
  BY <1>2, <1>7 DEF SymmetryInv
<1> QED
  BY <1>2, <1>3, <1>4, <1>5, <1>6, <1>8

\* What does not change, and what symmetry is after a step.
LEMMA SameProblem ==
  ASSUME SymmetryInv, AssemblyStep \/ UNCHANGED vars
  PROVE  /\ setup' = setup /\ program' = program /\ tables' = tables
         /\ setup' \in Setups /\ program' = Program'
         /\ tables' = IF setup'.kind = "saaf" THEN Initialize(NoTables, AngleSet)
                      ELSE Diffusion!Precalculate(<<>>)
         /\ \A matrix : Symmetric(matrix)' <=> Symmetric(matrix)
<1>1. setup' = setup /\ program' = program /\ Cells' = Cells
  BY SameCalls
<1>2. tables' = tables
  BY DEF AssemblyStep, AssemblyNext, ProcessStep, Begin, StampCell, Arrive, Compress,
         SolveGroups, Done, vars
<1>3. AllDofs' = AllDofs /\ AngleIndices' = AngleIndices
  BY <1>1 DEF AllDofs, AngleIndices
<1>4. Program' = Program
  <2>1. \A updates : ForGroups(updates)' = ForGroups(updates)
    BY <1>1, <1>3 DEF ForGroups
  <2>2. UpdateBoundaryConditions' = UpdateBoundaryConditions
    BY <1>1 DEF UpdateBoundaryConditions
  <2>3. ForGroups(UpdateBoundaryConditions \o UpdateScatteringSource)'
          = ForGroups(UpdateBoundaryConditions \o UpdateScatteringSource)
    BY <1>1, <1>3, <2>2 DEF ForGroups
  <2>4. /\ ForGroups(UpdateFixedTerms)' = ForGroups(UpdateFixedTerms)
        /\ ForGroups(UpdateFissionSource)' = ForGroups(UpdateFissionSource)
    BY <2>1
  <2>5. Round(TRUE)' = Round(TRUE) /\ Round(setup.nested)' = Round(setup.nested)
    BY <1>1, <2>3, <2>4 DEF Round
  <2> QED
    BY <2>5 DEF Program
<1>5. \A matrix : Symmetric(matrix)' <=> Symmetric(matrix)
  BY <1>3 DEF Symmetric
<1> QED
  BY <1>1, <1>2, <1>4, <1>5 DEF SymmetryInv

LEMMA ZeroIsSymmetric == Symmetric(Zero("matrix"))
BY DEF Symmetric, Zero

LEMMA SumIsSymmetric ==
  ASSUME NEW old, Symmetric(old), \A p \in Processes : Symmetric(pending[p])
  PROVE  Symmetric([x \in DOMAIN old |-> old[x] + SumFunction([p \in Processes |-> pending[p][x]])])
<1> DEFINE added(x) == [p \in Processes |-> pending[p][x]]
           new == [x \in DOMAIN old |-> old[x] + SumFunction(added(x))]
<1>1. DOMAIN new = AllDofs \X AllDofs
  BY DEF Symmetric
<1>2. ASSUME NEW x \in AllDofs \X AllDofs
      PROVE  new[x] = new[<<x[2], x[1]>>]
  <2>1. <<x[2], x[1]>> \in AllDofs \X AllDofs
    OBVIOUS
  <2>2. added(x) = added(<<x[2], x[1]>>)
    BY DEF Symmetric
  <2>3. old[x] = old[<<x[2], x[1]>>]
    BY DEF Symmetric
  <2> HIDE DEF added
  <2>4. new[x] = old[x] + SumFunction(added(x))
    BY <1>1
  <2>5. new[<<x[2], x[1]>>] = old[<<x[2], x[1]>>] + SumFunction(added(<<x[2], x[1]>>))
    BY <1>1, <2>1
  <2> QED
    BY <2>2, <2>3, <2>4, <2>5
<1> HIDE DEF new
<1>3. Symmetric(new)
  BY <1>1, <1>2 DEF Symmetric
<1> QED
  BY <1>3 DEF new

LEMMA InitSymmetryInv == AssemblyInit => SymmetryInv
<1> SUFFICES ASSUME AssemblyInit PROVE SymmetryInv
  OBVIOUS
<1>1. \A p \in Processes : at[p].call = 1 /\ at[p].stamp = 0
  BY DEF AssemblyInit
<1>2. program \in Seq(UpdateCalls \cup {Solve})
  BY ProgramCalls DEF AssemblyInit
<1>3. Len(program) \in Nat
  BY <1>2
<1> QED
  BY <1>1, <1>3 DEF AssemblyInit, SymmetryInv

\* A call that is entered zeroes its matrix.
LEMMA BeginSymmetry ==
  ASSUME LockInv, SymmetryInv, NEW p \in Processes, Begin(p)
  PROVE  SymmetryInv'
<1>1. /\ setup' = setup /\ program' = program /\ tables' = tables
      /\ setup' \in Setups /\ program' = Program'
      /\ tables' = IF setup'.kind = "saaf" THEN Initialize(NoTables, AngleSet)
                   ELSE Diffusion!Precalculate(<<>>)
      /\ \A matrix : Symmetric(matrix)' <=> Symmetric(matrix)
  BY SameProblem DEF AssemblyStep, AssemblyNext, ProcessStep
<1>2. /\ \A call : Stamps(call)' = Stamps(call) /\ Keys(call)' = Keys(call)
  BY SameCalls DEF AssemblyStep, AssemblyNext, ProcessStep
<1> DEFINE call == CallOf(p)
           now == Advanced(p)
<1>3. Running(p) /\ at[p].stamp = 0
  BY DEF Begin
<1>4. now.stamp = 1 /\ now.call = at[p].call
  BY <1>3, AdvancedPlace
<1>5. at[p].call \in 1..Len(program) /\ at[p].call \in Int
  BY <1>3, CallInProgress
<1>6. /\ at' = [at EXCEPT ![p] = now] /\ terms' = Zeroed(call)
      /\ pending' = [pending EXCEPT ![p] = NothingPending(p)]
  BY DEF Begin
<1>7. NothingPending(p) = Zero(Target(Stamps(call)[1]))
  BY <1>4 DEF NothingPending
<1>8. Len(Stamps(call)) >= 1
  BY CallsStamp
<1> HIDE DEF now, call
<1>9. at'[p] = now /\ \A q \in Processes : q # p => at'[q] = at[q]
  BY <1>6 DEF LockInv, PlaceInv
<1>10. \A q \in Processes : at'[q].call = at[q].call /\ CallOf(q)' = CallOf(q)
  BY <1>1, <1>4, <1>9 DEF CallOf
<1>11. /\ pending'[p] = Zero(Target(Stamps(call)[1]))
       /\ \A q \in Processes : q # p => pending'[q] = pending[q]
       /\ pending' = [q \in Processes |-> pending'[q]]
  BY <1>6, <1>7 DEF SymmetryInv
<1>12. /\ DOMAIN terms' = DOMAIN terms \cup Keys(call)
       /\ \A key \in DOMAIN terms' :
            terms'[key] = IF key \in Keys(call) THEN Zero(key[1]) ELSE terms[key]
  BY <1>6 DEF Zeroed
<1>13. \A q \in Processes :
         /\ at'[q].call >= 1
         /\ at'[q].stamp > 0 => at'[q].stamp <= Len(Stamps(CallOf(q)))
  BY <1>4, <1>8, <1>9, <1>10 DEF SymmetryInv, call
<1>14. ASSUME NEW q \in Processes, NEW i \in 1..Len(program), program[i].op # "solve",
              i < at'[q].call \/ (i = at'[q].call /\ at'[q].stamp > 0)
       PROVE  Keys(program[i]) \subseteq DOMAIN terms'
  <2>1. CASE i < at[q].call \/ (i = at[q].call /\ at[q].stamp > 0)
    BY <1>12, <1>14, <2>1 DEF SymmetryInv
  <2>2. CASE ~(i < at[q].call \/ (i = at[q].call /\ at[q].stamp > 0))
    <3>1. q = p /\ i = at[p].call
      BY <1>9, <1>10, <1>14, <2>2
    <3> QED
      BY <1>12, <3>1 DEF call, CallOf
  <2> QED
    BY <2>1, <2>2
<1>15. ASSUME setup.kind # "drift", NEW key \in DOMAIN terms', key[1] = "matrix"
       PROVE  Symmetric(terms'[key])
  BY <1>12, <1>15, ZeroIsSymmetric DEF SymmetryInv
<1>16. ASSUME setup.kind # "drift", NEW q \in Processes,
              at'[q].stamp > 0, Target(StampOf(q))' = "matrix"
       PROVE  Symmetric(pending'[q])
  <2>1. CASE q = p
    <3>1. StampOf(p)' = Stamps(call)[1]
      BY <1>2, <1>4, <1>9, <1>10 DEF StampOf, call
    <3>2. Target(Stamps(call)[1]) = "matrix"
      BY <1>16, <2>1, <3>1 DEF Target
    <3> QED
      BY <1>11, <2>1, <3>2, ZeroIsSymmetric
  <2>2. CASE q # p
    <3>1. StampOf(q)' = StampOf(q)
      BY <1>2, <1>9, <1>10, <2>2 DEF StampOf
    <3>2. Target(StampOf(q)) = "matrix"
      BY <1>16, <3>1 DEF Target
    <3> QED
      BY <1>9, <1>11, <1>16, <2>2, <3>2 DEF SymmetryInv
  <2> QED
    BY <2>1, <2>2
<1> QED
  BY <1>1, <1>2, <1>10, <1>11, <1>13, <1>14, <1>15, <1>16 DEF SymmetryInv

\* Stamping a cell, and waiting.
LEMMA StampSymmetry ==
  ASSUME LockInv, SymmetryInv, NEW p \in Processes, StampCell(p) \/ Arrive(p)
  PROVE  SymmetryInv'
<1>1. /\ setup' = setup /\ program' = program /\ tables' = tables
      /\ setup' \in Setups /\ program' = Program'
      /\ tables' = IF setup'.kind = "saaf" THEN Initialize(NoTables, AngleSet)
                   ELSE Diffusion!Precalculate(<<>>)
      /\ \A matrix : Symmetric(matrix)' <=> Symmetric(matrix)
  BY SameProblem DEF AssemblyStep, AssemblyNext, ProcessStep
<1>2. /\ \A call : Stamps(call)' = Stamps(call) /\ Keys(call)' = Keys(call)
  BY SameCalls DEF AssemblyStep, AssemblyNext, ProcessStep
<1>3. terms' = terms
  BY DEF StampCell, Arrive
<1>4. \A q \in Processes : at'[q].call = at[q].call /\ at'[q].stamp = at[q].stamp
  <2>1. at \in [Processes -> Places]
    BY DEF LockInv, PlaceInv
  <2>2. CASE StampCell(p)
    <3> DEFINE left == at[p].cells \ {Min(at[p].cells)}
    <3>1. at' = [at EXCEPT ![p] = [at[p] EXCEPT !.cells = left]]
      BY <2>2 DEF StampCell
    <3> HIDE DEF left
    <3>2. [at[p] EXCEPT !.cells = left] = [call |-> at[p].call, stamp |-> at[p].stamp, cells |-> left]
      BY <2>1 DEF Places
    <3> QED
      BY <2>1, <3>1, <3>2
  <2>3. CASE Arrive(p)
    BY <2>3 DEF Arrive
  <2> QED
    BY <2>2, <2>3
<1>5. \A q \in Processes : CallOf(q)' = CallOf(q)
  BY <1>1, <1>4 DEF CallOf
<1>6. \A q \in Processes : StampOf(q)' = StampOf(q)
  BY <1>2, <1>4, <1>5 DEF StampOf
<1>7. /\ pending' = [q \in Processes |-> pending'[q]]
      /\ \A q \in Processes : q # p \/ Arrive(p) => pending'[q] = pending[q]
      /\ StampCell(p) => pending'[p] = Stamped(p, StampOf(p), CallOf(p), Min(at[p].cells)).sum
  BY DEF StampCell, Arrive, SymmetryInv
<1>8. ASSUME setup.kind # "drift", NEW q \in Processes,
             at'[q].stamp > 0, Target(StampOf(q))' = "matrix"
      PROVE  Symmetric(pending'[q])
  <2>1. at[q].stamp > 0 /\ Target(StampOf(q)) = "matrix"
    BY <1>4, <1>6, <1>8 DEF Target
  <2>2. Symmetric(pending[q])
    BY <1>8, <2>1 DEF SymmetryInv
  <2>3. CASE q = p /\ StampCell(p)
    <3>1. at[p].cells # {} /\ Running(p) /\ at[p].cells \subseteq Cells
      BY <2>1, <2>3 DEF StampCell, LockInv, PlaceInv, Places
    <3>2. Cells \subseteq Nat
      BY AssemblyAssumption DEF SymmetryInv, Cells
    <3>3. at[p].cells \in SUBSET Nat
      BY <3>1, <3>2
    <3>4. Min(at[p].cells) \in Cells
      BY <3>1, <3>3, LeastOne
    <3>5. CallOf(p) \in UpdateCalls /\ at[p].stamp \in 1..Len(Stamps(CallOf(p)))
      BY <2>1, <2>3, <3>1, CallInProgress
    <3>6. /\ CallOf(p).op \in Updates /\ CallOf(p).group \in GroupSet
          /\ CallOf(p).angle \in AngleIndices
      BY <3>5 DEF UpdateCalls
    <3>7. StampOf(p) \in MatrixStamps
      BY <1>8, <2>1, <2>3, <3>5, <3>6, StampsOfMatrices DEF SymmetryInv, StampOf
    <3>8. Symmetric(Stamped(p, StampOf(p), CallOf(p), Min(at[p].cells)).sum)
      BY <2>2, <2>3, <3>4, <3>6, <3>7, StampedIsSymmetric DEF SymmetryInv
    <3> QED
      BY <1>7, <2>3, <3>8
  <2>4. CASE ~(q = p /\ StampCell(p))
    BY <1>7, <2>2, <2>4
  <2> QED
    BY <2>3, <2>4
<1>9. \A q \in Processes :
        /\ at'[q].call >= 1
        /\ at'[q].stamp > 0 => at'[q].stamp <= Len(Stamps(CallOf(q)))
        /\ \A i \in 1..Len(program) :
             /\ program[i].op # "solve"
             /\ i < at'[q].call \/ (i = at'[q].call /\ at'[q].stamp > 0)
             => Keys(program[i]) \subseteq DOMAIN terms
  BY <1>4 DEF SymmetryInv
<1>10. setup.kind # "drift" => \A key \in DOMAIN terms : key[1] = "matrix" => Symmetric(terms[key])
  BY DEF SymmetryInv
<1> QED
  BY <1>1, <1>2, <1>3, <1>5, <1>7, <1>8, <1>9, <1>10 DEF SymmetryInv

\* All processes go on to the next stamp, or the next call, together.
LEMMA AfterCompress ==
  ASSUME LockInv, SymmetryInv, NEW p \in Processes, Running(p), at[p].stamp > 0
  PROVE  /\ Advanced(p).call >= 1
         /\ Advanced(p).stamp > 0 =>
              /\ Advanced(p).call = at[p].call
              /\ Advanced(p).stamp <= Len(Stamps(CallOf(p)))
         /\ \A i \in 1..Len(program) :
              i < Advanced(p).call \/ (i = Advanced(p).call /\ Advanced(p).stamp > 0)
              => i < at[p].call \/ (i = at[p].call /\ at[p].stamp > 0)
<1> DEFINE n == Len(Stamps(CallOf(p)))
<1>1. at[p] \in Places /\ at[p].call \in Nat /\ at[p].call >= 1 /\ at[p].stamp \in Nat
  BY CallInProgress DEF Places
<1>2. n \in Nat
  BY CallsStamp
<1> HIDE DEF n
<1>3. CASE at[p].stamp < n
  <2>1. Advanced(p) = [at[p] EXCEPT !.stamp = at[p].stamp + 1, !.cells = OwnCells(p)]
    BY <1>3 DEF Advanced, n
  <2>2. Advanced(p) = [call |-> at[p].call, stamp |-> at[p].stamp + 1, cells |-> OwnCells(p)]
    BY <2>1, <1>1 DEF Places
  <2> QED
    BY <1>1, <1>2, <1>3, <2>2 DEF n
<1>4. CASE ~(at[p].stamp < n)
  <2>1. Advanced(p) = [call |-> at[p].call + 1, stamp |-> 0, cells |-> {}]
    BY <1>4 DEF Advanced, n
  <2> QED
    BY <1>1, <2>1
<1> QED
  BY <1>3, <1>4

LEMMA CompressSymmetry ==
  ASSUME LockInv, SymmetryInv, Compress
  PROVE  SymmetryInv'
<1>1. /\ setup' = setup /\ program' = program /\ tables' = tables
      /\ setup' \in Setups /\ program' = Program'
      /\ tables' = IF setup'.kind = "saaf" THEN Initialize(NoTables, AngleSet)
                   ELSE Diffusion!Precalculate(<<>>)
      /\ \A matrix : Symmetric(matrix)' <=> Symmetric(matrix)
  BY SameProblem DEF AssemblyStep, AssemblyNext
<1>2. /\ \A call : Stamps(call)' = Stamps(call) /\ Keys(call)' = Keys(call)
  BY SameCalls DEF AssemblyStep, AssemblyNext
<1>3. \A p \in Processes : Running(p) /\ at[p].stamp > 0
  BY DEF Compress, LockInv, PlaceInv
<1>4. \A p \in Processes : at'[p] = Advanced(p)
  BY DEF Compress
<1>5. \A p \in Processes : at'[p].stamp > 0 => CallOf(p)' = CallOf(p)
  BY <1>1, <1>3, <1>4, AfterCompress DEF CallOf
<1> DEFINE one == CHOOSE p \in Processes : TRUE
           sent == Key(Target(StampOf(one)), CallOf(one))
           sum == [x \in DOMAIN terms[sent] |-> terms[sent][x]
                     + SumFunction([p \in Processes |-> pending[p][x]])]
<1>6. terms' = [terms EXCEPT ![sent] = sum]
  BY DEF Compress
<1>7. one \in Processes
  BY NumbersAssumption
<1>8. terms = [key \in DOMAIN terms |-> terms[key]]
  BY DEF LockInv, ZeroInv
<1>9. sent[1] = Target(StampOf(one))
  BY DEF Key
<1>10. \A p \in Processes : StampOf(p) = StampOf(one)
  BY <1>7 DEF Compress, StampOf, CallOf
<1> HIDE DEF one, sent
<1>11. setup.kind # "drift" /\ sent \in DOMAIN terms /\ sent[1] = "matrix" => Symmetric(sum)
  <2> SUFFICES ASSUME setup.kind # "drift", sent \in DOMAIN terms, sent[1] = "matrix"
               PROVE  Symmetric(sum)
    OBVIOUS
  <2>1. Symmetric(terms[sent])
    BY DEF SymmetryInv
  <2>2. \A p \in Processes : Symmetric(pending[p])
    BY <1>3, <1>9, <1>10 DEF SymmetryInv
  <2> QED
    BY <2>1, <2>2, SumIsSymmetric
<1> HIDE DEF sum
<1>12. /\ DOMAIN terms' = DOMAIN terms
       /\ \A key \in DOMAIN terms : terms'[key] = IF key = sent THEN sum ELSE terms[key]
  BY <1>6, <1>8
<1>13. ASSUME setup.kind # "drift", NEW key \in DOMAIN terms', key[1] = "matrix"
       PROVE  Symmetric(terms'[key])
  BY <1>11, <1>12, <1>13 DEF SymmetryInv
<1>14. pending' = [p \in Processes |-> NothingPending(p)]
  BY DEF Compress
<1>15. ASSUME setup.kind # "drift", NEW p \in Processes,
              at'[p].stamp > 0, Target(StampOf(p))' = "matrix"
       PROVE  Symmetric(pending'[p])
  <2>1. StampOf(p)' = Stamps(CallOf(p))[Advanced(p).stamp]
    BY <1>2, <1>4, <1>5, <1>15 DEF StampOf
  <2>2. Target(Stamps(CallOf(p))[Advanced(p).stamp]) = "matrix"
    BY <1>15, <2>1 DEF Target
  <2>3. pending'[p] = Zero("matrix")
    BY <1>4, <1>14, <1>15, <2>2 DEF NothingPending
  <2> QED
    BY <2>3, ZeroIsSymmetric
<1>16. \A p \in Processes :
         /\ at'[p].call >= 1
         /\ at'[p].stamp > 0 => at'[p].stamp <= Len(Stamps(CallOf(p)))
         /\ \A i \in 1..Len(program) :
              /\ program[i].op # "solve"
              /\ i < at'[p].call \/ (i = at'[p].call /\ at'[p].stamp > 0)
              => Keys(program[i]) \subseteq DOMAIN terms'
  BY <1>3, <1>4, <1>12, AfterCompress DEF SymmetryInv
<1>17. pending' = [p \in Processes |-> pending'[p]]
  BY <1>14
<1> QED
  BY <1>1, <1>2, <1>5, <1>13, <1>15, <1>16, <1>17 DEF SymmetryInv

LEMMA SolveSymmetry ==
  ASSUME LockInv, SymmetryInv, SolveGroups
  PROVE  SymmetryInv'
<1>1. /\ setup' = setup /\ program' = program /\ tables' = tables
      /\ setup' \in Setups /\ program' = Program'
      /\ tables' = IF setup'.kind = "saaf" THEN Initialize(NoTables, AngleSet)
                   ELSE Diffusion!Precalculate(<<>>)
      /\ \A matrix : Symmetric(matrix)' <=> Symmetric(matrix)
  BY SameProblem DEF AssemblyStep, AssemblyNext
<1>2. \A call : Keys(call)' = Keys(call)
  BY SameCalls DEF AssemblyStep, AssemblyNext
<1>3. terms' = terms /\ pending' = pending
      /\ at' = [p \in Processes |-> [at[p] EXCEPT !.call = at[p].call + 1]]
  BY DEF SolveGroups
<1>4. \A p \in Processes :
        /\ at[p] \in Places /\ at[p].call >= 1 /\ at[p].stamp = 0
        /\ program[at[p].call].op = "solve"
  <2>1. \A p \in Processes : at[p] \in Places /\ ~Running(p) /\ at[p].call >= 1
    BY DEF SolveGroups, Running, LockInv, PlaceInv, SymmetryInv
  <2>2. \A p \in Processes : ~(at[p].stamp > 0)
    BY <2>1 DEF LockInv, PlaceInv
  <2> QED
    BY <2>1, <2>2 DEF SolveGroups, CallOf, Places
<1>5. \A p \in Processes : at'[p].call = at[p].call + 1 /\ at'[p].stamp = 0
  BY <1>3, <1>4 DEF Places
<1>6. ASSUME NEW p \in Processes, NEW i \in 1..Len(program), program[i].op # "solve",
             i < at'[p].call \/ (i = at'[p].call /\ at'[p].stamp > 0)
      PROVE  Keys(program[i]) \subseteq DOMAIN terms
  <2>1. at[p].call \in Int /\ i < at[p].call + 1 /\ i # at[p].call
    BY <1>4, <1>5, <1>6 DEF Places
  <2>2. i < at[p].call
    BY <2>1
  <2> QED
    BY <1>6, <2>2 DEF SymmetryInv
<1>7. \A p \in Processes : at'[p].call >= 1 /\ ~(at'[p].stamp > 0)
  BY <1>4, <1>5 DEF Places
<1> QED
  BY <1>1, <1>2, <1>3, <1>6, <1>7 DEF SymmetryInv

LEMMA StepSymmetryInv == LockInv /\ SymmetryInv /\ [AssemblyStep]_vars => SymmetryInv'
<1> SUFFICES ASSUME LockInv, SymmetryInv, [AssemblyStep]_vars PROVE SymmetryInv'
  OBVIOUS
<1>1. CASE \E p \in Processes : ProcessStep(p)
  BY <1>1, BeginSymmetry, StampSymmetry DEF ProcessStep
<1>2. CASE Compress
  BY <1>2, CompressSymmetry
<1>3. CASE SolveGroups
  BY <1>3, SolveSymmetry
<1>4. CASE UNCHANGED vars
  <2>1. /\ setup' = setup /\ program' = program /\ tables' = tables
        /\ setup' \in Setups /\ program' = Program'
        /\ tables' = IF setup'.kind = "saaf" THEN Initialize(NoTables, AngleSet)
                     ELSE Diffusion!Precalculate(<<>>)
        /\ \A matrix : Symmetric(matrix)' <=> Symmetric(matrix)
    BY <1>4, SameProblem
  <2>2. /\ \A call : Stamps(call)' = Stamps(call) /\ Keys(call)' = Keys(call)
    BY <1>4, SameCalls
  <2>3. at' = at /\ terms' = terms /\ pending' = pending
    BY <1>4 DEF vars
  <2>4. \A p : CallOf(p)' = CallOf(p) /\ StampOf(p)' = StampOf(p)
               /\ Target(StampOf(p))' = Target(StampOf(p))
    BY <2>1, <2>2, <2>3 DEF CallOf, StampOf, Target
  <2> QED
    BY <2>1, <2>2, <2>3, <2>4 DEF SymmetryInv
<1> QED
  BY <1>1, <1>2, <1>3, <1>4 DEF AssemblyStep, AssemblyNext, Done

(***************************************************************************)
(* The matrices of diffusion and of the self-adjoint angular flux are      *)
(* symmetric, whatever cells the processes own and in whatever order they  *)
(* stamp them: the solvers chosen for them may be those for symmetric      *)
(* matrices.  There is a matrix for every group and angle.                 *)
(***************************************************************************)
THEOREM SelfAdjointMatrices == AssemblySpec => []MatricesAreSelfAdjoint
<1>1. LockInv /\ SymmetryInv => MatricesAreSelfAdjoint
  <2> SUFFICES ASSUME LockInv, SymmetryInv, AllEnded, setup.kind # "drift",
                      NEW g \in GroupSet, NEW a \in AngleIndices
               PROVE  Symmetric(terms[<<"matrix", g, a>>])
    BY DEF MatricesAreSelfAdjoint, Symmetric
  <2>1. PICK i \in 1..Len(program) : program[i] = [op |-> "fixed", group |-> g, angle |-> a]
    BY ProgramCalls DEF SymmetryInv
  <2>2. PICK p \in Processes : TRUE
    BY NumbersAssumption
  <2>3. at[p].call \in Int /\ at[p].call > Len(program) /\ Len(program) \in Nat
    <3>1. Len(program) \in Nat
      <4>1. program \in Seq(UpdateCalls \cup {Solve})
        BY ProgramCalls DEF SymmetryInv
      <4> QED
        BY <4>1
    <3> QED
      BY <3>1 DEF AllEnded, Ended, LockInv, PlaceInv, Places
  <2>4. i < at[p].call /\ program[i].op # "solve"
    BY <2>1, <2>3
  <2>5. Keys(program[i]) \subseteq DOMAIN terms
    BY <2>4 DEF SymmetryInv
  <2>6. <<"matrix", g, a>> \in Keys(program[i])
    BY <2>1 DEF Keys, Key, Targets
  <2> QED
    BY <2>5, <2>6 DEF SymmetryInv
<1>2. AssemblyInit => LockInv /\ SymmetryInv
  BY InitLockInv, InitSymmetryInv
<1>3. LockInv /\ SymmetryInv /\ [AssemblyNext \/ Done]_vars => (LockInv /\ SymmetryInv)'
  BY StepLockInv, StepSymmetryInv DEF AssemblyStep
<1> QED
  BY <1>1, <1>2, <1>3, PTL DEF AssemblySpec
-----------------------------------------------------------------------------
(***************************************************************************)
(* What module TwoGrid assumes of a correction, and where: an error of     *)
(* zeros leaves a flux alone exactly if every degree of freedom is one of  *)
(* the process's cells.  The shapes are averages as module TwoGridData     *)
(* computes them, of sums that are numbers.                                *)
(***************************************************************************)
LEMMA NothingIsAdded ==
  ASSUME NEW cells \in SUBSET Int, NEW dofs \in SUBSET Int, NEW sum \in [dofs -> Int],
         NEW flux \in [dofs -> Int], NEW g, NEW shapes,
         shapes[g] = [d \in dofs |-> Quotient(sum[d], Cardinality(CellsAt(cells, d)))]
  PROVE  CorrectFlux(shapes, flux, [d \in dofs |-> 0], g) = flux <=> dofs \subseteq Dofs(cells)
<1> DEFINE corrected == CorrectFlux(shapes, flux, [d \in dofs |-> 0], g)
<1>1. \A d \in dofs : d \in Dofs(cells) <=> CellsAt(cells, d) # {}
  BY DEF Dofs, CellsAt
<1>2. ASSUME NEW d \in dofs, CellsAt(cells, d) # {}
      PROVE  shapes[g][d] \in Int
  <2>1. IsFiniteSet({d - 1, d})
    <3>1. IsFiniteSet({d}) /\ {d - 1, d} = {d} \cup {d - 1}
      BY FS_Singleton
    <3> QED
      BY <3>1, FS_AddElement
  <2>2. IsFiniteSet(CellsAt(cells, d))
    BY <2>1, FS_Intersection, FS_Subset DEF CellsAt
  <2>3. Cardinality(CellsAt(cells, d)) \in Nat \ {0}
    BY <1>2, <2>2, FS_CardinalityType, FS_EmptySet
  <2>4. sum[d] \div Cardinality(CellsAt(cells, d)) \in Int
    BY <2>3
  <2> QED
    BY <2>3, <2>4 DEF Quotient
<1>3. ASSUME NEW d \in dofs, CellsAt(cells, d) = {}
      PROVE  shapes[g][d] = NaN
  BY <1>3, FS_EmptySet DEF Quotient
<1>4. DOMAIN corrected = dofs /\ \A d \in dofs : corrected[d] =
        IF NaN \in {flux[d], shapes[g][d], 0} THEN NaN ELSE flux[d] + shapes[g][d] * 0
  BY DEF CorrectFlux
<1>5. ASSUME NEW d \in dofs PROVE corrected[d] = flux[d] <=> CellsAt(cells, d) # {}
  <2>0. flux[d] \in Int /\ 0 \in Int /\ NaN \notin Int
    BY NotANumber
  <2>1. CASE CellsAt(cells, d) # {}
    <3>1. shapes[g][d] \in Int
      BY <1>2, <2>1
    <3>2. flux[d] + shapes[g][d] * 0 = flux[d]
      BY <2>0, <3>1
    <3>3. NaN \notin {flux[d], shapes[g][d], 0}
      BY <2>0, <3>1
    <3> HIDE DEF corrected
    <3> QED
      BY <1>4, <2>1, <3>2, <3>3
  <2>2. CASE CellsAt(cells, d) = {}
    <3>1. NaN \in {flux[d], shapes[g][d], 0}
      BY <1>3, <2>2
    <3> HIDE DEF corrected
    <3> QED
      BY <1>4, <2>0, <2>2, <3>1
  <2> QED
    BY <2>1, <2>2
<1> HIDE DEF corrected
<1>6. corrected = [d \in dofs |-> corrected[d]]
  <2>1. corrected = [d \in DOMAIN corrected |-> corrected[d]]
    BY DEF corrected, CorrectFlux
  <2> QED
    BY <1>4, <2>1
<1>7. corrected = flux <=> \A d \in dofs : corrected[d] = flux[d]
  BY <1>6
<1> QED
  BY <1>1, <1>5, <1>7 DEF corrected

=============================================================================
