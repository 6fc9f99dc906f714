------------------------ MODULE FrameworkBuildProofs ------------------------
(***************************************************************************)
(* What module FrameworkBuild promises, for every set of parameters an     *)
(* input file can ask for and every bound on the stack of calls.           *)
(***************************************************************************)
EXTENDS FrameworkBuild, SequenceTheorems, TLAPS

\* The sequences a stack of at most two calls goes through.
LEMMA ShortStacks ==
  ASSUME NEW f, NEW g, NEW h
  PROVE  /\ Len(<<>>) = 0 /\ Len(<<f>>) = 1 /\ Len(<<f, g>>) = 2
         /\ <<f>> # <<>> /\ <<f, g>> # <<>>
         /\ Last(<<f>>) = f /\ Last(<<f, g>>) = g
         /\ Front(<<f>>) = <<>> /\ Front(<<f, g>>) = <<f>>
         /\ Append(<<>>, h) = <<h>> /\ Append(<<f>>, h) = <<f, h>>
<1>1. Len(<<>>) = 0 /\ Len(<<f>>) = 1 /\ Len(<<f, g>>) = 2
  OBVIOUS
<1>2. <<f>> # <<>> /\ <<f, g>> # <<>>
  BY <1>1
<1>3. Last(<<f>>) = f /\ Last(<<f, g>>) = g
  BY <1>1 DEF Last
<1>4. Front(<<f>>) = <<>>
  BY <1>1 DEF Front
<1>5. Front(<<f, g>>) = <<f>>
  <2>1. <<f, g>> \in Seq({f, g})
    OBVIOUS
  <2>2. Front(<<f, g>>) = SubSeq(<<f, g>>, 1, 1)
    BY <1>1 DEF Front
  <2>3. SubSeq(<<f, g>>, 1, 1) = [i \in 1 .. 1 |-> <<f, g>>[i]]
    BY <2>1
  <2>4. [i \in 1 .. 1 |-> <<f, g>>[i]] = <<f>>
    OBVIOUS
  <2> QED
    BY <2>2, <2>3, <2>4
<1>6. Append(<<>>, h) = <<h>>
  OBVIOUS
<1>7. Append(<<f>>, h) = <<f, h>>
  <2>1. <<f>> \in Seq({f, h}) /\ <<f, h>> \in Seq({f, h})
    OBVIOUS
  <2>2. /\ Append(<<f>>, h) \in Seq({f, h})
        /\ Len(Append(<<f>>, h)) = 2
        /\ Append(<<f>>, h)[1] = f /\ Append(<<f>>, h)[2] = h
    BY <2>1, AppendProperties
  <2>3. \A i \in 1 .. 2 : Append(<<f>>, h)[i] = <<f, h>>[i]
    BY <2>2
  <2> QED
    BY <1>1, <2>1, <2>2, <2>3, SeqEqual
<1> QED
  BY <1>1, <1>2, <1>3, <1>4, <1>5, <1>6, <1>7

-----------------------------------------------------------------------------
(***************************************************************************)
(* One call of BuildFramework: what its frame holds after each of its      *)
(* steps is a function of its parameters.                                  *)
(***************************************************************************)
Steps    == {"parse", "updaters", "group", "system", "two grid", "two grid built",
             "nda", "nda built", "outer", "report"}
Waiting  == {"two grid built", "nda built"}

Parsed      == Steps \ {"parse"}
HasUpdaters == Parsed \ {"updaters"}
HasGroup    == HasUpdaters \ {"group"}
HasSystem   == HasGroup \ {"system"}
PastTwoGrid == {"nda", "nda built", "outer", "report"}

UpdaterNames == {"fixed", "scattering", "fission", "boundary"}

FrameType ==
  [ params : Parameters, step : Steps, needStorage : BOOLEAN, solutions : BOOLEAN,
    updaters : SUBSET UpdaterNames, storing : BOOLEAN, terms : SUBSET UpdaterNames,
    subroutines : SUBSET {"two grid", "nda"},
    initializer : {"none", "reset moments", "once"},
    outer : {"none", "power", "fixed source"}, nested : BOOLEAN ]

FrameInv(f) ==
  /\ f \in FrameType
  /\ f.step \in Parsed =>
       ParseError(f.params) = "none" /\ f.needStorage = NeedsStorage(f.params)
  /\ f.step \in HasUpdaters =>
       f.solutions = f.needStorage /\ f.updaters = Updaters(f.params)
  /\ f.step \in HasGroup =>
       /\ f.params.equation # "none"
       /\ f.storing = f.needStorage /\ f.initializer = "reset moments"
  /\ f.step \in HasSystem => f.terms = SystemTerms(f.params.eigen, f.needStorage)
  /\ f.step \in PastTwoGrid => ~(f.params.twoGrid /\ f.params.nda)
  /\ f.step = "two grid built" => f.params.twoGrid
  /\ f.step = "nda built" \/ "nda" \in f.subroutines => f.params.nda
  /\ f.step = "report" => f.outer = IF f.params.eigen THEN "power" ELSE "fixed source"

\* g is f after one step of the same call.
SameCall(f, g) == g.params = f.params /\ g.nested = f.nested

LEMMA NewFrameInv ==
  ASSUME NEW p \in Parameters
  PROVE  FrameInv(NewFrame(p))
BY DEF NewFrame, FrameInv, FrameType, Steps, Parsed, HasUpdaters, HasGroup, HasSystem,
       PastTwoGrid

LEMMA ParseFrame ==
  ASSUME NEW f, FrameInv(f), ParseError(f.params) = "none",
         NEW g, g = [f EXCEPT !.step = "updaters",
                              !.needStorage = "storage" \in NeededParts(f.params)]
  PROVE  FrameInv(g) /\ SameCall(f, g)
<1>1. ("storage" \in NeededParts(f.params)) = NeedsStorage(f.params)
  <2>1. "storage" \in NeededParts(f.params) <=> NeedsStorage(f.params)
    <3> HIDE DEF NeedsStorage
    <3> QED
      BY DEF NeededParts
  <2>2. NeedsStorage(f.params) \in BOOLEAN
    BY DEF NeedsStorage
  <2> QED
    BY <2>1, <2>2
<1>2. NeedsStorage(f.params) \in BOOLEAN
  BY DEF NeedsStorage, FrameInv, FrameType, Parameters
<1>3. g = [f EXCEPT !.step = "updaters", !.needStorage = NeedsStorage(f.params)]
  BY <1>1
<1> QED
  BY <1>2, <1>3 DEF FrameInv, FrameType, SameCall, Steps, Parsed, HasUpdaters, HasGroup,
                    HasSystem, PastTwoGrid

LEMMA UpdatersFrame ==
  ASSUME NEW f, FrameInv(f), f.step = "updaters",
         NEW g, g = [f EXCEPT !.step = "group", !.solutions = f.needStorage,
                              !.updaters = Updaters(f.params)]
  PROVE  FrameInv(g) /\ SameCall(f, g)
<1>1. Updaters(f.params) \in SUBSET UpdaterNames
  BY DEF Updaters, UpdaterNames
<1> QED
  BY <1>1 DEF FrameInv, FrameType, SameCall, Steps, Parsed, HasUpdaters, HasGroup,
              HasSystem, PastTwoGrid

LEMMA GroupFrame ==
  ASSUME NEW f, FrameInv(f), f.step = "group", "fixed" \in f.updaters,
         NEW g, g = [f EXCEPT !.step = "system", !.storing = f.needStorage,
                       !.initializer = BuildInitializer("kInitializeFixedTermsAndResetMoments")]
  PROVE  FrameInv(g) /\ SameCall(f, g)
<1>1. f.params.equation # "none"
  BY DEF FrameInv, Updaters, Steps, Parsed, HasUpdaters
<1>2. g = [f EXCEPT !.step = "system", !.storing = f.needStorage,
                    !.initializer = "reset moments"]
  BY DEF BuildInitializer
<1> QED
  BY <1>1, <1>2 DEF FrameInv, FrameType, SameCall, Steps, Parsed, HasUpdaters, HasGroup,
                    HasSystem, PastTwoGrid

LEMMA SystemFrame ==
  ASSUME NEW f, FrameInv(f), f.step = "system",
         NEW g, g = [f EXCEPT !.step = "two grid",
                              !.terms = SystemTerms(f.params.eigen, f.needStorage)]
  PROVE  FrameInv(g) /\ SameCall(f, g)
<1>1. SystemTerms(f.params.eigen, f.needStorage) \in SUBSET UpdaterNames
  BY DEF SystemTerms, UpdaterNames
<1> QED
  BY <1>1 DEF FrameInv, FrameType, SameCall, Steps, Parsed, HasUpdaters, HasGroup,
              HasSystem, PastTwoGrid

\* A step that builds no framework for acceleration.
LEMMA SkipFrame ==
  ASSUME NEW f, FrameInv(f), NEW s, NEW g, g = [f EXCEPT !.step = s],
         \/ f.step = "two grid" /\ ~f.params.twoGrid /\ s = "nda"
         \/ f.step = "nda" /\ ~f.params.nda /\ s = "outer"
  PROVE  FrameInv(g) /\ SameCall(f, g)
BY DEF FrameInv, FrameType, SameCall, Steps, Parsed, HasUpdaters, HasGroup, HasSystem,
       PastTwoGrid

\* A step that calls BuildFramework for acceleration.
LEMMA CallFrame ==
  ASSUME NEW f, FrameInv(f), NEW s, NEW g, g = [f EXCEPT !.step = s, !.nested = TRUE],
         \/ f.step = "two grid" /\ f.params.twoGrid /\ s = "two grid built"
         \/ f.step = "nda" /\ f.params.nda /\ s = "nda built"
  PROVE  FrameInv(g) /\ g.params = f.params /\ g.nested
BY DEF FrameInv, FrameType, Steps, Parsed, HasUpdaters, HasGroup, HasSystem, PastTwoGrid

LEMMA TwoGridFrame ==
  ASSUME NEW f, FrameInv(f), f.step = "two grid built", ~(f.params.twoGrid /\ f.params.nda),
         NEW g, g = [f EXCEPT !.step = "nda", !.subroutines = @ \cup {"two grid"}]
  PROVE  FrameInv(g) /\ SameCall(f, g)
<1>1. g = [f EXCEPT !.step = "nda", !.subroutines = f.subroutines \cup {"two grid"}]
  BY DEF FrameInv, FrameType
<1>2. f.subroutines \cup {"two grid"} \in SUBSET {"two grid", "nda"}
  BY DEF FrameInv, FrameType
<1>3. "nda" \in f.subroutines \cup {"two grid"} => "nda" \in f.subroutines
  OBVIOUS
<1> QED
  BY <1>1, <1>2, <1>3 DEF FrameInv, FrameType, SameCall, Steps, Parsed, HasUpdaters, HasGroup, HasSystem,
              PastTwoGrid

LEMMA NDAFrame ==
  ASSUME NEW f, FrameInv(f), f.step = "nda built",
         NEW g, g = [f EXCEPT !.step = "outer", !.subroutines = @ \cup {"nda"}]
  PROVE  FrameInv(g) /\ SameCall(f, g)
<1>1. g = [f EXCEPT !.step = "outer", !.subroutines = f.subroutines \cup {"nda"}]
  BY DEF FrameInv, FrameType
<1> QED
  BY <1>1 DEF FrameInv, FrameType, SameCall, Steps, Parsed, HasUpdaters, HasGroup, HasSystem,
              PastTwoGrid

LEMMA OuterFrame ==
  ASSUME NEW f, FrameInv(f), f.step = "outer",
         NEW g, g = [f EXCEPT !.step = "report",
                       !.outer = IF f.params.eigen THEN "power" ELSE "fixed source"]
  PROVE  FrameInv(g) /\ SameCall(f, g)
BY DEF FrameInv, FrameType, SameCall, Steps, Parsed, HasUpdaters, HasGroup, HasSystem,
       PastTwoGrid

-----------------------------------------------------------------------------
(***************************************************************************)
(* The parameters a call can have.                                         *)
(***************************************************************************)
LEMMA InputFacts ==
  ASSUME NEW p \in InputParameters
  PROVE  /\ p \in Parameters /\ p.name = "main" /\ p.groups = p.dataGroups
         /\ p.equation \in {"none", "diffusion", "saaf"}
BY DEF InputParameters

LEMMA TwoGridFacts ==
  ASSUME NEW p \in Parameters, NEW q, q = TwoGridParameters(p)
  PROVE  /\ q \in Parameters /\ q.name = "Two-grid diffusion" /\ q.groups = q.dataGroups
         /\ q.equation = "two-grid diffusion" /\ ~q.eigen /\ ~q.twoGrid
         /\ q.nda = p.nda
<1>1. /\ 1 \in 1 .. 2 /\ "two-grid diffusion" \in Equations
      /\ "Two-grid diffusion" \in {"main", "Two-grid diffusion", "NDA Drift-Diffusion"}
  BY DEF Equations
<1>2. q \in Parameters
  BY <1>1 DEF TwoGridParameters, Parameters
<1>3. q.name = "Two-grid diffusion" /\ q.equation = "two-grid diffusion"
  BY DEF TwoGridParameters, Parameters
<1>4. q.groups = q.dataGroups
  BY DEF TwoGridParameters, Parameters
<1>5. ~q.eigen /\ ~q.twoGrid
  BY DEF TwoGridParameters, Parameters
<1>6. q.nda = p.nda
  BY DEF TwoGridParameters, Parameters
<1> QED
  BY <1>2, <1>3, <1>4, <1>5, <1>6

LEMMA NDAFacts ==
  ASSUME NEW p \in InputParameters, NEW q, q = NDAParameters(p)
  PROVE  /\ q \in Parameters /\ q.name = "NDA Drift-Diffusion" /\ q.groups = q.dataGroups
         /\ q.equation \in {"none", "diffusion", "saaf"} /\ ~q.nda
         /\ q.twoGrid = p.twoGrid
BY InputFacts DEF NDAParameters, Parameters, Equations

\* No call is for the drift-diffusion equation, which no input can ask for, and
\* the data has the groups of the call.
Known(p) == p \in Parameters /\ p.groups = p.dataGroups /\ p.equation # "drift diffusion"

-----------------------------------------------------------------------------
(***************************************************************************)
(* The stack: the call from main, and at most one call it waits for.       *)
(***************************************************************************)
\* Of a call that nests none, the validator's parts are those of its steps.
PartsOf(f) ==
  IF f.step \in {"parse", "updaters", "group"} THEN {}
  ELSE {"scattering"} \cup (IF f.needStorage THEN {"storage"} ELSE {})
         \cup (IF f.step = "report" /\ f.params.eigen THEN {"fission"} ELSE {})

PartsAre(f, need, have) ==
  ~f.nested => /\ f.step \in Parsed => need = NeededParts(f.params)
               /\ have = PartsOf(f)

IsReturned(f, back) ==
  /\ back # {}
  /\ \A r \in back : /\ FrameInv(r) /\ r.step = "report"
                      /\ r.params = TwoGridParameters(f.params)

Alone(f, back, need, have) ==
  /\ FrameInv(f) /\ f.params \in InputParameters
  /\ PartsAre(f, need, have)
  /\ f.step = "two grid built" => IsReturned(f, back)

Called(f, g) ==
  /\ FrameInv(f) /\ f.params \in InputParameters /\ f.nested
  /\ FrameInv(g) /\ g.step \notin Waiting
  /\ \/ f.step = "two grid built" /\ g.params = TwoGridParameters(f.params)
     \/ f.step = "nda built" /\ g.params = NDAParameters(f.params)

Stack(fs, back, need, have) ==
  \/ fs = <<>>
  \/ fs = <<fs[1]>> /\ Alone(fs[1], back, need, have)
  \/ fs = <<fs[1], fs[2]>> /\ Called(fs[1], fs[2])

StackInv == Stack(frames, returned, needed, parts)

BuiltInv == \A f \in built : FrameInv(f) /\ f.step = "report" /\ Known(f.params)

FailureInv == failure \notin {"Error building Two-grid", "NDA dependency missing"}

BuildInv == StackInv /\ BuiltInv /\ FailureInv /\ PlainReportIsClean

LEMMA StackOfOne ==
  ASSUME NEW f, NEW back, NEW need, NEW have, Alone(f, back, need, have)
  PROVE  Stack(<<f>>, back, need, have)
BY DEF Stack

LEMMA StackOfTwo ==
  ASSUME NEW f, NEW g, NEW back, NEW need, NEW have, Called(f, g)
  PROVE  Stack(<<f, g>>, back, need, have)
BY DEF Stack

\* The two shapes of a stack that is not empty.
LEMMA StackCases ==
  ASSUME NEW fs, NEW back, NEW need, NEW have, Stack(fs, back, need, have), fs # <<>>
  PROVE  \/ \E f : fs = <<f>> /\ Last(fs) = f /\ Front(fs) = <<>>
                    /\ Alone(f, back, need, have)
         \/ \E f, g : fs = <<f, g>> /\ Last(fs) = g /\ Front(fs) = <<f>> /\ Called(f, g)
<1>1. CASE fs = <<fs[1]>> /\ Alone(fs[1], back, need, have)
  <2> DEFINE f == fs[1]
  <2>1. fs = <<f>> /\ Alone(f, back, need, have)
    BY <1>1
  <2> HIDE DEF f
  <2>2. Last(<<f>>) = f /\ Front(<<f>>) = <<>>
    BY ShortStacks
  <2> QED
    BY <2>1, <2>2
<1>2. CASE fs = <<fs[1], fs[2]>> /\ Called(fs[1], fs[2])
  <2> DEFINE f == fs[1]
             g == fs[2]
  <2>1. fs = <<f, g>> /\ Called(f, g)
    BY <1>2
  <2> HIDE DEF f, g
  <2>2. Last(<<f, g>>) = g /\ Front(<<f, g>>) = <<f>>
    BY ShortStacks
  <2> QED
    BY <2>1, <2>2
<1> QED
  BY <1>1, <1>2 DEF Stack

LEMMA InputsAreKnown ==
  ASSUME NEW p \in InputParameters
  PROVE  Known(p) /\ Known(TwoGridParameters(p)) /\ Known(NDAParameters(p))
BY InputFacts, TwoGridFacts, NDAFacts DEF Known

\* A call made for acceleration makes no further call.
LEMMA CalledFacts ==
  ASSUME NEW f, NEW g, Called(f, g)
  PROVE  /\ Known(g.params) /\ g.params.name # "main"
         /\ g.step = "two grid" => ~g.params.twoGrid
         /\ g.step = "nda" => ~g.params.nda
<1>1. f.params \in InputParameters /\ f.params \in Parameters /\ FrameInv(g) /\ FrameInv(f)
  BY InputFacts DEF Called
<1>2. CASE f.step = "two grid built" /\ g.params = TwoGridParameters(f.params)
  <2>1. /\ g.params.equation = "two-grid diffusion" /\ ~g.params.twoGrid
        /\ g.params.name # "main" /\ Known(g.params)
    BY <1>1, <1>2, TwoGridFacts, InputsAreKnown
  <2>2. g.step = "nda" => ParseError(g.params) = "none"
    BY <1>1 DEF FrameInv, Steps, Parsed
  <2>3. g.step = "nda" => ~g.params.nda
    BY <2>1, <2>2 DEF ParseError
  <2> QED
    BY <2>1, <2>3
<1>3. CASE f.step = "nda built" /\ g.params = NDAParameters(f.params)
  <2>1. f.params.nda /\ ~(f.params.twoGrid /\ f.params.nda)
    BY <1>1, <1>3 DEF FrameInv, PastTwoGrid
  <2>2. /\ ~g.params.nda /\ g.params.twoGrid = f.params.twoGrid
        /\ g.params.name # "main" /\ Known(g.params)
    BY <1>1, <1>3, NDAFacts, InputsAreKnown
  <2> QED
    BY <2>1, <2>2
<1> QED
  BY <1>2, <1>3 DEF Called

LEMMA TopFacts ==
  ASSUME NEW fs, NEW back, NEW need, NEW have, Stack(fs, back, need, have), fs # <<>>
  PROVE  FrameInv(Last(fs)) /\ Known(Last(fs).params)
<1>1. CASE \E f : Last(fs) = f /\ Alone(f, back, need, have)
  BY <1>1, InputsAreKnown DEF Alone
<1>2. CASE \E f, g : Last(fs) = g /\ Called(f, g)
  BY <1>2, CalledFacts DEF Called
<1> QED
  BY <1>1, <1>2, StackCases

\* The innermost call takes a step and makes no call.
LEMMA StepKeepsStack ==
  ASSUME NEW fs, NEW back, NEW need, NEW have, Stack(fs, back, need, have), fs # <<>>,
         NEW back2, NEW need2, NEW have2,
         NEW g, FrameInv(g), SameCall(Last(fs), g), g.step \notin Waiting,
         PartsAre(Last(fs), need, have) => PartsAre(g, need2, have2)
  PROVE  Stack(Append(Front(fs), g), back2, need2, have2)
<1>1. ASSUME NEW f, fs = <<f>>, Last(fs) = f, Front(fs) = <<>>, Alone(f, back, need, have)
      PROVE  Stack(Append(Front(fs), g), back2, need2, have2)
  <2>1. Append(Front(fs), g) = <<g>>
    BY <1>1, ShortStacks
  <2>2. Alone(g, back2, need2, have2)
    BY <1>1 DEF Alone, SameCall, Waiting
  <2> QED
    BY <2>1, <2>2, StackOfOne
<1>2. ASSUME NEW f, NEW h, fs = <<f, h>>, Last(fs) = h, Front(fs) = <<f>>, Called(f, h)
      PROVE  Stack(Append(Front(fs), g), back2, need2, have2)
  <2>1. Append(Front(fs), g) = <<f, g>>
    BY <1>2, ShortStacks
  <2>2. Called(f, g)
    BY <1>2 DEF Called, SameCall
  <2> QED
    BY <2>1, <2>2, StackOfTwo
<1> QED
  BY <1>1, <1>2, StackCases

\* The innermost call makes a call for acceleration: it is the one from main.
LEMMA CallKeepsStack ==
  ASSUME NEW fs, NEW back, NEW need, NEW have, Stack(fs, back, need, have), fs # <<>>,
         NEW s, NEW p,
         \/ /\ Last(fs).step = "two grid" /\ Last(fs).params.twoGrid
            /\ s = "two grid built" /\ p = TwoGridParameters(Last(fs).params)
         \/ /\ Last(fs).step = "nda" /\ Last(fs).params.nda
            /\ s = "nda built" /\ p = NDAParameters(Last(fs).params)
  PROVE  Stack(Append(Append(Front(fs), [Last(fs) EXCEPT !.step = s, !.nested = TRUE]),
                      NewFrame(p)), back, need, have)
<1>1. PICK f : Last(fs) = f /\ Front(fs) = <<>> /\ Alone(f, back, need, have)
  BY StackCases, CalledFacts
<1> DEFINE g == [f EXCEPT !.step = s, !.nested = TRUE]
<1>2. FrameInv(f) /\ f.params \in InputParameters
  BY <1>1 DEF Alone
<1>3. FrameInv(g) /\ g.params = f.params /\ g.nested
  BY <1>1, <1>2, CallFrame
<1>4. g.step = s
  BY <1>2 DEF FrameInv, FrameType
<1>5. Known(p)
  BY <1>1, <1>2, InputsAreKnown
<1>6. FrameInv(NewFrame(p))
  BY <1>5, NewFrameInv DEF Known
<1>7. NewFrame(p).params = p /\ NewFrame(p).step = "parse"
  BY DEF NewFrame
<1>8. Called(g, NewFrame(p))
  <2> HIDE DEF g
  <2> QED
    BY <1>1, <1>2, <1>3, <1>4, <1>6, <1>7 DEF Called, Waiting
<1>9. Append(Append(Front(fs), g), NewFrame(p)) = <<g, NewFrame(p)>>
  <2> HIDE DEF g
  <2>1. Append(Front(fs), g) = <<g>>
    BY <1>1, ShortStacks
  <2> QED
    BY <2>1, ShortStacks
<1> QED
  BY <1>1, <1>8, <1>9, StackOfTwo

\* The innermost call returns its framework.
LEMMA ReturnKeepsStack ==
  ASSUME NEW fs, NEW back, NEW need, NEW have, Stack(fs, back, need, have), fs # <<>>,
         Last(fs).step = "report"
  PROVE  Stack(Front(fs), {Last(fs)}, need, have)
<1>1. ASSUME NEW f, fs = <<f>>, Last(fs) = f, Front(fs) = <<>>
      PROVE  Stack(Front(fs), {Last(fs)}, need, have)
  BY <1>1 DEF Stack
<1>2. ASSUME NEW f, NEW h, fs = <<f, h>>, Last(fs) = h, Front(fs) = <<f>>, Called(f, h)
      PROVE  Stack(Front(fs), {Last(fs)}, need, have)
  <2>1. Alone(f, {h}, need, have)
    BY <1>2 DEF Alone, Called, PartsAre, IsReturned
  <2> QED
    BY <1>2, <2>1, StackOfOne
<1> QED
  BY <1>1, <1>2, StackCases

-----------------------------------------------------------------------------
LEMMA InitBuildInv == Init => BuildInv
<1> SUFFICES ASSUME Init PROVE BuildInv
  OBVIOUS
<1>1. PICK p \in InputParameters : frames = <<NewFrame(p)>>
  BY DEF Init
<1>2. FrameInv(NewFrame(p))
  BY InputFacts, NewFrameInv
<1>3. Alone(NewFrame(p), returned, needed, parts)
  BY <1>2 DEF Init, Alone, PartsAre, PartsOf, NewFrame, Parsed
<1>4. StackInv
  BY <1>1, <1>3, StackOfOne DEF StackInv
<1> QED
  BY <1>4 DEF Init, BuildInv, BuiltInv, FailureInv, PlainReportIsClean

\* What holds at every step of the innermost call.
LEMMA AtStepFacts ==
  ASSUME BuildInv, NEW s, AtStep(s)
  PROVE  /\ Stack(frames, returned, needed, parts) /\ frames # <<>> /\ Top = Last(frames)
         /\ Top.step = s /\ FrameInv(Top) /\ Known(Top.params)
BY TopFacts DEF BuildInv, StackInv, AtStep, Top

\* A step of the innermost call that makes no call and builds no framework.
LEMMA StepKeepsInv ==
  ASSUME BuildInv, NEW s, AtStep(s),
         NEW g, FrameInv(g), SameCall(Top, g), g.step \notin Waiting, Become(g),
         PartsAre(Top, needed, parts) => PartsAre(g, needed', parts'),
         UNCHANGED <<failure, built, reports>>
  PROVE  BuildInv'
<1>1. Stack(frames, returned, needed, parts) /\ frames # <<>> /\ Top = Last(frames)
  BY AtStepFacts
<1>2. Stack(Append(Front(frames), g), returned', needed', parts')
  BY <1>1, StepKeepsStack
<1>3. StackInv'
  BY <1>2 DEF StackInv, Become
<1> QED
  BY <1>3 DEF BuildInv, BuiltInv, FailureInv, PlainReportIsClean

LEMMA ParseKeepsInv == BuildInv /\ Parse => BuildInv'
<1> SUFFICES ASSUME BuildInv, Parse PROVE BuildInv'
  OBVIOUS
<1> DEFINE g == [Top EXCEPT !.step = "updaters", !.needStorage = "storage" \in needed']
<1>1. AtStep("parse") /\ FrameInv(Top) /\ Top.step = "parse"
  BY AtStepFacts DEF Parse
<1>2. /\ Become(g) /\ UNCHANGED <<parts, failure, built, reports>>
      /\ needed' = NeededParts(Top.params) /\ ParseError(Top.params) = "none"
  BY DEF Parse
<1>3. FrameInv(g) /\ SameCall(Top, g)
  BY <1>1, <1>2, ParseFrame
<1>4. g.step = "updaters"
  BY <1>1 DEF FrameInv, FrameType
<1>5. PartsAre(Top, needed, parts) => PartsAre(g, needed', parts')
  <2> HIDE DEF g
  <2> QED
    BY <1>1, <1>2, <1>3, <1>4 DEF PartsAre, PartsOf, SameCall
<1> QED
  <2> HIDE DEF g
  <2> QED
    BY <1>1, <1>2, <1>3, <1>4, <1>5, StepKeepsInv DEF Waiting

LEMMA UpdatersKeepInv == BuildInv /\ BuildUpdaters => BuildInv'
<1> SUFFICES ASSUME BuildInv, BuildUpdaters PROVE BuildInv'
  OBVIOUS
<1> DEFINE g == [Top EXCEPT !.step = "group", !.solutions = Top.needStorage,
                            !.updaters = Updaters(Top.params)]
<1>1. AtStep("updaters") /\ FrameInv(Top) /\ Top.step = "updaters"
  BY AtStepFacts DEF BuildUpdaters
<1>2. Become(g) /\ UNCHANGED <<needed, parts, failure, built, reports>>
  BY DEF BuildUpdaters
<1>3. FrameInv(g) /\ SameCall(Top, g)
  BY <1>1, UpdatersFrame
<1>4. g.step = "group"
  BY <1>1 DEF FrameInv, FrameType
<1>5. PartsAre(Top, needed, parts) => PartsAre(g, needed', parts')
  <2> HIDE DEF g
  <2> QED
    BY <1>1, <1>2, <1>3, <1>4 DEF PartsAre, PartsOf, SameCall, Parsed, Steps
<1> QED
  <2> HIDE DEF g
  <2> QED
    BY <1>1, <1>2, <1>3, <1>4, <1>5, StepKeepsInv DEF Waiting

LEMMA GroupKeepsInv == BuildInv /\ BuildGroupIteration => BuildInv'
<1> SUFFICES ASSUME BuildInv, BuildGroupIteration PROVE BuildInv'
  OBVIOUS
<1> DEFINE g == [Top EXCEPT !.step = "system", !.storing = Top.needStorage,
                   !.initializer = BuildInitializer("kInitializeFixedTermsAndResetMoments")]
<1>1. AtStep("group") /\ FrameInv(Top) /\ Top.step = "group"
  BY AtStepFacts DEF BuildGroupIteration
<1>2. /\ Become(g) /\ UNCHANGED <<needed, failure, built, reports>>
      /\ "fixed" \in Top.updaters
      /\ parts' = parts \cup {"scattering"} \cup (IF Top.needStorage THEN {"storage"} ELSE {})
  BY DEF BuildGroupIteration
<1>3. FrameInv(g) /\ SameCall(Top, g)
  BY <1>1, <1>2, GroupFrame
<1>4. g.step = "system" /\ g.needStorage = Top.needStorage
  BY <1>1 DEF FrameInv, FrameType
<1>5. PartsAre(Top, needed, parts) => PartsAre(g, needed', parts')
  <2> HIDE DEF g
  <2> QED
    BY <1>1, <1>2, <1>3, <1>4 DEF PartsAre, PartsOf, SameCall, Parsed, Steps
<1> QED
  <2> HIDE DEF g
  <2> QED
    BY <1>1, <1>2, <1>3, <1>4, <1>5, StepKeepsInv DEF Waiting

LEMMA SystemKeepsInv == BuildInv /\ BuildSystem => BuildInv'
<1> SUFFICES ASSUME BuildInv, BuildSystem PROVE BuildInv'
  OBVIOUS
<1> DEFINE g == [Top EXCEPT !.step = "two grid",
                            !.terms = SystemTerms(Top.params.eigen, Top.needStorage)]
<1>1. AtStep("system") /\ FrameInv(Top) /\ Top.step = "system"
  BY AtStepFacts DEF BuildSystem
<1>2. Become(g) /\ UNCHANGED <<needed, parts, failure, built, reports>>
  BY DEF BuildSystem
<1>3. FrameInv(g) /\ SameCall(Top, g)
  BY <1>1, SystemFrame
<1>4. g.step = "two grid" /\ g.needStorage = Top.needStorage
  BY <1>1 DEF FrameInv, FrameType
<1>5. PartsAre(Top, needed, parts) => PartsAre(g, needed', parts')
  <2> HIDE DEF g
  <2> QED
    BY <1>1, <1>2, <1>3, <1>4 DEF PartsAre, PartsOf, SameCall, Parsed, Steps
<1> QED
  <2> HIDE DEF g
  <2> QED
    BY <1>1, <1>2, <1>3, <1>4, <1>5, StepKeepsInv DEF Waiting

LEMMA SkipKeepsInv ==
  ASSUME BuildInv, NEW s, NEW t, AtStep(s), Skip(t),
         \/ s = "two grid" /\ ~Top.params.twoGrid /\ t = "nda"
         \/ s = "nda" /\ ~Top.params.nda /\ t = "outer"
  PROVE  BuildInv'
<1> DEFINE g == [Top EXCEPT !.step = t]
<1>1. FrameInv(Top) /\ Top.step = s
  BY AtStepFacts
<1>2. Become(g) /\ UNCHANGED <<needed, parts, failure, built, reports>>
  BY DEF Skip
<1>3. FrameInv(g) /\ SameCall(Top, g)
  BY <1>1, SkipFrame
<1>4. g.step = t /\ g.needStorage = Top.needStorage
  BY <1>1 DEF FrameInv, FrameType
<1>5. PartsAre(Top, needed, parts) => PartsAre(g, needed', parts')
  <2> HIDE DEF g
  <2> QED
    BY <1>1, <1>2, <1>3, <1>4 DEF PartsAre, PartsOf, SameCall, Parsed, Steps
<1> QED
  <2> HIDE DEF g
  <2> QED
    BY <1>1, <1>2, <1>3, <1>4, <1>5, StepKeepsInv DEF Waiting

LEMMA CallKeepsInv ==
  ASSUME BuildInv, NEW s, NEW t, NEW p, AtStep(s), Call(p, t),
         \/ /\ s = "two grid" /\ Top.params.twoGrid
            /\ t = "two grid built" /\ p = TwoGridParameters(Top.params)
         \/ /\ s = "nda" /\ Top.params.nda
            /\ t = "nda built" /\ p = NDAParameters(Top.params)
  PROVE  BuildInv'
<1>1. /\ Stack(frames, returned, needed, parts) /\ frames # <<>> /\ Top = Last(frames)
      /\ Top.step = s
  BY AtStepFacts
<1>2. Stack(Append(Append(Front(frames), [Top EXCEPT !.step = t, !.nested = TRUE]),
                   NewFrame(p)), returned, needed, parts)
  BY <1>1, CallKeepsStack
<1>3. StackInv'
  BY <1>2 DEF StackInv, Call
<1> QED
  BY <1>3 DEF Call, BuildInv, BuiltInv, FailureInv, PlainReportIsClean

LEMMA StartKeepsInv == BuildInv /\ (StartTwoGrid \/ StartNDA) => BuildInv'
<1>1. ASSUME BuildInv, StartTwoGrid PROVE BuildInv'
  <2>1. CASE Top.params.twoGrid
    BY <1>1, <2>1, CallKeepsInv DEF StartTwoGrid
  <2>2. CASE ~Top.params.twoGrid
    BY <1>1, <2>2, SkipKeepsInv DEF StartTwoGrid
  <2> QED
    BY <2>1, <2>2
<1>2. ASSUME BuildInv, StartNDA PROVE BuildInv'
  <2>1. CASE Top.params.nda
    BY <1>2, <2>1, CallKeepsInv DEF StartNDA
  <2>2. CASE ~Top.params.nda
    BY <1>2, <2>2, SkipKeepsInv DEF StartNDA
  <2> QED
    BY <2>1, <2>2
<1> QED
  BY <1>1, <1>2

\* What the call from main is given back for two-grid acceleration: a framework
\* that takes the residual, and none for a problem that asks for NDA too.
LEMMA ReturnedFacts ==
  ASSUME BuildInv, AtStep("two grid built")
  PROVE  /\ \A r \in returned : TakesResidual(r)
         /\ ~(Top.params.twoGrid /\ Top.params.nda)
<1>1. Alone(Top, returned, needed, parts) /\ Top.step = "two grid built"
  BY AtStepFacts, StackCases DEF Called, Waiting
<1>2. IsReturned(Top, returned) /\ Top.params \in InputParameters
  BY <1>1 DEF Alone
<1>3. ASSUME NEW r \in returned
      PROVE  TakesResidual(r) /\ ~Top.params.nda
  <2>1. FrameInv(r) /\ r.step = "report" /\ r.params = TwoGridParameters(Top.params)
    BY <1>2 DEF IsReturned
  <2>2. /\ r.params.equation = "two-grid diffusion" /\ ~r.params.eigen
        /\ r.params.nda = Top.params.nda
    BY <1>2, <2>1, InputFacts, TwoGridFacts
  <2>3. r.outer = "fixed source" /\ ParseError(r.params) = "none"
    BY <2>1, <2>2 DEF FrameInv, Steps, Parsed
  <2>4. TakesResidual(r)
    BY <2>2, <2>3 DEF TakesResidual
  <2>5. ~Top.params.nda
    BY <2>2, <2>3 DEF ParseError
  <2> QED
    BY <2>4, <2>5
<1> QED
  BY <1>2, <1>3 DEF IsReturned

LEMMA FinishTwoGridKeepsInv == BuildInv /\ FinishTwoGrid => BuildInv'
<1> SUFFICES ASSUME BuildInv, FinishTwoGrid PROVE BuildInv'
  OBVIOUS
<1> DEFINE g == [Top EXCEPT !.step = "nda", !.subroutines = @ \cup {"two grid"}]
<1>1. AtStep("two grid built") /\ FrameInv(Top) /\ Top.step = "two grid built"
  BY AtStepFacts DEF FinishTwoGrid
<1>2. Become(g) /\ UNCHANGED <<needed, parts, failure, built, reports>>
  BY <1>1, ReturnedFacts DEF FinishTwoGrid
<1>3. FrameInv(g) /\ SameCall(Top, g)
  BY <1>1, ReturnedFacts, TwoGridFrame
<1>4. g.step = "nda" /\ g.needStorage = Top.needStorage
  BY <1>1 DEF FrameInv, FrameType
<1>5. PartsAre(Top, needed, parts) => PartsAre(g, needed', parts')
  <2> HIDE DEF g
  <2> QED
    BY <1>1, <1>2, <1>3, <1>4 DEF PartsAre, PartsOf, SameCall, Parsed, Steps
<1> QED
  <2> HIDE DEF g
  <2> QED
    BY <1>1, <1>2, <1>3, <1>4, <1>5, StepKeepsInv DEF Waiting

LEMMA FinishNDAKeepsInv == BuildInv /\ FinishNDA => BuildInv'
<1> SUFFICES ASSUME BuildInv, FinishNDA PROVE BuildInv'
  OBVIOUS
<1> DEFINE g == [Top EXCEPT !.step = "outer", !.subroutines = @ \cup {"nda"}]
<1>1. AtStep("nda built") /\ FrameInv(Top) /\ Top.step = "nda built"
  BY AtStepFacts DEF FinishNDA
<1>2. Become(g) /\ UNCHANGED <<needed, parts, failure, built, reports>>
  BY DEF FinishNDA
<1>3. FrameInv(g) /\ SameCall(Top, g)
  BY <1>1, NDAFrame
<1>4. g.step = "outer" /\ g.needStorage = Top.needStorage
  BY <1>1 DEF FrameInv, FrameType
<1>5. PartsAre(Top, needed, parts) => PartsAre(g, needed', parts')
  <2> HIDE DEF g
  <2> QED
    BY <1>1, <1>2, <1>3, <1>4 DEF PartsAre, PartsOf, SameCall, Parsed, Steps
<1> QED
  <2> HIDE DEF g
  <2> QED
    BY <1>1, <1>2, <1>3, <1>4, <1>5, StepKeepsInv DEF Waiting

LEMMA OuterKeepsInv == BuildInv /\ BuildOuter => BuildInv'
<1> SUFFICES ASSUME BuildInv, BuildOuter PROVE BuildInv'
  OBVIOUS
<1> DEFINE g == [Top EXCEPT !.step = "report",
                   !.outer = IF Top.params.eigen THEN "power" ELSE "fixed source"]
<1>1. AtStep("outer") /\ FrameInv(Top) /\ Top.step = "outer"
  BY AtStepFacts DEF BuildOuter
<1>2. /\ Become(g) /\ UNCHANGED <<needed, failure, built, reports>>
      /\ parts' = IF Top.params.eigen THEN parts \cup {"fission"} ELSE parts
  BY DEF BuildOuter
<1>3. FrameInv(g) /\ SameCall(Top, g)
  BY <1>1, OuterFrame
<1>4. g.step = "report" /\ g.needStorage = Top.needStorage
  BY <1>1 DEF FrameInv, FrameType
<1>5. PartsAre(Top, needed, parts) => PartsAre(g, needed', parts')
  <2> HIDE DEF g
  <2> QED
    BY <1>1, <1>2, <1>3, <1>4 DEF PartsAre, PartsOf, SameCall, Parsed, Steps
<1> QED
  <2> HIDE DEF g
  <2> QED
    BY <1>1, <1>2, <1>3, <1>4, <1>5, StepKeepsInv DEF Waiting

LEMMA ReportKeepsInv == BuildInv /\ Report => BuildInv'
<1> SUFFICES ASSUME BuildInv, Report PROVE BuildInv'
  OBVIOUS
<1>1. /\ Stack(frames, returned, needed, parts) /\ frames # <<>> /\ Top = Last(frames)
      /\ Top.step = "report" /\ FrameInv(Top) /\ Known(Top.params)
  BY AtStepFacts DEF Report
<1>2. Stack(Front(frames), {Top}, needed, parts)
  BY <1>1, ReturnKeepsStack
<1>3. StackInv'
  BY <1>2 DEF StackInv, Report
<1>4. BuiltInv' /\ FailureInv'
  BY <1>1 DEF Report, BuildInv, BuiltInv, FailureInv
<1>5. ASSUME ~Top.nested, Top.params.name = "main"
      PROVE  needed = parts
  <2>1. PartsAre(Top, needed, parts)
    BY <1>1, <1>5, StackCases, CalledFacts DEF Alone
  <2>2. Top.needStorage = NeedsStorage(Top.params) /\ Top.step \in Parsed
    BY <1>1 DEF FrameInv, Parsed, Steps
  <2> QED
    BY <1>1, <1>5, <2>1, <2>2 DEF PartsAre, PartsOf, NeededParts
<1>6. PlainReportIsClean'
  BY <1>5 DEF Report, BuildInv, PlainReportIsClean
<1> QED
  BY <1>3, <1>4, <1>6 DEF BuildInv

\* The errors Parse and BuildGroupIteration throw are those of the input.
LEMMA ThrowsKeepInv == BuildInv /\ (ParseThrows \/ BuildGroupIterationThrows) => BuildInv'
<1> SUFFICES ASSUME BuildInv, ParseThrows \/ BuildGroupIterationThrows PROVE BuildInv'
  OBVIOUS
<1>1. FailureInv'
  <2>1. CASE ParseThrows
    <3>1. Known(Top.params)
      BY <2>1, AtStepFacts DEF ParseThrows
    <3> QED
      BY <2>1, <3>1 DEF ParseThrows, Throw, Known, ParseError, FailureInv
  <2>2. CASE BuildGroupIterationThrows
    BY <2>2 DEF BuildGroupIterationThrows, Throw, FailureInv
  <2> QED
    BY <2>1, <2>2
<1>2. UNCHANGED <<frames, returned, needed, parts, built, reports>>
  BY DEF ParseThrows, BuildGroupIterationThrows, Throw
<1> QED
  BY <1>1, <1>2 DEF BuildInv, StackInv, BuiltInv, PlainReportIsClean

LEMMA NextBuildInv == BuildInv /\ [Next]_vars => BuildInv'
<1> SUFFICES ASSUME BuildInv, [Next]_vars PROVE BuildInv'
  OBVIOUS
<1>1. CASE UNCHANGED vars
  BY <1>1 DEF vars, BuildInv, StackInv, BuiltInv, FailureInv, PlainReportIsClean
<1> QED
  BY <1>1, ThrowsKeepInv, ParseKeepsInv, UpdatersKeepInv, GroupKeepsInv, SystemKeepsInv,
     StartKeepsInv, FinishTwoGridKeepsInv, FinishNDAKeepsInv, OuterKeepsInv, ReportKeepsInv
     DEF Next, Finished

LEMMA BuildInvariant == Spec => []BuildInv
BY InitBuildInv, NextBuildInv, PTL DEF Spec

-----------------------------------------------------------------------------
(***************************************************************************)
(* However many calls the stack has room for, acceleration is one call     *)
(* deep: the call nested for two-grid acceleration would nest one for NDA, *)
(* but throws at its Parse; the one for NDA inherits the wish for two-grid *)
(* acceleration only from a build that has already thrown.                 *)
(***************************************************************************)
NestingIsShallow == Len(frames) <= 2

THEOREM CallsAreNestedOnce == Spec => []NestingIsShallow
<1>1. ASSUME BuildInv PROVE NestingIsShallow
  <2>1. CASE frames = <<>>
    BY <2>1 DEF NestingIsShallow
  <2>2. CASE frames # <<>>
    <3>1. Len(frames) = 1 \/ Len(frames) = 2
      BY <1>1, <2>2, StackCases, ShortStacks DEF BuildInv, StackInv
    <3>2. \A n : n = 1 \/ n = 2 => n <= 2
      OBVIOUS
    <3> QED
      BY <3>1, <3>2 DEF NestingIsShallow
  <2> QED
    BY <2>1, <2>2
<1> QED
  BY <1>1, BuildInvariant, PTL

(***************************************************************************)
(* The updaters of every framework built fit its system, its outer         *)
(* iteration and what it stores.                                           *)
(***************************************************************************)
THEOREM UpdatersFit == Spec => []UpdatersFitSystem
<1>1. ASSUME BuildInv, NEW f \in built
      PROVE  /\ f.outer = "power" => {"fission"} \subseteq f.terms \cap f.updaters
             /\ "boundary" \in f.updaters =>
                  "boundary" \in f.terms /\ f.solutions /\ f.storing
  <2>1. FrameInv(f) /\ f.step = "report"
    BY <1>1 DEF BuildInv, BuiltInv
  <2>2. /\ f.needStorage = NeedsStorage(f.params)
        /\ f.solutions = f.needStorage /\ f.updaters = Updaters(f.params)
        /\ f.params.equation # "none" /\ f.storing = f.needStorage
        /\ f.terms = SystemTerms(f.params.eigen, f.needStorage)
        /\ f.outer = IF f.params.eigen THEN "power" ELSE "fixed source"
    BY <2>1 DEF FrameInv, Steps, Parsed, HasUpdaters, HasGroup, HasSystem
  <2>3. ASSUME f.outer = "power"
        PROVE  "fission" \in f.terms /\ "fission" \in f.updaters
    BY <2>2, <2>3 DEF SystemTerms, Updaters
  <2>4. ASSUME "boundary" \in f.updaters
        PROVE  "boundary" \in f.terms /\ f.solutions /\ f.storing
    <3>1. "boundary" \in Updaters(f.params)
      BY <2>2, <2>4
    <3>2. f.params.equation = "saaf" /\ f.params.reflective
      BY <3>1 DEF Updaters
    <3>3. NeedsStorage(f.params)
      BY <3>2 DEF NeedsStorage
    <3> QED
      BY <2>2, <3>3 DEF SystemTerms
  <2> QED
    BY <2>3, <2>4
<1>2. BuildInv => UpdatersFitSystem
  BY <1>1 DEF UpdatersFitSystem
<1> QED
  BY <1>2, BuildInvariant, PTL

(***************************************************************************)
(* No build ends in the failed casts for two-grid acceleration or in a     *)
(* missing dependency, and every framework fills its fixed terms in every  *)
(* solve.                                                                  *)
(***************************************************************************)
THEOREM NestedFit == Spec => []NestedFrameworksFit
<1>1. BuildInv => NestedFrameworksFit
  BY DEF BuildInv, BuiltInv, FailureInv, NestedFrameworksFit, FrameInv,
         HasGroup, HasUpdaters, Parsed, Steps
<1> QED
  BY <1>1, BuildInvariant, PTL

(***************************************************************************)
(* A framework that NDA accelerates has its angular fluxes stored.         *)
(***************************************************************************)
THEOREM AcceleratedIsStored == Spec => []AcceleratedSolveIsStored
<1>1. ASSUME BuildInv, NEW f \in built, "nda" \in f.subroutines
      PROVE  f.solutions /\ f.storing
  <2>1. FrameInv(f) /\ f.step = "report"
    BY <1>1 DEF BuildInv, BuiltInv
  <2>2. NeedsStorage(f.params)
    BY <1>1, <2>1 DEF FrameInv, NeedsStorage
  <2> QED
    BY <2>1, <2>2 DEF FrameInv, Steps, Parsed, HasUpdaters, HasGroup
<1>2. BuildInv => AcceleratedSolveIsStored
  BY <1>1 DEF AcceleratedSolveIsStored
<1> QED
  BY <1>2, BuildInvariant, PTL

(***************************************************************************)
(* The validator never complains of a framework that nests no other.       *)
(***************************************************************************)
THEOREM PlainReports == Spec => []PlainReportIsClean
BY BuildInvariant, PTL DEF BuildInv
=============================================================================
