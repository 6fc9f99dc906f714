--------------------------- MODULE FrameworkBuild ---------------------------
(***************************************************************************)
(* framework::FrameworkHelper::BuildFramework: which parts a framework is  *)
(* assembled from, given the parameters of the problem.  For acceleration  *)
(* the function calls itself in its middle, with parameters derived from   *)
(* its own, and all calls share one builder and its FrameworkValidator.    *)
(* The stack of these calls is the state; a part is named, not built.      *)
(***************************************************************************)
EXTENDS Naturals, Sequences, SequencesExt

CONSTANT NestMax    \* bound: calls on the stack; the code has none

ASSUME NestAssumption == NestMax \in Nat \ {0}

VARIABLES
  frames,     \* the active calls, the innermost last
  returned,   \* the framework the last nested call returned: none or one
  needed,     \* FrameworkValidator::needed_parts_
  parts,      \* FrameworkValidator::parts_
  failure,    \* what() of the exception that ended the build, or "none"
  built,      \* history: the frameworks returned so far
  reports     \* history: the validation reports exposed so far

vars == <<frames, returned, needed, parts, failure, built, reports>>

Parts     == {"scattering", "fission", "storage"}
Equations == {"none", "diffusion", "saaf", "drift diffusion", "two-grid diffusion"}

\* FrameworkParameters, as far as the build branches on them.
Parameters ==
  [ name : {"main", "Two-grid diffusion", "NDA Drift-Diffusion"},
    equation : Equations, groups : 1 .. 2, dataGroups : 1 .. 2,
    eigen : BOOLEAN, reflective : BOOLEAN, nda : BOOLEAN, twoGrid : BOOLEAN,
    ndaData : BOOLEAN, oneGroupData : BOOLEAN ]

\* ToFrameworkParameters: what an input file can ask for.  The cross sections
\* are read with the number of groups of the problem.
InputParameters ==
  { p \in Parameters :
      /\ p.name = "main" /\ p.equation \in {"none", "diffusion", "saaf"}
      /\ p.dataGroups = p.groups /\ ~p.ndaData /\ ~p.oneGroupData }

\* Bug: the parameters of the nested framework keep the eigensolver.
TwoGridParametersKeepEigen(p) ==
  [ p EXCEPT !.name = "Two-grid diffusion", !.equation = "two-grid diffusion",
             !.groups = 1, !.dataGroups = 1, !.twoGrid = FALSE, !.oneGroupData = TRUE ]

\* The parameters of the framework nested for two-grid acceleration.
TwoGridParameters(p) ==
  [ p EXCEPT !.name = "Two-grid diffusion", !.equation = "two-grid diffusion",
             !.groups = 1, !.dataGroups = 1, !.eigen = FALSE, !.twoGrid = FALSE,
             !.oneGroupData = TRUE ]

\* The parameters of the framework nested for NDA: the equation type is kept.
NDAParameters(p) ==
  [ p EXCEPT !.name = "NDA Drift-Diffusion", !.nda = FALSE, !.ndaData = TRUE ]

-----------------------------------------------------------------------------
\* Bug: reflective boundaries are not thought of.
NeedsStorageForNDA(p) == p.nda

\* Bug: NDA is not thought of.
NeedsStorageForBoundaries(p) == p.reflective /\ p.equation = "saaf"

\* Parse: are the angular fluxes of a solve needed after it?
NeedsStorage(p) == p.nda \/ (p.reflective /\ p.equation = "saaf")

\* Parse: the parts that the parameters call for.
NeededParts(p) ==
  {"scattering"} \cup (IF p.eigen THEN {"fission"} ELSE {})
                 \cup (IF NeedsStorage(p) THEN {"storage"} ELSE {})

ParseError(p) ==
  IF p.equation = "drift diffusion" /\ ~p.ndaData THEN "NDA dependency missing"
  ELSE IF p.nda /\ p.equation # "saaf" THEN "NDA requires angular solve"
  ELSE "none"

\* BuildUpdaterPointers: the overload the equation and boundaries select.
Updaters(p) ==
  IF p.equation = "none" THEN {}
  ELSE {"fixed", "scattering", "fission"}
       \cup (IF p.equation = "saaf" /\ p.reflective THEN {"boundary"} ELSE {})

\* SystemHelper::InitializeSystem: the variable terms of the right hand side.
SystemTerms(eigen, boundaryTerm) ==
  {"scattering"} \cup (IF eigen THEN {"fission"} ELSE {})
                 \cup (IF boundaryTerm THEN {"boundary"} ELSE {})

-----------------------------------------------------------------------------
NewFrame(p) ==
  [ params |-> p, step |-> "parse", needStorage |-> FALSE, solutions |-> FALSE,
    updaters |-> {}, storing |-> FALSE, terms |-> {}, subroutines |-> {},
    initializer |-> "none", outer |-> "none", nested |-> FALSE ]

Top == Last(frames)

AtStep(s) == failure = "none" /\ frames # <<>> /\ Top.step = s

\* The innermost call goes on as frame f.
Become(f) == frames' = Append(Front(frames), f)

Throw(what) ==
  /\ failure' = what
  /\ UNCHANGED <<frames, returned, needed, parts, built, reports>>

Call(p, step) ==
  /\ Len(frames) < NestMax
  /\ frames' = Append(Append(Front(frames), [Top EXCEPT !.step = step, !.nested = TRUE]),
                      NewFrame(p))
  /\ UNCHANGED <<returned, needed, parts, failure, built, reports>>

Skip(step) ==
  /\ Become([Top EXCEPT !.step = step])
  /\ UNCHANGED <<returned, needed, parts, failure, built, reports>>

ParseThrows ==
  /\ AtStep("parse")
  /\ ParseError(Top.params) # "none"
  /\ Throw(ParseError(Top.params))

\* The validator's needed parts become those of this call.
Parse ==
  /\ AtStep("parse")
  /\ ParseError(Top.params) = "none"
  /\ needed' = NeededParts(Top.params)
  /\ Become([Top EXCEPT !.step = "updaters", !.needStorage = "storage" \in needed'])
  /\ UNCHANGED <<returned, parts, failure, built, reports>>

\* The map of angular solutions is filled if needed; then the updaters.
BuildUpdaters ==
  /\ AtStep("updaters")
  /\ Top.params.equation = "two-grid diffusion" => Top.params.oneGroupData
  /\ Become([Top EXCEPT !.step = "group", !.solutions = Top.needStorage,
                        !.updaters = Updaters(Top.params)])
  /\ UNCHANGED <<returned, needed, parts, failure, built, reports>>

\* Unless it is told otherwise, an initializer fills the fixed terms once.
BuildInitializer(implementation) ==
  IF implementation = "kInitializeFixedTermsAndResetMoments" THEN "reset moments" ELSE "once"

\* The initializer and the group iteration are built from the updaters.
BuildGroupIteration ==
  /\ AtStep("group")
  /\ "fixed" \in Top.updaters
  /\ parts' = parts \cup {"scattering"} \cup (IF Top.needStorage THEN {"storage"} ELSE {})
  /\ Become([Top EXCEPT !.step = "system", !.storing = Top.needStorage,
                        !.initializer = BuildInitializer("kInitializeFixedTermsAndResetMoments")])
  /\ UNCHANGED <<returned, needed, failure, built, reports>>

\* InitializeFixedTerms was passed no updater: there is no equation.
BuildGroupIterationThrows ==
  /\ AtStep("group")
  /\ "fixed" \notin Top.updaters
  /\ Throw("fixed updater ptr is nullptr")

BuildSystem ==
  /\ AtStep("system")
  /\ Become([Top EXCEPT !.step = "two grid",
                        !.terms = SystemTerms(Top.params.eigen, Top.needStorage)])
  /\ UNCHANGED <<returned, needed, parts, failure, built, reports>>

\* A nested framework for two-grid acceleration, or none.
StartTwoGrid ==
  /\ AtStep("two grid")
  /\ IF Top.params.twoGrid
     THEN Call(TwoGridParameters(Top.params), "two grid built")
     ELSE Skip("nda")

\* The casts to the parts of the nested framework that take the residual.
TakesResidual(f) == f.outer = "fixed source" /\ f.params.equation # "saaf"

FinishTwoGrid ==
  /\ AtStep("two grid built")
  /\ IF \A f \in returned : TakesResidual(f)
     THEN /\ Become([Top EXCEPT !.step = "nda", !.subroutines = @ \cup {"two grid"}])
          /\ returned' = {}
          /\ UNCHANGED <<needed, parts, failure, built, reports>>
     ELSE Throw("Error building Two-grid")

\* A nested framework for NDA, or none.
StartNDA ==
  /\ AtStep("nda")
  /\ IF Top.params.nda
     THEN Call(NDAParameters(Top.params), "nda built")
     ELSE Skip("outer")

FinishNDA ==
  /\ AtStep("nda built")
  /\ Become([Top EXCEPT !.step = "outer", !.subroutines = @ \cup {"nda"}])
  /\ returned' = {}
  /\ UNCHANGED <<needed, parts, failure, built, reports>>

\* Bug: the part is not reported to the validator.
BuildOuterSilently ==
  /\ AtStep("outer")
  /\ Become([Top EXCEPT !.step = "report",
                        !.outer = IF Top.params.eigen THEN "power" ELSE "fixed source"])
  /\ UNCHANGED <<returned, needed, parts, failure, built, reports>>

BuildOuter ==
  /\ AtStep("outer")
  /\ parts' = IF Top.params.eigen THEN parts \cup {"fission"} ELSE parts
  /\ Become([Top EXCEPT !.step = "report",
                        !.outer = IF Top.params.eigen THEN "power" ELSE "fixed source"])
  /\ UNCHANGED <<returned, needed, failure, built, reports>>

\* ReportValidation compares the validator's parts; BuildFramework returns.
Report ==
  /\ AtStep("report")
  /\ reports' = reports \cup {[ frame |-> Top, unneeded |-> parts \ needed,
                                missing |-> needed \ parts ]}
  /\ built' = built \cup {Top}
  /\ returned' = {Top}
  /\ frames' = Front(frames)
  /\ UNCHANGED <<needed, parts, failure>>

\* The call from main has returned or thrown.
Finished ==
  /\ frames = <<>> \/ failure # "none"
  /\ UNCHANGED vars

Init ==
  /\ frames \in {<<NewFrame(p)>> : p \in InputParameters}
  /\ returned = {} /\ needed = {} /\ parts = {}
  /\ failure = "none"
  /\ built = {} /\ reports = {}

Next ==
  \/ ParseThrows
  \/ Parse
  \/ BuildUpdaters
  \/ BuildGroupIteration
  \/ BuildGroupIterationThrows
  \/ BuildSystem
  \/ StartTwoGrid
  \/ FinishTwoGrid
  \/ StartNDA
  \/ FinishNDA
  \/ BuildOuter
  \/ Report
  \/ Finished

Spec == Init /\ [][Next]_vars

-----------------------------------------------------------------------------
(***************************************************************************)
(* A framework never updates a term its system does not have, and reflects *)
(* angular fluxes only if it keeps them: the conditions under which        *)
(* updaters, system, storage and outer iteration are chosen, in four       *)
(* places, agree.                                                          *)
(***************************************************************************)
UpdatersFitSystem ==
  \A f \in built :
    /\ f.outer = "power" => {"fission"} \subseteq f.terms \cap f.updaters
    /\ "boundary" \in f.updaters => "boundary" \in f.terms /\ f.solutions /\ f.storing

(***************************************************************************)
(* The framework nested for two-grid acceleration always passes the casts  *)
(* that hand it the residual, no nested call lacks what it depends on, and *)
(* a framework that is solved again and again, with other data behind its  *)
(* fixed terms, computes them in every solve.                              *)
(***************************************************************************)
NestedFrameworksFit ==
  /\ failure \notin {"Error building Two-grid", "NDA dependency missing"}
  /\ \A f \in built : f.params.name # "main" => f.initializer = "reset moments"

(***************************************************************************)
(* The framework that NDA accelerates stores its angular fluxes: the map   *)
(* it hands to the nested framework has entries, and each sweep fills them.*)
(***************************************************************************)
AcceleratedSolveIsStored ==
  \A f \in built : "nda" \in f.subroutines => f.solutions /\ f.storing

(***************************************************************************)
(* A framework that nests no other is reported without complaint: whatever *)
(* Parse finds needed is announced by AddPart where it is built, and       *)
(* nothing else is.                                                        *)
(***************************************************************************)
PlainReportIsClean ==
  \A r \in reports :
    ~r.frame.nested /\ r.frame.params.name = "main" =>
      r.unneeded = {} /\ r.missing = {}

(***************************************************************************)
(* The framework nested as "NDA Drift-Diffusion", which is given the data  *)
(* that only the drift-diffusion formulation reads, solves that equation.  *)
(***************************************************************************)
NDASolvesDriftDiffusion ==
  \A f \in built :
    f.params.name = "NDA Drift-Diffusion" => f.params.equation = "drift diffusion"
=============================================================================
