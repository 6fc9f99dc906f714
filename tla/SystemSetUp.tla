----------------------------- MODULE SystemSetUp -----------------------------
(***************************************************************************)
(* The system of equations and the solutions: the terms with their storage,*)
(* the moments, the group solution and the angular solutions, as the system *)
(* helper sets them up.  A piece of storage is known by the slot it was    *)
(* made for, a part and an index: every call of the domain makes a new one. *)
(***************************************************************************)
EXTENDS Integers, Sequences, SequencesExt

Index(groups, angles) == (0..groups - 1) \X (0..angles - 1)

(***************************************************************************)
(* Terms.  A term knows which of its parts are variable; other parts are   *)
(* refused, and a part nobody set is a null pointer.                       *)
(***************************************************************************)
NullPtr == <<>>
Term(variable_terms) ==
  [fixed |-> <<>>, variable |-> [term \in variable_terms |-> <<>>]]
\* The setters, for all indices of a function from indices to storage, and for
\* all variable terms; what was stored under other indices stays.
Stored(storage, slots) ==
  [index \in DOMAIN storage \cup DOMAIN slots |->
     IF index \in DOMAIN storage THEN storage[index] ELSE slots[index]]
SetFixedTermPtr(term, storage) == [term EXCEPT !.fixed = Stored(storage, @)]
GetFixedTermPtr(term, index) ==
  IF index \in DOMAIN term.fixed THEN term.fixed[index] ELSE NullPtr
IsVariable(term, name) == name \in DOMAIN term.variable
SetVariableTermPtr(term, storage) ==
  [term EXCEPT !.variable = [name \in DOMAIN @ |-> Stored(storage[name], @[name])]]
GetVariableTermPtr(term, name, index) ==
  CASE ~IsVariable(term, name) -> "throws"
    [] IsVariable(term, name) /\ index \in DOMAIN term.variable[name] ->
         term.variable[name][index]
    [] OTHER -> NullPtr

(***************************************************************************)
(* InitializeSystem.                                                       *)
(***************************************************************************)
Null == [none |-> TRUE]
NewSystem == [rhs |-> Null, lhs |-> Null, current_moments |-> <<>>,
              previous_moments |-> <<>>, k_effective |-> 0,
              total_groups |-> 0, total_angles |-> 0]
IsInitialized(system) ==
  \/ system.rhs # Null \/ system.lhs # Null
  \/ system.current_moments # <<>> \/ system.previous_moments # <<>>
VariableLinearTerms(is_eigenvalue, is_boundary_variable) ==
  {"ScatteringSource"}
    \cup (IF is_eigenvalue THEN {"FissionSource"} ELSE {})
    \cup (IF is_boundary_variable THEN {"ReflectiveBoundaryCondition"} ELSE {})
\* Moments by group, degree and order.
SphericalHarmonic(groups, max_l) ==
  [key \in {k \in (0..groups - 1) \X (0..max_l) \X (-max_l..max_l) :
              k[3] \in -k[2]..k[2]} |-> "unsized"]
InitializeSystem(system, groups, angles, is_eigenvalue, is_boundary_variable) ==
  [system EXCEPT !.total_groups = groups, !.total_angles = angles,
                 !.k_effective = IF is_eigenvalue THEN 1 ELSE @,
                 !.rhs = Term(VariableLinearTerms(is_eigenvalue, is_boundary_variable)),
                 !.lhs = Term({}),
                 !.current_moments = SphericalHarmonic(groups, 0),
                 !.previous_moments = SphericalHarmonic(groups, 0)]

(***************************************************************************)
(* SetUpSystemTerms: for every group and angle a matrix, a vector and one  *)
(* vector per variable term, each of its own.                              *)
(***************************************************************************)
\* Mutant: one vector per group and angle, made before the loop over the terms.
OnePerIndex(slot) == <<"any", slot[2]>>
\* MakeSystemMatrix and MakeSystemVector: new storage for every slot.
MakeStorage(slot) == slot
SetUpSystemTerms(system) ==
  LET made(part) == [i \in Index(system.total_groups, system.total_angles) |->
                       MakeStorage(<<part, i>>)]
      variable == [name \in DOMAIN system.rhs.variable |-> made(name)]
  IN  [system EXCEPT !.lhs = SetFixedTermPtr(@, made("lhs")),
                     !.rhs = SetVariableTermPtr(SetFixedTermPtr(@, made("rhs")), variable)]

\* All moments, current and previous, get the size of the solution and ones.
SetUpSystemMoments(system, size) ==
  LET ones(moments) == [key \in DOMAIN moments |-> [size |-> size, value |-> 1]]
  IN  [system EXCEPT !.current_moments = ones(@), !.previous_moments = ones(@)]

(***************************************************************************)
(* Solutions.  The solution of a group has one vector per angle; the stored *)
(* angular solutions, which reflective boundaries and NDA read, one per    *)
(* group and angle, empty at first.                                        *)
(***************************************************************************)
MPIGroupAngularSolution(angles) ==
  [total_angles |-> angles, solutions |-> [a \in 0..angles - 1 |-> "unsized"]]
AngularSolutionError(solution) ==
  Cardinality(DOMAIN solution.solutions) # solution.total_angles
SetUpMPIAngularSolution(solution, value) ==
  [solution EXCEPT !.solutions = [a \in DOMAIN @ |-> value]]
SetUpEnergyGroupToAngularSolutionPtrMap(groups, angles) ==
  [index \in Index(groups, angles) |-> "empty"]
=============================================================================
