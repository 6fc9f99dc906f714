--------------------------- MODULE InputParameters ---------------------------
(***************************************************************************)
(* The entries of an input file, what the handler makes of them, and the   *)
(* parameters of the framework built from them.                            *)
(*                                                                         *)
(* A file is a record of the entries it sets; the others keep the defaults *)
(* they were declared with.  The value of a list entry is the sequence of  *)
(* its values, each with the text between it and the value before.         *)
(***************************************************************************)
EXTENDS Integers, Sequences, SequencesExt

Listed(value, separator) == [value |-> value, separator |-> separator]

(***************************************************************************)
(* Declarations: the names a selection accepts, and the defaults.          *)
(***************************************************************************)
Boundaries == {"xmin", "xmax", "ymin", "ymax", "zmin", "zmax"}
Options == [transport_model |-> {"none", "diffusion", "saaf"},
            discretization |-> {"none", "cfem", "dfem"},
            eigen_solver |-> {"pi", "none"},
            k_updater |-> {"fission source", "rayleigh quotient"},
            in_group_solver |-> {"si", "none"},
            linear_solver |-> {"gmres", "none"},
            angular_quad |-> {"level_symmetric_gaussian", "gauss_legendre", "none"}]

BasicDefaults ==
  [do_dft |-> FALSE, discretization |-> "cfem", fe_degree |-> 1,
   have_reflective |-> FALSE, n_cells |-> <<>>, n_groups |-> 1, reflective |-> <<>>,
   dimension |-> 2, spatial_max |-> <<>>, transport_model |-> "none"]
MeshDefaults == [refinements |-> 0]
MaterialDefaults == [n_materials |-> 1, material_map |-> "", material_files |-> <<>>]
AccelerationDefaults == [two_grid |-> FALSE, nda |-> FALSE]
SolverDefaults == [eigen_solver |-> "pi", k_updater |-> "fission source",
                   in_group_solver |-> "si", linear_solver |-> "gmres"]
AngularDefaults == [angular_quad |-> "none", angular_order |-> 4]
Declared == <<BasicDefaults, MeshDefaults, MaterialDefaults, AccelerationDefaults,
              SolverDefaults, AngularDefaults>>
Defaults ==
  [entry \in UNION {DOMAIN Declared[i] : i \in DOMAIN Declared} |->
     LET declaration == CHOOSE i \in DOMAIN Declared : entry \in DOMAIN Declared[i]
     IN  Declared[declaration][entry]]
Entries(file) ==
  [entry \in DOMAIN Defaults |-> IF entry \in DOMAIN file THEN file[entry] ELSE Defaults[entry]]

(***************************************************************************)
(* What the parameter handler of deal.II refuses when it reads the file: a *)
(* value its pattern does not match.  A list may be separated by a comma   *)
(* with or without blanks around it.                                       *)
(***************************************************************************)
SelectionsMatch(entries) ==
  \A entry \in DOMAIN Options : entries[entry] \in Options[entry]
IntegersMatch(entries) ==
  /\ entries.n_groups >= 1 /\ entries.fe_degree >= 1 /\ entries.dimension \in 1..3
  /\ entries.refinements >= 0 /\ entries.n_materials >= 0
ListsMatch(entries) ==
  /\ \A i \in DOMAIN entries.reflective : entries.reflective[i].value \in Boundaries
  /\ Len(entries.n_cells) <= 3 /\ Len(entries.spatial_max) <= 3
  /\ \A i \in DOMAIN entries.n_cells : entries.n_cells[i].value >= 0
PatternsMatch(entries) ==
  SelectionsMatch(entries) /\ IntegersMatch(entries) /\ ListsMatch(entries)

(***************************************************************************)
(* The handler's own reading of list entries.                              *)
(***************************************************************************)
\* Numbers: one blank or one comma is skipped after a number, then blanks; a
\* comma that is still there ends the list.
ReadUpTo(list) == LET stops == {i \in DOMAIN list : list[i].separator = " ,"}
                  IN  IF stops = {} THEN Len(list) ELSE Min(stops) - 1
ParseDealiiList(list) == [i \in 1..ReadUpTo(list) |-> list[i].value]
ParseDealiiIntList(list) == ParseDealiiList(list)

\* Names: words are split at blanks and only then lose their commas, so that a
\* comma without a blank before or after joins two names into an unknown one.
JoinedToNext(list, i) == i + 1 \in DOMAIN list /\ list[i + 1].separator = ","
StandsAlone(list, i) == list[i].separator # "," /\ ~JoinedToNext(list, i)
ParseDealiiMultiple(list, names) ==
  [name \in names |-> \E i \in DOMAIN list : list[i].value = name /\ StandsAlone(list, i)]

\* Pairs of a material id and a file: the last pair of an id counts.
ParseMap(pairs) == FoldLeft(LAMBDA map, pair : (pair[1] :> pair[2]) @@ map, <<>>, pairs)

Parse(entries) ==
  [entries EXCEPT !.n_cells = ParseDealiiIntList(@),
                  !.spatial_max = ParseDealiiList(@),
                  !.reflective = ParseDealiiMultiple(@, Boundaries),
                  !.material_files = ParseMap(@)]

(***************************************************************************)
(* ToFrameworkParameters, without the cross sections.  The handler's flag  *)
(* for having reflective boundaries is not used.                           *)
(***************************************************************************)
BoundaryOf == [xmin |-> "XMin", xmax |-> "XMax", ymin |-> "YMin",
               ymax |-> "YMax", zmin |-> "ZMin", zmax |-> "ZMax"]
IsEigenvalueSolve(parameters) == parameters.eigen_solver # "none"
ToFrameworkParameters(parameters) ==
  [neutron_energy_groups |-> parameters.n_groups,
   equation_type |-> parameters.transport_model,
   k_effective_updater |-> parameters.k_updater,
   group_solver_type |-> parameters.in_group_solver,
   angular_quadrature_type |-> parameters.angular_quad,
   angular_quadrature_order |-> parameters.angular_order,
   domain_size |-> parameters.spatial_max,
   number_of_cells |-> parameters.n_cells,
   uniform_refinements |-> parameters.refinements,
   polynomial_degree |-> parameters.fe_degree,
   use_nda_ |-> parameters.nda,
   use_two_grid_ |-> parameters.two_grid,
   is_eigenvalue |-> IsEigenvalueSolve(parameters),
   reflective_boundaries |->
     {BoundaryOf[name] : name \in {b \in Boundaries : parameters.reflective[b]}}]
=============================================================================
