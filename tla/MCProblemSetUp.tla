--------------------------- MODULE MCProblemSetUp ---------------------------
(***************************************************************************)
(* Input files for module ProblemSetUp: a few problems that are set up to  *)
(* the end, in one, two and three dimensions, and variations of them, most *)
(* with one defect.                                                        *)
(***************************************************************************)
EXTENDS ProblemSetUp

Vec(id, values) == Property(id, values)
Energies == Vec("ENERGY_GROUPS", <<9, 5, 1>>)
Scattering == Property("SIGMA_S", <<1, 0, 2, 1>>)
Fission == <<Vec("NU_SIG_F", <<1, 3>>), Vec("CHI", <<2, 1>>)>>
Fuel == Material(2, TRUE, <<Energies, Vec("SIGMA_T", <<4, 7>>)>> \o Fission, <<Scattering>>)
Water == Material(2, FALSE, <<Energies, Vec("SIGMA_T", <<3, 2>>), Vec("Q", <<1, 0>>)>>,
                  <<Scattering>>)
WithVector(id, values) == [Water EXCEPT !.vectors = <<Energies, Vec(id, values)>>]
Written ==
  [fuel |-> Fuel, water |-> Water,
   twice |-> [Water EXCEPT !.vectors = Append(@, Energies)],
   without |-> WithVector("Q", <<1, 1>>),
   short |-> WithVector("SIGMA_T", <<1>>),
   shortSource |-> [Water EXCEPT !.vectors = [@ EXCEPT ![3] = Vec("Q", <<1>>)]],
   negative |-> WithVector("SIGMA_T", <<1, -1>>),
   unsorted |-> [Water EXCEPT !.vectors = [@ EXCEPT ![1] = Vec("ENERGY_GROUPS", <<5, 9, 1>>)]],
   otherEnergies |-> [Water EXCEPT !.vectors = [@ EXCEPT ![1] = Vec("ENERGY_GROUPS", <<8, 5, 1>>)]],
   flatChi |-> [Fuel EXCEPT !.vectors = [@ EXCEPT ![4] = Vec("CHI", <<2, 2>>)]],
   oneGroup |-> Material(1, FALSE, <<Vec("ENERGY_GROUPS", <<5, 1>>), Vec("SIGMA_T", <<3>>)>>,
                         <<Property("SIGMA_S", <<1>>)>>)]
MCMaterialFiles ==
  [name \in DOMAIN Written |-> File("ok", Written[name])]
    @@ [name \in {"missing", "unreadable"} |-> File(name, Water)]
Defects == DOMAIN MCMaterialFiles \ {"fuel", "water"}

MCMapFiles ==
  [line |-> << << <<1, 2>> >> >>,
   plane |-> << << <<1, 2, 1>>, <<2, 2, 1>> >> >>,
   cube |-> << << <<1, 1>>, <<1, 2>> >>, << <<2, 1>>, <<2, 2>> >> >>,
   ragged |-> << << <<1, 2>>, <<1>> >> >>,
   empty |-> << << <<>> >> >>]

Comma(values) == [i \in DOMAIN values |-> Listed(values[i], IF i = 1 THEN "" ELSE ", ")]
BlankComma(values) == [i \in DOMAIN values |-> Listed(values[i], IF i = 1 THEN "" ELSE " ,")]
Files(second) == << <<1, "fuel">>, <<2, second>> >>

Line == [dimension |-> 1, n_cells |-> Comma(<<3>>), spatial_max |-> Comma(<<2>>),
         n_groups |-> 2, n_materials |-> 2, material_map |-> "line",
         material_files |-> Files("water"), transport_model |-> "saaf",
         angular_quad |-> "gauss_legendre", angular_order |-> 2]
Plane == [Line EXCEPT !.dimension = 2, !.n_cells = Comma(<<2, 3>>),
                      !.spatial_max = Comma(<<1, -1>>), !.material_map = "plane",
                      !.transport_model = "diffusion"]
Cube == [Line EXCEPT !.dimension = 3, !.n_cells = Comma(<<2, 1, 2>>),
                     !.spatial_max = Comma(<<1, 1, 1>>), !.material_map = "cube",
                     !.angular_quad = "level_symmetric_gaussian"]

MCInputFiles ==
  {Line, Plane, Cube}
  \cup {[Line EXCEPT !.angular_order = 1] @@ [nda |-> TRUE], [Plane EXCEPT !.material_map = "ragged"],
        [Line EXCEPT !.material_map = "plane"], [Plane EXCEPT !.material_map = "cube"],
        [Plane EXCEPT !.n_cells = Comma(<<3, 2>>)]
          @@ [refinements |-> 1, eigen_solver |-> "none", reflective |-> Comma(<<"ymin">>)],
        Line @@ [two_grid |-> TRUE, reflective |-> Comma(<<"xmin">>)],
        [Cube EXCEPT !.n_cells = Comma(<<3, 1, 2>>)]
          @@ [refinements |-> 1, reflective |-> Comma(<<"xmin", "zmax", "ymax">>)],
        [Cube EXCEPT !.angular_order = 4] @@ [reflective |-> Comma(<<"ymin", "ymax">>)]}
  \cup {[Line EXCEPT !.material_files = Files(defect)] : defect \in Defects}
  \cup {[eigen_solver |-> "none"] @@ [Line EXCEPT !.material_files = Files("shortSource")],
        [Line EXCEPT !.material_files = << <<1, "water">>, <<2, "water">> >>],
        [Line EXCEPT !.material_files = << <<1, "fuel">>, <<1, "water">> >>],
        [Line EXCEPT !.material_map = "nowhere"], [Line EXCEPT !.material_map = "empty"],
        [Line EXCEPT !.n_groups = 3], [Line EXCEPT !.n_groups = 0],
        [Line EXCEPT !.angular_order = 0], [Cube EXCEPT !.angular_order = 3],
        [Plane EXCEPT !.transport_model = "saaf"],
        [Plane EXCEPT !.n_cells = BlankComma(<<2, 3>>)],
        [Plane EXCEPT !.spatial_max = Comma(<<1, 0>>)],
        [Plane EXCEPT !.n_cells = Comma(<<2, 0>>)], Plane @@ [nda |-> TRUE],
        Line @@ [linear_solver |-> "cg"]}
MCScalings == {<<1, 1>>, <<1, 2>>, <<3, 1>>}
=============================================================================
