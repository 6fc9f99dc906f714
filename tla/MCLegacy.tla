------------------------------- MODULE MCLegacy -------------------------------
(***************************************************************************)
(* Input files of the legacy program, and what a run of it should show.    *)
(*                                                                         *)
(* On a line: two cells, refined once or not, of a fissile material and    *)
(* another; every equation, both discretizations, one group or two, all    *)
(* solvers.  A direct solve divides by the diagonal, modulo Top + 1, so    *)
(* that solutions settle, vanish and alternate.                            *)
(* In a plane and in space: boxes and pins, of rods of both kinds, with    *)
(* lengths in which the points of the rods are whole numbers.              *)
(***************************************************************************)
EXTENDS LegacyDriver

Top == 3
MCUnit == 2
MCAnswer(matrix, rhs) ==
  [d \in DOMAIN rhs |->
     ((3 * rhs[d]) \div Max({1, matrix[<<d, d>>]})) % (Top + 1)]
MCEstimateKeff(k, f, f0) == IF f = f0 THEN k ELSE Min({MCUnit, (k * f) \div f0})

\* Materials 0 and 1; the fast group scatters into the other.
Groups2(a, b) == 0 :> a @@ 1 :> b
CrossSections(sigs0, sigs1, fission, n_group) ==
  LET cut(x) == [g \in 0..n_group - 1 |-> x[g]]
      square(x) == [g \in 0..n_group - 1 |-> cut(x[g])]
  IN  [sigt |-> Groups2(cut(Groups2(3, 2)), cut(Groups2(2, 3))),
       inv_sigt |-> Groups2(cut(Groups2(1, 2)), cut(Groups2(2, 1))),
       diffusion_coef |-> Groups2(cut(Groups2(1, 1)), cut(Groups2(2, 1))),
       sigs |-> Groups2(square(Groups2(Groups2(sigs0, 1), Groups2(0, 1))),
                        square(Groups2(Groups2(sigs1, 1), Groups2(0, 2)))),
       q |-> Groups2(cut(Groups2(1, 0)), cut(Groups2(0, 0))),
       fissile |-> Groups2(fission > 0, FALSE),
       nu_sigf |-> Groups2(cut(Groups2(fission, 1)), cut(Groups2(0, 0))),
       fiss_transfer |-> Groups2(square(Groups2(Groups2(fission, 0), Groups2(1, 0))),
                                 square(Groups2(Groups2(0, 0), Groups2(0, 0))))]

NoFile == [opens |-> FALSE, rows |-> <<>>]
File(rows) == [opens |-> TRUE, rows |-> rows]
Box(max_values, n_cells, ids, reflective, refinements) ==
  [generated |-> TRUE, pin_resolved |-> FALSE, rod_type |-> "", rod_radius |-> 0,
   max_values |-> max_values, n_cells |-> n_cells, id_file |-> ids, fuel_file |-> NoFile,
   have_reflective |-> reflective # {}, reflective_names |-> reflective,
   refinements |-> refinements]
Pins(max_values, n_cells, ids, fuel, rod_type) ==
  [generated |-> TRUE, pin_resolved |-> TRUE, rod_type |-> rod_type, rod_radius |-> 35,
   max_values |-> max_values, n_cells |-> n_cells, id_file |-> ids, fuel_file |-> fuel,
   have_reflective |-> TRUE, reflective_names |-> {"xmin", "ymax"}, refinements |-> 1]

Angles(model, order, n_group, reflective) ==
  [model |-> model, order |-> order, n_group |-> n_group, have_reflective |-> reflective]
Problem(dim, grid, model, order, n_group, xs) ==
  [dim |-> dim, mesh |-> grid, model |-> model, n_group |-> n_group, xs |-> xs,
   angles |-> Angles(model, order, n_group, grid.have_reflective),
   discretization |-> "cfem", nda_discretization |-> "cfem", do_nda |-> FALSE,
   eigen |-> TRUE, linear_solver |-> "direct", g_thermal |-> 0]

Lines == {Box(<<2>>, <<2>>, File(<<ids>>), reflective, refinements) :
            ids \in {<<0, 1>>, <<1, 1>>}, reflective \in {{}, {"xmin"}}, refinements \in 0..1}
OneGroup ==
  {[Problem(1, grid, model, 2, 1, CrossSections(sigs, 1, fission, 1))
     EXCEPT !.discretization = discretization, !.eigen = eigen] :
       grid \in Lines, model \in {"diffusion", "ep", "saaf"}, sigs \in {0, 2},
       fission \in {0, 3, 9}, discretization \in {"cfem", "dfem"}, eigen \in BOOLEAN}
Krylov ==
  {[Problem(1, Box(<<2>>, <<2>>, File(<< <<0, 1>> >>), {}, 0), "saaf", 2, 1,
            CrossSections(1, 1, 3, 1)) EXCEPT !.linear_solver = solver, !.eigen = eigen] :
       solver \in {"cg", "bicgstab", "gmres"}, eigen \in BOOLEAN}
TwoGroups ==
  {[Problem(1, Box(<<2>>, <<2>>, File(<< <<0, 1>> >>), {}, 0), model, 2, 2,
            CrossSections(1, 1, 3, 2)) EXCEPT !.g_thermal = thermal, !.eigen = eigen] :
       model \in {"diffusion", "saaf"}, thermal \in {0, 1, 2}, eigen \in BOOLEAN}
NDA ==
  {[Problem(1, Box(<<2>>, <<2>>, File(<< <<0, 1>> >>), {}, 0), "saaf", 2, 1,
            CrossSections(1, 1, 3, 1)) EXCEPT !.do_nda = TRUE, !.nda_discretization = nda] :
       nda \in {"cfem", "cmfd"}}

\* The iterations of these are not followed.
Rows2 == File(<< <<1, 2>>, <<3, 1>> >>)
Fuel2 == File(<< <<5, -1>>, <<6, 5>> >>)
Rows3 == File(<< <<1, 2>>, <<3, 1>> >>)
Fuel3 == File(<< <<5, -1>>, <<-1, -1>> >>)
Plane(grid) == {Problem(2, grid, model, order, 1, <<>>) :
                  model \in {"diffusion", "ep", "saaf"}, order \in {2, 3, 4}}
Space(grid) == {Problem(3, grid, model, 2, 1, <<>>) : model \in {"ep", "saaf"}}
Wide ==
  UNION {Plane(Pins(<<160, 160>>, <<2, 2>>, Rows2, Fuel2, rod)) : rod \in {"simple", "composite"}}
    \cup UNION {Space(Pins(<<160, 80, 20>>, <<2, 1, 2>>, Rows3, Fuel3, rod)) :
                  rod \in {"simple", "composite"}}
    \cup Plane(Box(<<4, 6>>, <<2, 2>>, Rows2, {"xmax", "ymin"}, 1))
    \cup Space(Box(<<4, 6, 2>>, <<2, 1, 2>>, Rows3, {"zmin"}, 0))
    \cup {Problem(2, Box(<<4, 6>>, <<2, 2>>, Rows2, {}, 0), "saaf", 2, 2, <<>>)}
    \cup {Problem(2, grid, "saaf", 2, 1, <<>>) : grid \in
            {Box(<<4, 6>>, <<2>>, Rows2, {}, 0), Box(<<4>>, <<2, 2>>, Rows2, {}, 0),
             Box(<<4, 6>>, <<2, 2>>, File(<< <<1, 2>> >>), {}, 0),
             Box(<<4, 6>>, <<2, 2>>, File(<< <<1>>, <<2>> >>), {}, 0),
             Box(<<4, 6>>, <<2, 2>>, Rows2, {"zmin"}, 0),
             Box(<<4, 6>>, <<2, 2>>, Rows2, {"left"}, 0),
             Pins(<<160, 160>>, <<2, 2>>, NoFile, NoFile, "simple"),
             Pins(<<160, 160>>, <<2, 2>>, Rows2, NoFile, "simple")}}
    \cup {Problem(1, Pins(<<160>>, <<2>>, Rows2, Fuel2, "simple"), "saaf", 2, 1,
                  CrossSections(1, 1, 3, 1))}

\* A discretization there is no element of, and a material without sections.
Refused ==
  {[Problem(1, Box(<<2>>, <<2>>, File(<< <<0, 1>> >>), {}, 0), "saaf", 2, 1,
            CrossSections(1, 1, 3, 1)) EXCEPT !.discretization = "cmfd"]}
    \cup {[Problem(1, Box(<<2>>, <<2>>, File(<< <<0, 2>> >>), {}, 0), "ep", 2, 1,
                   CrossSections(1, 1, 3, 1)) EXCEPT !.eigen = eigen] : eigen \in BOOLEAN}
MCProblems == Refused \cup OneGroup \cup TwoGroups \cup Krylov \cup NDA \cup Wide

-----------------------------------------------------------------------------
(***************************************************************************)
(* What a run should show.                                                 *)
(***************************************************************************)
Ended == exit = "success" /\ ~problem.do_nda /\ problem.dim = 1
IsNumber(x) == x \notin {NaN, Infinity}

\* A run that ends well has solved its eigenvalue problem: with the moments,
\* the fluxes and the eigenvalue it ends with, another solve of any component
\* returns the flux it has, and the right hand sides and the fission source are
\* those of the eigenvalue.  Three inputs are set apart: a fixed source problem,
\* whose source is never assembled (mg_base.cc:55; FixedSourceIsAssembled), a
\* Krylov solver, which is never called (linear_algebra.cc:17), and the
\* reflected angular fluxes of SAAF, whose convergence nothing compares
\* (source_iteration.cc:28).
LegacyOutputSolves ==
  Ended /\ problem.eigen /\ problem.linear_solver = "direct"
    /\ ~(problem.model = "saaf" /\ HaveReflective)
    /\ (\A g \in DOMAIN moments : IsNumber(moments[g])) /\ IsNumber(keff.now)
  => /\ \A k \in DOMAIN fluxes : fluxes[k] = LinAlgSolve(Equation, k)
     /\ fixed = FixedForms(Equation)
     /\ source.now = FissionSource(Equation, moments)

\* When the linear forms of a group are assembled, the fixed source of a
\* problem without an eigenvalue has been (equation_base.h:112).
FixedSourceIsAssembled ==
  stage = "source" /\ ~problem.eigen => fixed = AssembleFixedLinearForms(Equation, moments)

\* What a run leaves behind is whole: in a plane and in space the master names
\* exactly the pieces that were written, one of every process
\* (bart_driver.cc:287); on a line the master names none (bart_driver.cc:280).
MasterNamesItsPieces ==
  exit = "success" /\ problem.dim > 1 =>
    /\ files.master = DOMAIN files.pieces
    /\ {files.pieces[name].subdomain : name \in files.master} = Processes

\* A direct solver made for symmetric matrices gets a symmetric matrix
\* (linear_algebra.cc:172): so is every equation with its interface terms, but
\* for even parity with a reflective boundary.
SymmetricModeIsRight ==
  \A k \in DOMAIN direct : direct[k] = "symmetric" =>
    \A r, c \in Dofs(Equation) : matrices[k][<<r, c>>] = matrices[k][<<c, r>>]

Meshed == mesh # <<>> /\ "cells" \in DOMAIN mesh
Within(place, v) ==
  \A d \in DOMAIN v : /\ place[d] * mesh.grid.size[d] <= v[d]
                      /\ v[d] <= (place[d] + 1) * mesh.grid.size[d]
Places == {p \in [DOMAIN mesh.grid.n -> 0..1] : \A d \in DOMAIN p : p[d] < mesh.grid.n[d]}
OffAxis(place, v, d) == v[d] - (2 * place[d] + 1) * (mesh.grid.size[d] \div 2)
InCircle(place, v) ==
  OffAxis(place, v, 1)^2 + OffAxis(place, v, 2)^2
    <= (mesh.prm.rod_radius * mesh.prm.rod_radius * 50) \div 49
OnSide(side, v) ==
  v[side \div 2 + 1] = IF side % 2 = 0 THEN 0 ELSE mesh.grid.max[side \div 2 + 1]

\* The mesh is that of the input: every cell lies in the place its material is
\* read from, has the fuel of the place exactly when all of its corners are in
\* the rod, and a face has the id of the side all of its corners are on; the
\* cells that are bent in a refinement are those of a rod, and each gets a
\* manifold there is, that of its own pin (mesh_generator.cc:273, 336, 494).
MeshIsOfItsInput ==
  Meshed =>
    /\ \A cell \in mesh.cells : \E place \in Places :
         LET fuel == Mesh!At(mesh.ids.fuel, place)
             rod == mesh.prm.pin_resolved /\ \A i \in DOMAIN cell : InCircle(place, cell[i])
         IN  /\ \A i \in DOMAIN cell : Within(place, cell[i])
             /\ mesh.material[cell] =
                  IF rod /\ fuel >= 0 THEN fuel ELSE Mesh!At(mesh.ids.id, place)
             /\ cell \in DOMAIN mesh.refined.manifold =>
                  /\ rod
                  /\ mesh.refined.manifold[cell] = 10 + place[1] + place[2] * mesh.grid.n[1]
                  /\ mesh.refined.manifold[cell] \in mesh.refined.declared
    /\ \A cell \in mesh.cells, fn \in Mesh!Faces(problem.dim) :
         LET face == Mesh!Face(cell, fn)
             sides == {s \in 0..2 * problem.dim - 1 : \A i \in DOMAIN face : OnSide(s, face[i])}
         IN  IF <<cell, fn>> \in DOMAIN mesh.boundary THEN sides = {mesh.boundary[<<cell, fn>>]}
             ELSE sides = {}

\* Every direction is reflected at every side of the box, into one that is
\* reflected back into it (aq_base.cc:62).  Even parity in space is set apart:
\* its azimuths cover half of the circle for half of the polar angles, a
\* quarter of the sphere (lsgc.cc:49).
ReflectionsAreMirrors ==
  aq # <<>> /\ problem.mesh.have_reflective /\ ~(problem.dim = 3 /\ problem.model = "ep") =>
    \A side \in 0..2 * problem.dim - 1, d \in DOMAIN aq.directions :
      /\ <<side, d>> \in DOMAIN aq.reflective
      /\ aq.reflective[<<side, aq.reflective[<<side, d>>]>>] = d
=============================================================================
