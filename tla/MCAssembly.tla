----------------------------- MODULE MCAssembly -----------------------------
(***************************************************************************)
(* Two processes on a line of two or three cells of two materials, fuel    *)
(* (1) and water (2), with two groups and the two angles of the one-point  *)
(* Gauss-Legendre set.  Fissions in fuel are born in both groups, neutrons *)
(* of both materials scatter in both directions, and total cross sections  *)
(* divide SigmaUnit.  Fluxes differ between groups, angles and places.     *)
(***************************************************************************)
EXTENDS Assembly

Data == INSTANCE Materials

Vec(id, values) == Data!Property(id, values)
Written(fissionable, vectors, scattering) ==
  Data!Material(2, fissionable, vectors, <<Data!Property("SIGMA_S", scattering)>>)
Files ==
  << Written(TRUE, <<Vec("SIGMA_T", <<6, 3>>), Vec("DIFFUSION_COEFF", <<3, 3>>),
                     Vec("NU_SIG_F", <<1, 4>>), Vec("CHI", <<2, 1>>), Vec("Q", <<5, 0>>)>>,
             <<2, 1, 3, 1>>),
     Written(FALSE, <<Vec("SIGMA_T", <<3, 6>>), Vec("DIFFUSION_COEFF", <<3, 6>>),
                      Vec("Q", <<2, 1>>)>>,
             <<1, 2, 1, 3>>) >>
Sections(eigen) == Data!PopulateData(Files, eigen)

MCAngleSet == FillQuadratureSet(GenerateSet("gauss_legendre", 1))

\* An external solver's eigenvectors: any sign, any length.
MCEigenvector(lhs, upward) == IF upward[1][2] = 1 THEN <<-1, -3>> ELSE <<2, 2>>
OneGroup ==
  LET xs == Sections(TRUE)
      shapes == MaterialSpectralShapes(xs)
      collapsed == Data!Collapsed(xs, shapes)
      vectors(name) == [m \in DOMAIN xs.sigma_t |-> <<collapsed[name][m]>>]
  IN  [sigma_t |-> vectors("sigma_t"),
       sigma_s |-> [m \in DOMAIN xs.sigma_t |-> <<vectors("sigma_s")[m]>>],
       sigma_absorption |-> collapsed.sigma_absorption,
       diffusion_coef |->
         [m \in DOMAIN xs.sigma_t |->
            <<Data!CollapseVector(Data!ScaleVector(xs.diffusion_coef, shapes))[m]>>],
       is_material_fissile |-> [m \in DOMAIN xs.sigma_t |-> FALSE],
       q |-> <<>>]

\* owner and material of the cells 0, 1, ...
Line(values) == [c \in 0..Len(values) - 1 |-> values[c + 1]]
SetUp(kind, owner, material, reflective, eigen) ==
  [kind |-> kind, groups |-> 2, owner |-> Line(owner), material |-> Line(material),
   reflective |-> reflective, eigen |-> eigen, k |-> 1, xs |-> Sections(eigen),
   nested |-> FALSE]
Critical(setUp, k) == [setUp EXCEPT !.k = k]

Fluxes(values) == [d \in 0..3 |-> values[d + 1]]
TwoGridSetUp(owner, material) ==
  [kind |-> "two_grid", groups |-> 1, owner |-> Line(owner), material |-> Line(material),
   reflective |-> {}, eigen |-> FALSE, k |-> 1, xs |-> OneGroup, nested |-> TRUE,
   all_groups |-> Sections(TRUE),
   now |-> <<Fluxes(<<1, 2, 2, 1>>), Fluxes(<<1, 4, 2, 5>>)>>,
   before |-> <<Fluxes(<<2, 2, 1, 1>>), Fluxes(<<3, 1, 5, 2>>)>>]
\* All of the flux goes to the right, so that the quotients are whole.
DriftSetUp(owner, material) ==
  [nested |-> TRUE,
   angular |-> [g \in 1..2 |-> (0 :> Fluxes(<<1, 1, 0, 0>>)) @@ (1 :> Fluxes(<<0, 0, 0, 0>>))]]
    @@ SetUp("drift", owner, material, {0}, TRUE)

MCSetups ==
  { SetUp("diffusion", <<"a", "a", "b">>, <<1, 2, 2>>, {}, FALSE),
    Critical(SetUp("diffusion", <<"b", "a">>, <<2, 1>>, {1}, TRUE), 2),
    SetUp("saaf", <<"a", "b", "a">>, <<2, 1, 2>>, {0}, TRUE),
    Critical(SetUp("saaf", <<"a", "b">>, <<1, 1>>, {0, 1}, TRUE), 2),
    SetUp("saaf", <<"b", "a", "a">>, <<1, 2, 1>>, {}, FALSE),
    TwoGridSetUp(<<"a", "b", "b">>, <<1, 2, 1>>),
    TwoGridSetUp(<<"a", "b">>, <<2, 2>>),
    DriftSetUp(<<"a", "b", "b">>, <<1, 1, 2>>) }
MCSourceSetups == {SetUp("diffusion", <<"a", "b">>, <<1, 2>>, {}, FALSE)}

MCSolutions ==
  { <<(0 :> Fluxes(<<1, 3, 2, 1>>)) @@ (1 :> Fluxes(<<2, 0, 1, 4>>)),
      (0 :> Fluxes(<<0, 1, 5, 2>>)) @@ (1 :> Fluxes(<<3, 1, 1, 0>>))>>,
    <<(0 :> Fluxes(<<2, 0, 0, 3>>)) @@ (1 :> Fluxes(<<1, 1, 4, 0>>)),
      (0 :> Fluxes(<<1, 1, 0, 2>>)) @@ (1 :> Fluxes(<<0, 5, 1, 1>>))>> }
=============================================================================
