-------------------------- MODULE ProblemSetUpProofs --------------------------
(***************************************************************************)
(* What module ProblemSetUp promises, for all input, material and map      *)
(* files.  Of whatever is accepted, the cross sections are complete, the   *)
(* faces of the mesh have the id of their side, its cells the material the *)
(* map shows, and the data that are collapsed to one group react as all    *)
(* groups do.  Looking up mirror images of angles keeps them sound; that   *)
(* the angles have their images in the first place, and that the system    *)
(* fits them, is in QuadratureProofs.                                      *)
(***************************************************************************)
EXTENDS ProblemSetUp, WellFoundedInduction, TLAPS

-----------------------------------------------------------------------------
(***************************************************************************)
(* A valid material.                                                       *)
(***************************************************************************)
\* The vectors with a value per group that a formulation may ask for.
GroupVectors == {"SIGMA_T", "NU_SIG_F", "CHI", "Q", "DIFFUSION_COEFF"}

\* The first property of an id is found, because there is one and no other.
LEMMA PropertyIsFound ==
  ASSUME NEW properties \in Seq(MaterialProperty), NEW id, NEW unknown, id # unknown,
         HasProperty(properties, id), ~DefinedTwice(properties, unknown)
  PROVE  GetProperty(properties, id) \in Seq(Int)
<1> DEFINE IsFirst(i) == /\ properties[i].id = id
                         /\ \A j \in 1 .. i - 1 : properties[j].id # id
<1>1. PICK i \in DOMAIN properties : properties[i].id = id
  BY DEF HasProperty
<1>2. ASSUME NEW j \in 1 .. i - 1
      PROVE  properties[j].id # id
  <2>1. j \in DOMAIN properties /\ j < i
    OBVIOUS
  <2> QED
    BY <1>1, <2>1 DEF DefinedTwice
<1>3. \E first \in DOMAIN properties : IsFirst(first)
  BY <1>1, <1>2
<1>4. (CHOOSE first \in DOMAIN properties : IsFirst(first)) \in DOMAIN properties
  <2> HIDE DEF IsFirst
  <2> QED
    BY <1>3
<1>5. GetProperty(properties, id)
        = properties[CHOOSE first \in DOMAIN properties : IsFirst(first)].values
  BY DEF GetProperty
<1> HIDE DEF IsFirst
<1>6. properties[CHOOSE first \in DOMAIN properties : IsFirst(first)] \in MaterialProperty
  BY <1>4
<1> QED
  BY <1>5, <1>6 DEF MaterialProperty

\* CheckValid, read as what it lets pass.
LEMMA ValidMaterial ==
  ASSUME NEW m \in ReadMaterial, NEW fissile \in BOOLEAN, CheckValid(m, fissile) = "none",
         NEW id \in CheckedVectors(m, fissile) \cap GroupVectors
  PROVE  /\ GetVectorProperty(m, id) \in Seq(Int)
         /\ Len(GetVectorProperty(m, id)) = m.number_of_groups
<1>1. ~MultipleDefinition(m) /\ ~MissingProperty(m, fissile) /\ ~WrongNumberOfValues(m, fissile)
  BY DEF CheckValid
<1>2. HasProperty(m.vectors, id)
  BY <1>1 DEF CheckedVectors, MissingProperty
<1>3. m.vectors \in Seq(MaterialProperty)
  BY DEF ReadMaterial
<1>4. ~DefinedTwice(m.vectors, "UNKNOWN_VECTOR") /\ id # "UNKNOWN_VECTOR"
  BY <1>1 DEF MultipleDefinition, GroupVectors
<1>5. GetVectorProperty(m, id) \in Seq(Int)
  BY <1>2, <1>3, <1>4, PropertyIsFound DEF GetVectorProperty
<1>6. Len(GetVectorProperty(m, id)) = RequiredCount(id, m.number_of_groups)
  BY <1>1 DEF WrongNumberOfValues
<1>7. RequiredCount(id, m.number_of_groups) = m.number_of_groups
  BY DEF RequiredCount, GroupVectors
<1> QED
  BY <1>5, <1>6, <1>7

\* A vector that may be left out has zeros then.
LEMMA OptionalVector ==
  ASSUME NEW m \in ReadMaterial, NEW fissile \in BOOLEAN, CheckValid(m, fissile) = "none",
         NEW id \in {"Q", "DIFFUSION_COEFF"}
  PROVE  DOMAIN OrZeros(m, id) = 1 .. m.number_of_groups
<1>1. CASE HasProperty(m.vectors, id)
  <2>1. id \in CheckedVectors(m, fissile) \cap GroupVectors
    BY <1>1 DEF CheckedVectors, GroupVectors
  <2>2. GetVectorProperty(m, id) \in Seq(Int) /\ Len(GetVectorProperty(m, id)) = m.number_of_groups
    BY <2>1, ValidMaterial
  <2> QED
    BY <1>1, <2>2 DEF OrZeros
<1>2. CASE ~HasProperty(m.vectors, id)
  BY <1>2 DEF OrZeros
<1> QED
  BY <1>1, <1>2

-----------------------------------------------------------------------------
(***************************************************************************)
(* The cross sections of accepted materials.                               *)
(***************************************************************************)
\* MaterialError, read as what it lets pass.
LEMMA AcceptedMaterials ==
  ASSUME NEW materials, NEW is_eigen, NEW n_groups, NEW n_materials,
         MaterialError(materials, is_eigen, n_groups, n_materials) = "none"
  PROVE  /\ is_eigen => FissileIDs(materials, is_eigen) # {}
         /\ \A id \in DOMAIN materials :
              /\ CheckValid(materials[id], id \in FissileIDs(materials, is_eigen)) = "none"
              /\ materials[id].number_of_groups = n_groups
<1> DEFINE fissile == FissileIDs(materials, is_eigen)
           invalid == InvalidMaterials(materials, fissile)
<1>1. is_eigen => fissile # {}
  BY DEF MaterialError
<1>2. invalid = {}
  <2>1. SUFFICES ASSUME invalid # {} PROVE FALSE
    OBVIOUS
  <2> DEFINE first == CHOOSE id \in invalid : TRUE
  <2>2. first \in invalid
    BY <2>1
  <2>3. CheckValid(materials[first], first \in fissile) # "none"
    BY <2>2 DEF InvalidMaterials
  <2>4. \/ MaterialError(materials, is_eigen, n_groups, n_materials) = "NoFissileIDs"
        \/ MaterialError(materials, is_eigen, n_groups, n_materials) = "WrongNumberOfMaterials"
        \/ MaterialError(materials, is_eigen, n_groups, n_materials)
             = CheckValid(materials[first], first \in fissile)
    BY <2>1 DEF MaterialError
  <2> QED
    BY <2>3, <2>4
<1>3. \A id \in DOMAIN materials : CheckValid(materials[id], id \in fissile) = "none"
  BY <1>2 DEF InvalidMaterials
<1>4. \A id \in DOMAIN materials : materials[id].number_of_groups = n_groups
  BY <1>2 DEF MaterialError
<1> QED
  BY <1>1, <1>3, <1>4

\* What the formulations read of the cross sections of n groups.
Complete(xs, is_eigen, n) ==
  LET fissile == {id \in DOMAIN xs.sigma_t : xs.is_material_fissile[id]}
      vector(values) == DOMAIN values = 1 .. n
      matrix(values) == vector(values) /\ \A g \in DOMAIN values : vector(values[g])
  IN  /\ \A id \in DOMAIN xs.sigma_t :
           vector(xs.sigma_t[id]) /\ vector(xs.diffusion_coef[id]) /\ matrix(xs.sigma_s[id])
      /\ is_eigen <=> fissile # {}
      /\ DOMAIN xs.nu_sigma_f = fissile
      /\ \A id \in fissile : vector(xs.nu_sigma_f[id]) /\ matrix(xs.fiss_transfer[id])
      /\ DOMAIN xs.q = IF is_eigen THEN {} ELSE DOMAIN xs.sigma_t
      /\ \A id \in DOMAIN xs.q : vector(xs.q[id])

\* The cross sections PopulateData makes of accepted materials are complete.
LEMMA AcceptedIsComplete ==
  ASSUME NEW materials, \A id \in DOMAIN materials : materials[id] \in ReadMaterial,
         NEW is_eigen \in BOOLEAN, NEW n, NEW n_materials,
         MaterialError(materials, is_eigen, n, n_materials) = "none"
  PROVE  Complete(PopulateData(materials, is_eigen), is_eigen, n)
<1> DEFINE fissile == FissileIDs(materials, is_eigen)
           ids == DOMAIN materials
           xs == PopulateData(materials, is_eigen)
<1>1. /\ is_eigen => fissile # {}
      /\ \A id \in ids : /\ CheckValid(materials[id], id \in fissile) = "none"
                         /\ materials[id].number_of_groups = n
  BY AcceptedMaterials
<1>2. fissile \subseteq ids /\ (fissile # {} => is_eigen)
  BY DEF FissileIDs
<1>3. ASSUME NEW id \in ids, NEW name \in CheckedVectors(materials[id], id \in fissile) \cap GroupVectors
      PROVE  DOMAIN GetVectorProperty(materials[id], name) = 1 .. n
  <2> DEFINE isFissile == id \in fissile
  <2>1. isFissile \in BOOLEAN /\ materials[id] \in ReadMaterial
    OBVIOUS
  <2>2. CheckValid(materials[id], isFissile) = "none"
    BY <1>1
  <2> HIDE DEF isFissile
  <2>3. name \in CheckedVectors(materials[id], isFissile) \cap GroupVectors
    BY DEF isFissile
  <2>4. /\ GetVectorProperty(materials[id], name) \in Seq(Int)
        /\ Len(GetVectorProperty(materials[id], name)) = materials[id].number_of_groups
    BY <2>1, <2>2, <2>3, ValidMaterial
  <2> QED
    BY <1>1, <2>4
<1>4. ASSUME NEW id \in ids
      PROVE  DOMAIN GetVectorProperty(materials[id], "SIGMA_T") = 1 .. n
  BY <1>3 DEF CheckedVectors, RequiredVectors, GroupVectors
<1>5. ASSUME NEW id \in fissile, NEW name \in {"NU_SIG_F", "CHI"}
      PROVE  DOMAIN GetVectorProperty(materials[id], name) = 1 .. n
  BY <1>2, <1>3 DEF CheckedVectors, RequiredVectors, GroupVectors
<1>6. ASSUME NEW id \in ids, NEW name \in {"Q", "DIFFUSION_COEFF"}
      PROVE  DOMAIN OrZeros(materials[id], name) = 1 .. n
  <2> DEFINE isFissile == id \in fissile
  <2>1. isFissile \in BOOLEAN /\ materials[id] \in ReadMaterial
    OBVIOUS
  <2>2. CheckValid(materials[id], isFissile) = "none"
    BY <1>1
  <2> HIDE DEF isFissile
  <2> QED
    BY <1>1, <2>1, <2>2, OptionalVector
<1>7. ASSUME NEW id \in ids
      PROVE  /\ DOMAIN GetScatteringMatrix(materials[id]) = 1 .. n
             /\ \A g \in 1 .. n : DOMAIN GetScatteringMatrix(materials[id])[g] = 1 .. n
  BY <1>1 DEF GetScatteringMatrix
<1>8. ASSUME NEW id \in fissile
      PROVE  LET matrix == FissionTransfer(GetVectorProperty(materials[id], "NU_SIG_F"),
                                           GetVectorProperty(materials[id], "CHI"))
             IN  DOMAIN matrix = 1 .. n /\ \A g \in 1 .. n : DOMAIN matrix[g] = 1 .. n
  BY <1>5 DEF FissionTransfer
<1> HIDE DEF fissile, ids
<1>9. /\ DOMAIN xs.sigma_t = ids
      /\ \A id \in ids : /\ xs.sigma_t[id] = GetVectorProperty(materials[id], "SIGMA_T")
                         /\ xs.sigma_s[id] = GetScatteringMatrix(materials[id])
                         /\ xs.diffusion_coef[id] = OrZeros(materials[id], "DIFFUSION_COEFF")
  BY DEF PopulateData, ids
<1>10. \A id \in ids : xs.is_material_fissile[id] <=> id \in fissile
  BY DEF PopulateData, ids, fissile
<1>11. /\ DOMAIN xs.nu_sigma_f = fissile
       /\ \A id \in fissile :
            /\ xs.nu_sigma_f[id] = GetVectorProperty(materials[id], "NU_SIG_F")
            /\ xs.fiss_transfer[id]
                 = FissionTransfer(GetVectorProperty(materials[id], "NU_SIG_F"),
                                   GetVectorProperty(materials[id], "CHI"))
  BY DEF PopulateData, fissile
<1>12. /\ DOMAIN xs.q = {id \in ids : ~is_eigen}
       /\ \A id \in DOMAIN xs.q : xs.q[id] = OrZeros(materials[id], "Q")
  BY DEF PopulateData, ids
<1> HIDE DEF xs
<1>13. {id \in DOMAIN xs.sigma_t : xs.is_material_fissile[id]} = fissile
  BY <1>2, <1>9, <1>10
<1>14. \A id \in ids : /\ DOMAIN xs.sigma_t[id] = 1 .. n
                       /\ DOMAIN xs.diffusion_coef[id] = 1 .. n
                       /\ DOMAIN xs.sigma_s[id] = 1 .. n
                       /\ \A g \in 1 .. n : DOMAIN xs.sigma_s[id][g] = 1 .. n
  BY <1>4, <1>6, <1>7, <1>9
<1>15. \A id \in fissile : /\ DOMAIN xs.nu_sigma_f[id] = 1 .. n
                           /\ DOMAIN xs.fiss_transfer[id] = 1 .. n
                           /\ \A g \in 1 .. n : DOMAIN xs.fiss_transfer[id][g] = 1 .. n
  BY <1>5, <1>8, <1>11
<1>16. /\ DOMAIN xs.q = IF is_eigen THEN {} ELSE ids
       /\ \A id \in DOMAIN xs.q : DOMAIN xs.q[id] = 1 .. n
  BY <1>6, <1>12
<1>17. Complete(xs, is_eigen, n)
  <2> DEFINE marked == {id \in DOMAIN xs.sigma_t : xs.is_material_fissile[id]}
             vector(values) == DOMAIN values = 1 .. n
             matrix(values) == vector(values) /\ \A g \in DOMAIN values : vector(values[g])
  <2>1. marked = fissile
    BY <1>13
  <2>2. \A id \in DOMAIN xs.sigma_t :
          vector(xs.sigma_t[id]) /\ vector(xs.diffusion_coef[id]) /\ matrix(xs.sigma_s[id])
    <3> TAKE id \in DOMAIN xs.sigma_t
    <3>1. /\ DOMAIN xs.sigma_t[id] = 1 .. n
          /\ DOMAIN xs.diffusion_coef[id] = 1 .. n
          /\ DOMAIN xs.sigma_s[id] = 1 .. n
          /\ \A g \in 1 .. n : DOMAIN xs.sigma_s[id][g] = 1 .. n
      BY <1>9, <1>14
    <3> QED
      BY <3>1
  <2>3. \A id \in fissile : vector(xs.nu_sigma_f[id]) /\ matrix(xs.fiss_transfer[id])
    BY <1>15
  <2>4. DOMAIN xs.q = IF is_eigen THEN {} ELSE DOMAIN xs.sigma_t
    BY <1>9, <1>16
  <2>5. \A id \in DOMAIN xs.q : vector(xs.q[id])
    BY <1>16
  <2>6. is_eigen <=> fissile # {}
    BY <1>1, <1>2
  <2> HIDE DEF marked, vector, matrix
  <2>7. /\ is_eigen <=> marked # {}
        /\ DOMAIN xs.nu_sigma_f = marked
        /\ \A id \in marked : vector(xs.nu_sigma_f[id]) /\ matrix(xs.fiss_transfer[id])
    BY <1>11, <2>1, <2>3, <2>6
  <2> QED
    BY <2>2, <2>4, <2>5, <2>7 DEF Complete, marked, vector, matrix
<1> QED
  BY <1>17 DEF xs

-----------------------------------------------------------------------------
(***************************************************************************)
(* The set-up.  The parameters are those of the input that was read, which *)
(* is not read again, and the cross sections those of its materials.       *)
(***************************************************************************)
ParsedInputs ==
  {Parse(Entries(file)) : file \in {f \in InputFiles : PatternsMatch(Entries(f))}}

\* The input is one that was read, once the parameters are made of it.
InputInv == phase = "framework parameters" => input \in ParsedInputs

\* Parameters and cross sections are those of the input.
AcceptedInv ==
  /\ phase \in {"parameters", "framework parameters"} => parameters = None
  /\ Accepted =>
       /\ input \in ParsedInputs /\ InputError(input) = "none"
       /\ parameters = ToFrameworkParameters(input)
       /\ cross_sections = PopulateData(MaterialsOf(input.material_files),
                                        IsEigenvalueSolve(input))

SetUpInv == InputInv /\ AcceptedInv

\* Nothing is read at first.
LEMMA InitSetUpInv == Init => SetUpInv
BY DEF Init, SetUpInv, InputInv, AcceptedInv, Accepted

\* No step reads an input again, or changes what was made of it.
LEMMA NextSetUpInv == SetUpInv /\ [Next]_vars => SetUpInv'
<1> SUFFICES ASSUME SetUpInv, [Next]_vars PROVE SetUpInv'
  OBVIOUS
<1> USE DEF SetUpInv, InputInv, AcceptedInv, Accepted
<1>1. CASE ReadParameters
  <2>1. PICK file \in InputFiles :
          LET error == IF PatternsMatch(Entries(file)) THEN "none"
                       ELSE "value does not match pattern"
          IN  /\ Step("parameters", error, "framework parameters")
              /\ input' = IF error = "none" THEN Parse(Entries(file)) ELSE None
              /\ UNCHANGED parameters
    BY <1>1 DEF ReadParameters
  <2>2. phase = "parameters" /\ parameters' = None
    BY <2>1 DEF Step
  <2>3. CASE PatternsMatch(Entries(file))
    <3>1. input' = Parse(Entries(file))
      BY <2>1, <2>3
    <3>2. input' \in ParsedInputs
      BY <2>3, <3>1 DEF ParsedInputs
    <3> QED
      BY <2>2, <3>2
  <2>4. CASE ~PatternsMatch(Entries(file))
    <3>1. phase' = "threw"
      BY <2>1, <2>4 DEF Step
    <3> QED
      BY <2>2, <3>1
  <2> QED
    BY <2>3, <2>4
<1>2. CASE MakeParameters
  <2>1. /\ phase = "framework parameters" /\ input' = input /\ input \in ParsedInputs
        /\ parameters = None
    BY <1>2 DEF MakeParameters, Step
  <2>2. CASE InputError(input) = "none"
    <3>1. /\ phase' = "domain"
          /\ parameters' = ToFrameworkParameters(input)
          /\ cross_sections' = PopulateData(MaterialsOf(input.material_files),
                                            IsEigenvalueSolve(input))
      BY <1>2, <2>2 DEF MakeParameters, Step
    <3> QED
      BY <2>1, <2>2, <3>1
  <2>3. CASE InputError(input) # "none"
    <3>1. phase' = "threw" /\ parameters' = None
      BY <1>2, <2>1, <2>3 DEF MakeParameters, Step
    <3> QED
      BY <3>1
  <2> QED
    BY <2>2, <2>3
<1>3. ASSUME UNCHANGED <<input, parameters, cross_sections>>,
             phase' = phase \/ phase' \notin {"parameters", "framework parameters"}
      PROVE  SetUpInv'
  BY <1>3
<1>4. CASE BuildDomain \/ SetUpDomain \/ BuildQuadrature \/ BuildSolutions \/ BuildSystem
  BY <1>3, <1>4 DEF BuildDomain, SetUpDomain, BuildQuadrature, BuildSolutions, BuildSystem,
                    Step, core
<1>5. CASE Collapse \/ ReflectAngle
  BY <1>3, <1>5 DEF Collapse, ReflectAngle, core
<1>6. CASE UNCHANGED vars
  BY <1>3, <1>6 DEF vars, core
<1> QED
  BY <1>1, <1>2, <1>4, <1>5, <1>6 DEF Next

\* The parameters of a run are always those of its input.
LEMMA SetUpInvariant == Spec => []SetUpInv
BY InitSetUpInv, NextSetUpInv, PTL DEF Spec

\* Every file an input names is one that was looked for.
LEMMA ReadMaterials ==
  ASSUME NEW i \in ParsedInputs
  PROVE  \A id \in DOMAIN MaterialsOf(i.material_files) :
           MaterialsOf(i.material_files)[id] \in ReadMaterial
<1>1. PICK file \in InputFiles : i = Parse(Entries(file))
  BY DEF ParsedInputs
<1>2. \A id \in DOMAIN i.material_files : i.material_files[id] \in DOMAIN MaterialFiles
  BY <1>1, SetUpAssumption
<1>3. \A id \in DOMAIN i.material_files :
        MaterialFiles[i.material_files[id]].material \in ReadMaterial
  BY <1>2, SetUpAssumption
<1> QED
  BY <1>3 DEF MaterialsOf

(***************************************************************************)
(* The cross sections of accepted materials are complete: every question a *)
(* formulation asks with `.at` has an answer, for any files, any number of *)
(* materials and of groups.                                                *)
(***************************************************************************)
THEOREM AcceptedCrossSections == Spec => []CrossSectionsAreComplete
<1>1. ASSUME SetUpInv, Accepted
      PROVE  Complete(cross_sections, parameters.is_eigenvalue,
                      parameters.neutron_energy_groups)
  <2> DEFINE materials == MaterialsOf(input.material_files)
  <2>1. /\ input \in ParsedInputs /\ InputError(input) = "none"
        /\ cross_sections = PopulateData(materials, IsEigenvalueSolve(input))
        /\ parameters = ToFrameworkParameters(input)
    BY <1>1 DEF SetUpInv, AcceptedInv
  <2>2. \A id \in DOMAIN materials : materials[id] \in ReadMaterial
    BY <2>1, ReadMaterials
  <2> HIDE DEF materials
  <2>3. MaterialError(materials, IsEigenvalueSolve(input), input.n_groups,
                      input.n_materials) = "none"
    BY <2>1 DEF InputError, materials
  <2>4. IsEigenvalueSolve(input) \in BOOLEAN
    BY DEF IsEigenvalueSolve
  <2>5. Complete(cross_sections, IsEigenvalueSolve(input), input.n_groups)
    BY <2>1, <2>2, <2>3, <2>4, AcceptedIsComplete
  <2>6. /\ parameters.is_eigenvalue = IsEigenvalueSolve(input)
        /\ parameters.neutron_energy_groups = input.n_groups
    BY <2>1 DEF ToFrameworkParameters
  <2> QED
    BY <2>5, <2>6
<1>2. SetUpInv => CrossSectionsAreComplete
  BY <1>1 DEF CrossSectionsAreComplete, Complete, IsVector, IsMatrix
<1> QED
  BY <1>2, SetUpInvariant, PTL

-----------------------------------------------------------------------------
(***************************************************************************)
(* Mirror images.  Looking up an image and remembering it in both          *)
(* directions keeps a sound set sound, in any number of look-ups, in any   *)
(* order, in any number of boundaries.                                     *)
(***************************************************************************)
\* Distinct points, each with one image of its weight in every axis, and
\* remembered images that are images of each other.
IsSet(set, dim) ==
  /\ set = [points |-> set.points, reflection |-> set.reflection, mirrors |-> set.mirrors]
  /\ \A axis \in Quad!Axes : Quad!Maxima[axis] \in DOMAIN set.mirrors
  /\ \A i \in Quad!Indices(set) : Quad!Position(set, i) \in [1..dim -> Int]
  /\ \A i, j \in Quad!Indices(set) : Quad!Position(set, i) = Quad!Position(set, j) => i = j
HasImages(set, dim) ==
  \A axis \in Quad!Axes \cap (1..dim), i \in Quad!Indices(set) :
    \E j \in Quad!Indices(set) : IsMirror(set, i, j, axis)
AreImages(set, axis, remembered) ==
  \A i \in DOMAIN remembered :
    /\ i \in Quad!Indices(set) /\ remembered[i] \in Quad!Indices(set)
    /\ IsMirror(set, i, remembered[i], axis)
    /\ remembered[i] \in DOMAIN remembered /\ remembered[remembered[i]] = i
RemembersImages(set, dim) ==
  \A axis \in Quad!Axes \cap (1..dim) : AreImages(set, axis, set.mirrors[Quad!Maxima[axis]])
SoundSet(set, dim) == IsSet(set, dim) /\ HasImages(set, dim) /\ RemembersImages(set, dim)

\* The image of the image is the point.
LEMMA ImageOfImage ==
  ASSUME NEW set, NEW dim, IsSet(set, dim), NEW axis \in 1..dim,
         NEW i \in Quad!Indices(set), NEW j \in Quad!Indices(set), IsMirror(set, i, j, axis)
  PROVE  IsMirror(set, j, i, axis)
<1> DEFINE p == Quad!Position(set, i)
           q == Quad!Position(set, j)
<1>1. p \in [1..dim -> Int] /\ q \in [1..dim -> Int]
  BY DEF IsSet
<1>2. q = Quad!Negated(p, {axis})
  BY DEF IsMirror
<1>3. Quad!PointAt(set, i).weight = Quad!PointAt(set, j).weight
  BY DEF IsMirror
<1> HIDE DEF p, q
<1>4. q = [n \in 1..dim |-> IF n = axis THEN -p[n] ELSE p[n]]
  BY <1>1, <1>2 DEF Quad!Negated
<1>5. Quad!Negated(q, {axis}) = [n \in 1..dim |-> IF n = axis THEN -q[n] ELSE q[n]]
  BY <1>1 DEF Quad!Negated
<1>6. \A n \in 1..dim : (IF n = axis THEN -q[n] ELSE q[n]) = p[n]
  BY <1>1, <1>4
<1>7. p = Quad!Negated(q, {axis})
  BY <1>1, <1>5, <1>6
<1> QED
  BY <1>3, <1>7 DEF IsMirror, p, q

\* A point has one image in an axis.
LEMMA OneImage ==
  ASSUME NEW set, NEW dim, IsSet(set, dim), NEW axis,
         NEW i \in Quad!Indices(set), NEW j \in Quad!Indices(set), NEW k \in Quad!Indices(set),
         IsMirror(set, i, j, axis), IsMirror(set, i, k, axis)
  PROVE  j = k
BY DEF IsSet, IsMirror

\* Both sides of an axis have one map, and no other axis has it.
LEMMA MapOfAxis ==
  ASSUME NEW boundary \in {"XMin", "XMax", "YMin", "YMax", "ZMin", "ZMax"}
  PROVE  /\ Quad!AxisOf(boundary) \in Quad!Axes
         /\ \A axis \in Quad!Axes : Quad!Maxima[axis] = Quad!MirrorKey(boundary)
                                    => axis = Quad!AxisOf(boundary)
<1>1. Quad!Axes = {1, 2, 3}
  BY DEF Quad!Axes
<1>2. /\ Quad!Minima[1] = "XMin" /\ Quad!Minima[2] = "YMin" /\ Quad!Minima[3] = "ZMin"
      /\ Quad!Maxima[1] = "XMax" /\ Quad!Maxima[2] = "YMax" /\ Quad!Maxima[3] = "ZMax"
  BY DEF Quad!Minima, Quad!Maxima
<1>3. \E axis \in Quad!Axes : boundary \in {Quad!Minima[axis], Quad!Maxima[axis]}
  BY <1>1, <1>2
<1>4. Quad!AxisOf(boundary) \in Quad!Axes
  BY <1>3 DEF Quad!AxisOf
<1>5. \A a, b \in Quad!Axes : Quad!Maxima[a] = Quad!Maxima[b] => a = b
  BY <1>1, <1>2
<1> QED
  BY <1>4, <1>5 DEF Quad!MirrorKey

\* The image a look-up finds, remembered or not.
LEMMA FoundImage ==
  ASSUME NEW set, NEW dim, SoundSet(set, dim), NEW i \in Quad!Indices(set),
         NEW boundary \in {"XMin", "XMax", "YMin", "YMax", "ZMin", "ZMax"},
         Quad!AxisOf(boundary) \in 1..dim, ~Quad!MirrorFails(set, i, boundary)
  PROVE  LET j == Quad!BoundaryReflection(set, i, boundary)
         IN  j \in Quad!Indices(set) /\ IsMirror(set, i, j, Quad!AxisOf(boundary))
<1> DEFINE axis == Quad!AxisOf(boundary)
           remembered == Quad!CachedMirrors(set, boundary)
           j == Quad!BoundaryReflection(set, i, boundary)
<1>1. axis \in Quad!Axes /\ axis \in 1..dim /\ remembered = set.mirrors[Quad!Maxima[axis]]
  BY MapOfAxis DEF Quad!CachedMirrors, Quad!MirrorKey
<1>2. AreImages(set, axis, remembered)
  BY <1>1 DEF SoundSet, RemembersImages
<1>3. CASE i \in DOMAIN remembered
  BY <1>2, <1>3 DEF AreImages, Quad!BoundaryReflection
<1>4. CASE i \notin DOMAIN remembered
  <2> DEFINE found == Quad!IndicesAt(set, Quad!SoughtPosition(set, i, boundary))
  <2>1. found # {}
    BY <1>4 DEF Quad!MirrorFails
  <2>2. j = CHOOSE n \in found : TRUE
    BY <1>4 DEF Quad!BoundaryReflection
  <2>3. j \in found
    BY <2>1, <2>2
  <2>4. j \in Quad!Indices(set) /\ Quad!Position(set, j) = Quad!Negated(Quad!Position(set, i), {axis})
    BY <2>3 DEF Quad!IndicesAt, Quad!SoughtPosition
  <2>5. PICK k \in Quad!Indices(set) : IsMirror(set, i, k, axis)
    BY <1>1 DEF SoundSet, HasImages
  <2>6. j = k
    BY <2>4, <2>5 DEF SoundSet, IsSet, IsMirror
  <2> QED
    BY <2>4, <2>5, <2>6
<1> QED
  BY <1>3, <1>4

\* Remembering an image in both directions.
LEMMA RememberedPair ==
  ASSUME NEW set, NEW dim, IsSet(set, dim), NEW axis \in 1..dim,
         NEW i \in Quad!Indices(set), NEW j \in Quad!Indices(set), IsMirror(set, i, j, axis),
         NEW remembered, AreImages(set, axis, remembered)
  PROVE  AreImages(set, axis, Quad!WithPair(remembered, i, j))
<1> DEFINE pairs == Quad!WithPair(remembered, i, j)
<1>1. IsMirror(set, j, i, axis)
  BY ImageOfImage
<1>2. i \in DOMAIN remembered => j = remembered[i]
  BY OneImage DEF AreImages
<1>3. j \in DOMAIN remembered => i = remembered[j]
  BY <1>1, OneImage DEF AreImages
<1>4. i \in DOMAIN remembered <=> j \in DOMAIN remembered
  BY <1>2, <1>3 DEF AreImages
<1>5. DOMAIN pairs = DOMAIN remembered \cup {i, j}
  BY DEF Quad!WithPair
<1>6. /\ \A n \in DOMAIN remembered : pairs[n] = remembered[n]
      /\ i \notin DOMAIN remembered => pairs[i] = j /\ pairs[j] = i
  BY <1>4 DEF Quad!WithPair
<1> HIDE DEF pairs
<1>7. ASSUME i \in DOMAIN remembered PROVE AreImages(set, axis, pairs)
  <2>1. DOMAIN pairs = DOMAIN remembered
    BY <1>4, <1>5, <1>7
  <2> QED
    BY <2>1, <1>6 DEF AreImages
<1>8. ASSUME i \notin DOMAIN remembered PROVE AreImages(set, axis, pairs)
  <2> SUFFICES ASSUME NEW n \in DOMAIN pairs
               PROVE  /\ n \in Quad!Indices(set) /\ pairs[n] \in Quad!Indices(set)
                      /\ IsMirror(set, n, pairs[n], axis)
                      /\ pairs[n] \in DOMAIN pairs /\ pairs[pairs[n]] = n
    BY DEF AreImages
  <2>1. CASE n \in DOMAIN remembered
    BY <1>5, <1>6, <2>1 DEF AreImages
  <2>2. CASE n = i
    BY <1>1, <1>5, <1>6, <1>8, <2>2
  <2>3. CASE n = j
    BY <1>1, <1>5, <1>6, <1>8, <2>3
  <2> QED
    BY <1>5, <2>1, <2>2, <2>3
<1> QED
  BY <1>7, <1>8 DEF pairs

\* GetBoundaryReflection remembers an image and the image of the image.
LEMMA LookUpKeepsSound ==
  ASSUME NEW set, NEW dim, SoundSet(set, dim), NEW i \in Quad!Indices(set),
         NEW boundary \in {"XMin", "XMax", "YMin", "YMax", "ZMin", "ZMax"},
         ~Quad!MirrorFails(set, i, boundary)
  PROVE  SoundSet(Quad!GetBoundaryReflection(set, i, boundary), dim)
<1> DEFINE next == Quad!GetBoundaryReflection(set, i, boundary)
           axis == Quad!AxisOf(boundary)
           key == Quad!MirrorKey(boundary)
           j == Quad!BoundaryReflection(set, i, boundary)
           pairs == Quad!WithPair(set.mirrors[key], i, j)
           mirrors == [set.mirrors EXCEPT ![key] = pairs]
<1>1. axis \in Quad!Axes /\ key = Quad!Maxima[axis] /\ key \in DOMAIN set.mirrors
  BY MapOfAxis DEF Quad!MirrorKey, SoundSet, IsSet
<1>2. next = [set EXCEPT !.mirrors = mirrors]
  BY DEF Quad!GetBoundaryReflection
<1> HIDE DEF next, axis, key, j, pairs, mirrors
<1>3. set = [points |-> set.points, reflection |-> set.reflection, mirrors |-> set.mirrors]
  BY DEF SoundSet, IsSet
<1>4. next = [points |-> set.points, reflection |-> set.reflection, mirrors |-> mirrors]
  BY <1>2, <1>3
<1>5. next.points = set.points /\ next.mirrors = mirrors
  BY <1>4
<1>6. /\ Quad!Indices(next) = Quad!Indices(set)
      /\ \A n : Quad!Position(next, n) = Quad!Position(set, n)
      /\ \A n : Quad!PointAt(next, n) = Quad!PointAt(set, n)
  BY <1>5 DEF Quad!Indices, Quad!SetSize, Quad!Position, Quad!PointAt
<1>7. \A m, n, a : IsMirror(next, m, n, a) <=> IsMirror(set, m, n, a)
  BY <1>6 DEF IsMirror
<1>8. /\ \A a \in Quad!Axes : Quad!Maxima[a] \in DOMAIN mirrors
      /\ \A a \in Quad!Axes : a # axis => mirrors[Quad!Maxima[a]] = set.mirrors[Quad!Maxima[a]]
      /\ mirrors[key] = pairs
  BY <1>1, MapOfAxis DEF SoundSet, IsSet, mirrors, key, axis
<1>9. IsSet(next, dim)
  BY <1>4, <1>5, <1>6, <1>8 DEF SoundSet, IsSet
<1>10. HasImages(next, dim)
  BY <1>6, <1>7 DEF SoundSet, HasImages
<1>11. RemembersImages(next, dim)
  <2> SUFFICES ASSUME NEW a \in Quad!Axes, a \in 1..dim
               PROVE  AreImages(next, a, mirrors[Quad!Maxima[a]])
    BY <1>5 DEF RemembersImages
  <2>1. AreImages(set, a, set.mirrors[Quad!Maxima[a]])
    BY DEF SoundSet, RemembersImages
  <2>2. AreImages(set, a, mirrors[Quad!Maxima[a]])
    <3>1. CASE a # axis
      BY <2>1, <3>1, <1>8
    <3>2. CASE a = axis
      <4>1. j \in Quad!Indices(set) /\ IsMirror(set, i, j, axis)
        BY <3>2, FoundImage DEF j, axis
      <4>2. AreImages(set, axis, set.mirrors[key])
        BY <2>1, <3>2, <1>1
      <4>3. AreImages(set, axis, pairs)
        BY <3>2, <4>1, <4>2, RememberedPair DEF SoundSet, pairs
      <4> QED
        BY <3>2, <4>3, <1>1, <1>8
    <3> QED
      BY <3>1, <3>2
  <2> QED
    BY <2>2, <1>6, <1>7 DEF AreImages
<1> QED
  BY <1>9, <1>10, <1>11 DEF SoundSet, next

\* What is built is built from the parameters of the input.
Building == phase \notin {"parameters", "framework parameters", "threw"}
ParametersInv == Building => parameters = ToFrameworkParameters(input)

\* No step of the build makes other parameters.
LEMMA ParametersInvariant == Spec => []ParametersInv
<1>1. Init => ParametersInv
  BY DEF Init, ParametersInv, Building
<1>2. ASSUME ParametersInv, [Next]_vars PROVE ParametersInv'
  <2> USE <1>2 DEF ParametersInv, Building
  <2>1. CASE ReadParameters
    BY <2>1 DEF ReadParameters, Step
  <2>2. CASE MakeParameters
    BY <2>2 DEF MakeParameters, Step
  <2>3. CASE BuildDomain \/ SetUpDomain \/ BuildQuadrature \/ BuildSolutions \/ BuildSystem
    BY <2>3 DEF BuildDomain, SetUpDomain, BuildQuadrature, BuildSolutions, BuildSystem,
                Step, core
  <2>4. CASE Collapse \/ ReflectAngle
    BY <2>4 DEF Collapse, ReflectAngle, core
  <2>5. CASE UNCHANGED vars
    BY <2>5 DEF vars, core
  <2> QED
    BY <2>1, <2>2, <2>3, <2>4, <2>5 DEF Next
<1> QED
  BY <1>1, <1>2, PTL DEF Spec

(***************************************************************************)
(* A look-up of the running framework, in any boundary of any accepted     *)
(* input, keeps a sound set sound: what GetBoundaryReflection remembers is *)
(* what it would find again, and the image of an image is the angle.       *)
(***************************************************************************)
LookUpStaysSound ==
  ReflectAngle /\ SoundSet(quadrature_set, input.dimension)
    => SoundSet(quadrature_set', input'.dimension)

THEOREM LookUpsStaySound == Spec => [][LookUpStaysSound]_vars
<1>1. ASSUME ParametersInv, ReflectAngle, SoundSet(quadrature_set, input.dimension)
      PROVE  SoundSet(quadrature_set', input'.dimension)
  <2>1. input' = input
    BY <1>1 DEF ReflectAngle, core
  <2>2. PICK boundary \in parameters.reflective_boundaries,
             i \in Quad!Indices(quadrature_set) :
          IF Quad!MirrorFails(quadrature_set, i, boundary)
          THEN UNCHANGED quadrature_set
          ELSE quadrature_set' = Quad!GetBoundaryReflection(quadrature_set, i, boundary)
    BY <1>1 DEF ReflectAngle
  <2>3. CASE Quad!MirrorFails(quadrature_set, i, boundary)
    BY <1>1, <2>1, <2>2, <2>3
  <2>4. CASE ~Quad!MirrorFails(quadrature_set, i, boundary)
    <3>1. parameters = ToFrameworkParameters(input)
      BY <1>1 DEF ReflectAngle, ParametersInv, Building
    <3>2. boundary \in {BoundaryOf[name] : name \in Boundaries}
      BY <2>2, <3>1 DEF ToFrameworkParameters
    <3>3. boundary \in {"XMin", "XMax", "YMin", "YMax", "ZMin", "ZMax"}
      BY <3>2 DEF BoundaryOf, Boundaries
    <3>4. SoundSet(Quad!GetBoundaryReflection(quadrature_set, i, boundary), input.dimension)
      BY <1>1, <2>4, <3>3, LookUpKeepsSound
    <3> QED
      BY <2>1, <2>2, <2>4, <3>4
  <2> QED
    BY <2>3, <2>4
<1>2. ParametersInv /\ [Next]_vars => LookUpStaysSound
  BY <1>1 DEF LookUpStaysSound
<1> QED
  BY <1>2, ParametersInvariant, PTL DEF Spec

-----------------------------------------------------------------------------
(***************************************************************************)
(* What is parsed and accepted.                                            *)
(***************************************************************************)
\* An entry has the value of the file or its default, in any file.
LEMMA DeclaredEntries ==
  ASSUME NEW file
  PROVE  {"n_groups", "dimension", "angular_quad", "angular_order", "n_cells", "spatial_max",
          "reflective", "material_files", "refinements"} \subseteq DOMAIN Entries(file)
<1>1. DOMAIN Entries(file) = UNION {DOMAIN Declared[i] : i \in DOMAIN Declared}
  BY DEF Entries, Defaults
<1>2. /\ DOMAIN Declared = 1..6
      /\ Declared[1] = BasicDefaults /\ Declared[2] = MeshDefaults
      /\ Declared[3] = MaterialDefaults /\ Declared[6] = AngularDefaults
  BY DEF Declared
<1>3. DOMAIN BasicDefaults \cup DOMAIN MeshDefaults \cup DOMAIN MaterialDefaults
        \cup DOMAIN AngularDefaults \subseteq DOMAIN Entries(file)
  BY <1>1, <1>2
<1> HIDE DEF Entries
<1>4. {"n_groups", "dimension", "n_cells", "spatial_max", "reflective"} \subseteq DOMAIN BasicDefaults
  BY DEF BasicDefaults
<1>5. "refinements" \in DOMAIN MeshDefaults
  BY DEF MeshDefaults
<1>6. "material_files" \in DOMAIN MaterialDefaults
  BY DEF MaterialDefaults
<1>7. {"angular_quad", "angular_order"} \subseteq DOMAIN AngularDefaults
  BY DEF AngularDefaults
<1> QED
  BY <1>3, <1>4, <1>5, <1>6, <1>7

\* What a file that is accepted by its patterns is parsed to.
LEMMA ParsedEntries ==
  ASSUME NEW i \in ParsedInputs
  PROVE  /\ i.dimension \in 1..3
         /\ i.n_groups \in Nat \ {0}
         /\ i.angular_order \in Int
         /\ i.angular_quad \in {"level_symmetric_gaussian", "gauss_legendre", "none"}
<1>1. PICK file \in InputFiles : PatternsMatch(Entries(file)) /\ i = Parse(Entries(file))
  BY DEF ParsedInputs
<1> DEFINE e == Entries(file)
<1>2. {"n_groups", "dimension", "angular_quad", "angular_order"} \subseteq DOMAIN e
  BY DeclaredEntries
<1>3. e["n_groups"] \in Int /\ e["angular_order"] \in Int
  BY SetUpAssumption
<1> HIDE DEF e
<1>4. /\ i.dimension = e.dimension /\ i.n_groups = e.n_groups
      /\ i.angular_order = e.angular_order /\ i.angular_quad = e.angular_quad
  BY <1>1, <1>2 DEF Parse, e
<1>5. e.dimension \in 1..3 /\ e.n_groups >= 1
  BY <1>1 DEF PatternsMatch, IntegersMatch, e
<1>6. SelectionsMatch(e)
  BY <1>1 DEF PatternsMatch, e
<1>7. e["angular_quad"] \in Options["angular_quad"]
  BY <1>6 DEF SelectionsMatch, Options
<1> QED
  BY <1>3, <1>4, <1>5, <1>7 DEF Options

\* While the framework is being built the parameters are those of an input
\* that was accepted.
LEMMA BuildingIsAccepted ==
  ASSUME ParametersInv, Building
  PROVE  Accepted
<1>1. parameters = ToFrameworkParameters(input)
  BY DEF ParametersInv
<1>2. "equation_type" \in DOMAIN parameters
  BY <1>1 DEF ToFrameworkParameters
<1>3. "equation_type" \notin DOMAIN None
  BY DEF None
<1> QED
  BY <1>2, <1>3 DEF Accepted

-----------------------------------------------------------------------------
(***************************************************************************)
(* Recursive functions: induction up to a number, and sums.                *)
(***************************************************************************)
\* Numbers are well-founded: of some there is a least.
LEMMA LeastNumber ==
  ASSUME NEW S \in SUBSET Nat, S # {}
  PROVE  \E n \in S : \A m \in S : n <= m
<1> DEFINE R == OpToRel(<, Nat)
<1>1. IsWellFoundedOn(R, Nat)
  BY NatLessThanWellFounded
<1>2. \A x, y \in Nat : x < y => <<x, y>> \in R
  BY DEF OpToRel
<1> HIDE DEF R
<1>3. \E x \in S : \A y \in S : ~(<<y, x>> \in R)
  BY <1>1, WFMin
<1>4. PICK x \in S : \A y \in S : ~(<<y, x>> \in R)
  BY <1>3
<1>5. \A y \in S : ~(y < x)
  BY <1>2, <1>4
<1>6. \A y \in S : x <= y
  BY <1>5
<1> QED
  BY <1>6

\* What holds at 0 and passes from a number to the next holds up to N.
\* Recursive functions of the model are reasoned about with this.
LEMMA InductionTo ==
  ASSUME NEW N \in Nat, NEW S, 0 \in S, \A n \in 1..N : n - 1 \in S => n \in S
  PROVE  0..N \subseteq S
<1> DEFINE rest == {n \in 0..N : n \notin S}
<1> SUFFICES ASSUME rest # {} PROVE FALSE
  OBVIOUS
<1>0. rest \in SUBSET Nat
  OBVIOUS
<1> HIDE DEF rest
<1>1. PICK n \in rest : \A m \in rest : n <= m
  BY <1>0, LeastNumber
<1>2. n \in 1..N
  BY <1>1 DEF rest
<1>3. n - 1 \in S
  BY <1>1, <1>2 DEF rest
<1> QED
  BY <1>1, <1>2, <1>3 DEF rest

\* The partial sums of N terms.
SummedTo(term, N, f) == f = [n \in 0..N |-> IF n = 0 THEN 0 ELSE f[n - 1] + term[n]]

\* There are such sums, whatever the terms.
LEMMA SumExists ==
  ASSUME NEW term, NEW N \in Nat
  PROVE  \E f : SummedTo(term, N, f)
<1> DEFINE S == {n \in 0..N : \E f : SummedTo(term, n, f)}
<1>1. 0 \in S
  <2> DEFINE f == [n \in 0..0 |-> 0]
  <2>1. SummedTo(term, 0, f)
    BY DEF SummedTo
  <2> QED
    BY <2>1
<1>2. ASSUME NEW n \in 1..N, n - 1 \in S PROVE n \in S
  <2>1. PICK f : SummedTo(term, n - 1, f)
    BY <1>2
  <2> DEFINE last == f[n - 1] + term[n]
             g == [i \in 0..n |-> IF i = n THEN last ELSE f[i]]
  <2> HIDE DEF last
  <2>2. ASSUME NEW i \in 0..n
        PROVE  g[i] = IF i = 0 THEN 0 ELSE g[i - 1] + term[i]
    <3>1. CASE i = n
      BY <3>1 DEF last
    <3>2. CASE i # n
      <4>1. i \in 0..n-1 /\ g[i] = f[i] /\ (i # 0 => g[i - 1] = f[i - 1])
        BY <3>2
      <4>2. f[i] = IF i = 0 THEN 0 ELSE f[i - 1] + term[i]
        BY <2>1, <4>1 DEF SummedTo
      <4> QED
        BY <4>1, <4>2
    <3> QED
      BY <3>1, <3>2
  <2>3. SummedTo(term, n, g)
    BY <2>2 DEF SummedTo
  <2> QED
    BY <2>3
<1> HIDE DEF S
<1>3. N \in S
  BY <1>1, <1>2, InductionTo
<1> QED
  BY <1>3 DEF S

-----------------------------------------------------------------------------
(***************************************************************************)
(* The sides of the mesh.                                                  *)
(***************************************************************************)
\* Numbers of cells in each direction.
SizesOf(dim) == [1..dim -> Nat \ {0}]
\* Those of the meshes of any dimension.
MeshSizes == UNION {SizesOf(dim) : dim \in 1..3}

\* A cell of the grid has a place below the number of cells.
LEMMA CellOfGrid ==
  ASSUME NEW dim \in 1..3, NEW n \in SizesOf(dim), NEW c \in Mesh!Grid(n)
  PROVE  /\ c \in [1..dim -> Nat] /\ \A i \in 1..dim : c[i] < n[i]
<1> DEFINE last == Mesh!Max(Mesh!Range(n)) - 1
<1>1. c \in [1..dim -> 0..last] /\ \A i \in 1..dim : c[i] < n[i]
  BY DEF Mesh!Grid, SizesOf
<1> HIDE DEF last
<1>2. 0..last \subseteq Nat
  OBVIOUS
<1> QED
  BY <1>1, <1>2

\* The cells a process may own.
CellSets(n) == SUBSET Mesh!Grid(n)
\* The boundary a face at the edge of the domain is on.
SideOf(f) == IF f.side = 0 THEN Quad!Minima[f.axis] ELSE Quad!Maxima[f.axis]
\* A face is at the edge where its cell is the first or the last.
LEMMA FaceOf ==
  ASSUME NEW dim \in 1..3, NEW n \in SizesOf(dim),
         NEW cells \in CellSets(n), NEW f
  PROVE  f \in Mesh!OuterFaces(cells, n) <=>
           /\ f = [cell |-> f.cell, axis |-> f.axis, side |-> f.side]
           /\ f.cell \in cells /\ f.axis \in 1..dim /\ f.side \in {0, 1}
           /\ f.cell[f.axis] = IF f.side = 0 THEN 0 ELSE n[f.axis] - 1
<1>1. \A c \in cells : DOMAIN c = 1..dim
  <2>1. \A c \in Mesh!Grid(n) : c \in [1..dim -> Nat]
    BY CellOfGrid
  <2> QED
    BY <2>1 DEF CellSets
<1>2. f \in Mesh!Faces(cells) <=>
        \E c \in cells, a \in UNION {DOMAIN d : d \in cells}, s \in {0, 1} :
          f = [cell |-> c, axis |-> a, side |-> s]
  BY DEF Mesh!Faces
<1>3. \A a : (a \in UNION {DOMAIN d : d \in cells}) <=> (a \in 1..dim /\ cells # {})
  BY <1>1
<1>4. f \in Mesh!Faces(cells) <=>
           /\ f = [cell |-> f.cell, axis |-> f.axis, side |-> f.side]
           /\ f.cell \in cells /\ f.axis \in 1..dim /\ f.side \in {0, 1}
  <2>1. ASSUME f \in Mesh!Faces(cells)
        PROVE  /\ f = [cell |-> f.cell, axis |-> f.axis, side |-> f.side]
               /\ f.cell \in cells /\ f.axis \in 1..dim /\ f.side \in {0, 1}
    BY <1>2, <1>3, <2>1
  <2>2. ASSUME f = [cell |-> f.cell, axis |-> f.axis, side |-> f.side],
               f.cell \in cells, f.axis \in 1..dim, f.side \in {0, 1}
        PROVE  f \in Mesh!Faces(cells)
    <3> DEFINE axes == UNION {DOMAIN d : d \in cells}
    <3>1. f.axis \in axes
      BY <1>3, <2>2
    <3> HIDE DEF axes
    <3>2. \E c \in cells, a \in axes, s \in {0, 1} : f = [cell |-> c, axis |-> a, side |-> s]
      BY <2>2, <3>1
    <3> QED
      BY <1>2, <3>2 DEF axes
  <2> QED
    BY <2>1, <2>2
<1> QED
  BY <1>4 DEF Mesh!OuterFaces, Mesh!AtBoundary

\* The same, read from the face.
LEMMA PartsOfFace ==
  ASSUME NEW dim \in 1..3, NEW n \in SizesOf(dim),
         NEW cells \in CellSets(n), NEW f \in Mesh!OuterFaces(cells, n)
  PROVE  /\ f = [cell |-> f.cell, axis |-> f.axis, side |-> f.side]
         /\ f.cell \in cells /\ f.axis \in 1..dim /\ f.side \in {0, 1}
         /\ f.cell[f.axis] = IF f.side = 0 THEN 0 ELSE n[f.axis] - 1
BY FaceOf

\* FillBoundaryID compares the centre of the face with the extents of the
\* domain, and finds the side the face is on.
LEMMA BoundaryOfFace ==
  ASSUME NEW dim \in 1..3, NEW n \in SizesOf(dim),
         NEW cells \in CellSets(n), NEW f \in Mesh!OuterFaces(cells, n)
  PROVE  Mesh!BoundaryID(f, n) = SideOf(f)
<1> DEFINE onEdge == {i \in DOMAIN n : Mesh!FaceCenter(f, i) \in {0, 2 * n[i]}}
           c == f.cell
           a == f.axis
           s == f.side
<1>1. /\ f = [cell |-> f.cell, axis |-> f.axis, side |-> f.side]
      /\ c \in cells /\ a \in 1..dim /\ s \in {0, 1}
      /\ c[a] = IF s = 0 THEN 0 ELSE n[a] - 1
  BY PartsOfFace
<1>2. c \in [1..dim -> Nat]
  BY <1>1, CellOfGrid DEF CellSets
<1>3. \A i \in 1..dim : Mesh!FaceCenter(f, i) = IF i = a THEN 2 * (c[i] + s) ELSE 2 * c[i] + 1
  BY DEF Mesh!FaceCenter
<1> HIDE DEF c, a, s
<1>4. Mesh!FaceCenter(f, a) = IF s = 0 THEN 0 ELSE 2 * n[a]
  <2>1. n[a] \in Nat
    BY <1>1 DEF SizesOf
  <2> QED
    BY <1>1, <1>3, <2>1
<1>5. ASSUME NEW i \in 1..dim, i # a
      PROVE  Mesh!FaceCenter(f, i) \notin {0, 2 * n[i]}
  <2>1. n[i] \in Nat /\ c[i] \in Nat /\ Mesh!FaceCenter(f, i) = 2 * c[i] + 1
    BY <1>2, <1>3, <1>5 DEF SizesOf
  <2> QED
    BY <2>1
<1>6. onEdge = {a}
  <2>1. DOMAIN n = 1..dim
    BY DEF SizesOf
  <2> QED
    BY <1>1, <1>4, <1>5, <2>1
<1>7. Mesh!Max({a}) = a
  <2>1. a \in Int
    BY <1>1
  <2>2. \A m : m \in {a} /\ (\A y \in {a} : m >= y) <=> m = a
    BY <2>1
  <2> QED
    BY <2>1 DEF Mesh!Max
<1> HIDE DEF onEdge
<1>8. Mesh!BoundaryID(f, n)
        = IF Mesh!FaceCenter(f, a) = 0 THEN Mesh!Firsts[a] ELSE Mesh!Lasts[a]
  BY <1>6, <1>7 DEF Mesh!BoundaryID, onEdge
<1>9. (Mesh!FaceCenter(f, a) = 0) <=> s = 0
  <2>1. n[a] \in Nat \ {0}
    BY <1>1 DEF SizesOf
  <2>2. 2 * n[a] # 0
    BY <2>1
  <2> QED
    BY <1>1, <1>4, <2>2
<1>10. Mesh!Firsts[a] = Quad!Minima[a] /\ Mesh!Lasts[a] = Quad!Maxima[a]
  BY DEF Mesh!Firsts, Mesh!Lasts, Quad!Minima, Quad!Maxima
<1> QED
  BY <1>8, <1>9, <1>10 DEF SideOf, s, a

\* A mesh with ids on its outer faces, and on no others.
HasEdges(m) ==
  /\ m.n_cells \in MeshSizes
  /\ DOMAIN m.materials \subseteq Mesh!Grid(m.n_cells)
  /\ DOMAIN m.boundaries = Mesh!OuterFaces(DOMAIN m.materials, m.n_cells)

\* A cell, its parent, and so on.
AncestorsTo(c, N, u) == u = [r \in 0..N |-> IF r = 0 THEN c ELSE Mesh!Parent(u[r - 1])]

\* There is such a sequence of cells.
LEMMA AncestorsExist ==
  ASSUME NEW c, NEW N \in Nat
  PROVE  \E u : AncestorsTo(c, N, u)
<1> DEFINE S == {n \in 0..N : \E u : AncestorsTo(c, n, u)}
<1>1. 0 \in S
  <2> DEFINE u == [n \in 0..0 |-> c]
  <2>1. AncestorsTo(c, 0, u)
    BY DEF AncestorsTo
  <2> QED
    BY <2>1
<1>2. ASSUME NEW n \in 1..N, n - 1 \in S PROVE n \in S
  <2>1. PICK u : AncestorsTo(c, n - 1, u)
    BY <1>2
  <2> DEFINE last == Mesh!Parent(u[n - 1])
             v == [i \in 0..n |-> IF i = n THEN last ELSE u[i]]
  <2> HIDE DEF last
  <2>2. ASSUME NEW i \in 0..n
        PROVE  v[i] = IF i = 0 THEN c ELSE Mesh!Parent(v[i - 1])
    <3>1. CASE i = n
      BY <3>1 DEF last
    <3>2. CASE i # n
      <4>1. i \in 0..n-1 /\ v[i] = u[i] /\ (i # 0 => v[i - 1] = u[i - 1])
        BY <3>2
      <4>2. u[i] = IF i = 0 THEN c ELSE Mesh!Parent(u[i - 1])
        BY <2>1, <4>1 DEF AncestorsTo
      <4> QED
        BY <4>1, <4>2
    <3> QED
      BY <3>1, <3>2
  <2>3. AncestorsTo(c, n, v)
    BY <2>2 DEF AncestorsTo
  <2> QED
    BY <2>3
<1> HIDE DEF S
<1>3. N \in S
  BY <1>1, <1>2, InductionTo
<1> QED
  BY <1>3 DEF S

\* The coarse cell a cell is part of.
CoarseCell(cell, R) == (CHOOSE u : AncestorsTo(cell, R, u))[R]

\* After r refinements a face has the id of its side, if the coarse cell its
\* cell is part of is one of `owned`.
SidesBy(m, r, owned) ==
  \A f \in DOMAIN m.boundaries : \A u :
    AncestorsTo(f.cell, r, u) /\ u[r] \in owned => m.boundaries[f] = SideOf(f)

\* The mesh before it is refined.
CoarseMesh(the_map, n, owned) ==
  [n_cells |-> n, materials |-> Mesh!FillMaterialID(the_map, n, owned),
   boundaries |-> Mesh!FillBoundaryID(n, owned)]

\* FillBoundaryID gives the coarse cells a process owns their sides.
LEMMA CoarseSides ==
  ASSUME NEW n \in MeshSizes, NEW owned \in CellSets(n), NEW the_map
  PROVE  /\ HasEdges(CoarseMesh(the_map, n, owned))
         /\ SidesBy(CoarseMesh(the_map, n, owned), 0, owned)
<1> DEFINE m == CoarseMesh(the_map, n, owned)
           outer == Mesh!OuterFaces(Mesh!Grid(n), n)
<1>1. PICK dim \in 1..3 : n \in SizesOf(dim)
  BY DEF MeshSizes
<1>2. /\ m.n_cells = n /\ DOMAIN m.materials = Mesh!Grid(n)
      /\ m.boundaries = Mesh!FillBoundaryID(n, owned)
  BY DEF CoarseMesh, Mesh!FillMaterialID
<1> HIDE DEF m
<1>3. m.boundaries = [f \in outer |-> IF f.cell \in owned THEN Mesh!BoundaryID(f, n) ELSE "XMin"]
  BY <1>2 DEF Mesh!FillBoundaryID
<1>4. \A f \in outer : Mesh!BoundaryID(f, n) = SideOf(f)
  <2>1. Mesh!Grid(n) \in CellSets(n)
    BY DEF CellSets
  <2> QED
    BY <1>1, <2>1, BoundaryOfFace
<1> HIDE DEF outer
<1>5. DOMAIN m.boundaries = outer
  BY <1>3
<1>6. ASSUME NEW f \in outer, NEW u, AncestorsTo(f.cell, 0, u), u[0] \in owned
      PROVE  m.boundaries[f] = SideOf(f)
  <2>1. u[0] = f.cell
    BY <1>6 DEF AncestorsTo
  <2> QED
    BY <1>3, <1>4, <1>6, <2>1
<1> QED
  BY <1>2, <1>5, <1>6 DEF HasEdges, SidesBy, m, outer

\* A child at the edge of the domain inherits the id of its parent's face,
\* which is on the same edge.
ComesFrom(fine, m, f, g) ==
  /\ g \in DOMAIN m.boundaries /\ fine.boundaries[f] = m.boundaries[g]
  /\ g.cell = Mesh!Parent(f.cell) /\ SideOf(g) = SideOf(f)
LEMMA RefinedEdges ==
  ASSUME NEW m, HasEdges(m)
  PROVE  /\ HasEdges(Mesh!Refined(m))
         /\ \A f \in DOMAIN Mesh!Refined(m).boundaries :
              ComesFrom(Mesh!Refined(m), m, f, Mesh!ParentFace(f))
<1> DEFINE fine == Mesh!Refined(m)
           n == m.n_cells
           twice == [i \in DOMAIN n |-> 2 * n[i]]
           cells == {c \in Mesh!Grid(twice) : Mesh!Parent(c) \in DOMAIN m.materials}
<1>1. PICK dim \in 1..3 : n \in SizesOf(dim)
  BY DEF MeshSizes, HasEdges
<1>2. /\ fine.n_cells = twice /\ DOMAIN fine.materials = cells
      /\ fine.boundaries = [f \in Mesh!OuterFaces(cells, twice) |-> m.boundaries[Mesh!ParentFace(f)]]
  BY DEF Mesh!Refined
<1> HIDE DEF fine, n
<1>3. twice \in SizesOf(dim) /\ \A i \in 1..dim : twice[i] = 2 * n[i]
  <2>1. DOMAIN n = 1..dim /\ \A i \in 1..dim : n[i] \in Nat \ {0}
    BY <1>1 DEF SizesOf
  <2>2. \A i \in 1..dim : 2 * n[i] \in Nat \ {0}
    BY <2>1
  <2> QED
    BY <2>1, <2>2 DEF SizesOf
<1> HIDE DEF twice
<1>4. ASSUME NEW f \in Mesh!OuterFaces(cells, twice)
      PROVE  ComesFrom(fine, m, f, Mesh!ParentFace(f))
  <2> DEFINE g == Mesh!ParentFace(f)
             c == f.cell
             a == f.axis
             s == f.side
  <2>1. /\ f = [cell |-> c, axis |-> a, side |-> s]
        /\ c \in cells /\ a \in 1..dim /\ s \in {0, 1}
        /\ c[a] = IF s = 0 THEN 0 ELSE twice[a] - 1
    <3>1. cells \in CellSets(twice)
      BY DEF CellSets
    <3> HIDE DEF cells
    <3> QED
      BY <1>3, <3>1, PartsOfFace
  <2>2. c \in [1..dim -> Nat] /\ Mesh!Parent(c) \in DOMAIN m.materials
    <3>1. c \in Mesh!Grid(twice)
      BY <2>1
    <3> HIDE DEF c
    <3>2. c \in [1..dim -> Nat]
      BY <1>3, <3>1, CellOfGrid
    <3> QED
      BY <2>1, <3>2
  <2> HIDE DEF cells, c, a, s
  <2>3. g = [cell |-> Mesh!Parent(c), axis |-> a, side |-> s]
    BY <2>1 DEF Mesh!ParentFace
  <2>4. Mesh!Parent(c)[a] = c[a] \div 2
    BY <2>1, <2>2 DEF Mesh!Parent
  <2>5. c[a] \div 2 = IF s = 0 THEN 0 ELSE n[a] - 1
    <3>1. n[a] \in Nat \ {0} /\ twice[a] = 2 * n[a]
      BY <1>1, <1>3, <2>1 DEF SizesOf
    <3>2. (2 * n[a] - 1) \div 2 = n[a] - 1
      BY <3>1
    <3>3. 0 \div 2 = 0
      OBVIOUS
    <3> QED
      BY <2>1, <3>1, <3>2, <3>3
  <2>6. DOMAIN m.materials \in CellSets(n)
    BY DEF HasEdges, CellSets, n
  <2> HIDE DEF g
  <2>7. g.cell = Mesh!Parent(c) /\ g.axis = a /\ g.side = s
    BY <2>3
  <2>8. /\ g = [cell |-> g.cell, axis |-> g.axis, side |-> g.side]
        /\ g.cell \in DOMAIN m.materials /\ g.axis \in 1..dim /\ g.side \in {0, 1}
        /\ g.cell[g.axis] = IF g.side = 0 THEN 0 ELSE n[g.axis] - 1
    BY <2>1, <2>2, <2>3, <2>4, <2>5, <2>7
  <2>9. g \in Mesh!OuterFaces(DOMAIN m.materials, n)
    BY <1>1, <2>6, <2>8, FaceOf
  <2>10. g \in DOMAIN m.boundaries
    BY <2>9 DEF HasEdges, n
  <2>11. fine.boundaries[f] = m.boundaries[g]
    BY <1>2 DEF g, cells
  <2>12. SideOf(g) = SideOf(f) /\ g.cell = Mesh!Parent(f.cell)
    BY <2>7 DEF SideOf, a, s, c
  <2> QED
    BY <2>10, <2>11, <2>12 DEF ComesFrom, g
<1> HIDE DEF cells
<1>5. DOMAIN fine.boundaries = Mesh!OuterFaces(cells, twice)
  BY <1>2
<1>6. cells \subseteq Mesh!Grid(twice) /\ twice \in MeshSizes
  BY <1>3 DEF cells, MeshSizes
<1>7. HasEdges(fine)
  BY <1>2, <1>5, <1>6 DEF HasEdges
<1>8. \A f \in DOMAIN fine.boundaries : ComesFrom(fine, m, f, Mesh!ParentFace(f))
  BY <1>4, <1>5
<1> QED
  BY <1>7, <1>8 DEF fine

\* So a refinement keeps the sides of what was owned before all of them.
LEMMA RefinedSides ==
  ASSUME NEW m, HasEdges(m), NEW owned, NEW r \in Nat \ {0}, SidesBy(m, r - 1, owned)
  PROVE  SidesBy(Mesh!Refined(m), r, owned)
<1> DEFINE fine == Mesh!Refined(m)
<1> SUFFICES ASSUME NEW f \in DOMAIN fine.boundaries, NEW u,
                    AncestorsTo(f.cell, r, u), u[r] \in owned
             PROVE  fine.boundaries[f] = SideOf(f)
  BY DEF SidesBy
<1> DEFINE g == Mesh!ParentFace(f)
           v == [i \in 0..(r - 1) |-> u[i + 1]]
<1>1. ComesFrom(fine, m, f, g)
  BY RefinedEdges
<1> HIDE DEF fine, g
<1>2. ASSUME NEW i \in 0..(r - 1)
      PROVE  v[i] = IF i = 0 THEN g.cell ELSE Mesh!Parent(v[i - 1])
  <2>1. i + 1 \in 0..r /\ i + 1 # 0 /\ (i + 1) - 1 = i
    OBVIOUS
  <2>2. u[i + 1] = Mesh!Parent(u[i])
    BY <2>1 DEF AncestorsTo
  <2>3. CASE i = 0
    <3>1. u[0] = f.cell
      BY DEF AncestorsTo
    <3> QED
      BY <1>1, <2>2, <2>3, <3>1 DEF ComesFrom
  <2>4. CASE i # 0
    <3>1. i - 1 \in 0..(r - 1) /\ (i - 1) + 1 = i
      BY <2>4
    <3>2. v[i - 1] = u[i] /\ v[i] = u[i + 1]
      BY <3>1
    <3> QED
      BY <2>2, <2>4, <3>2
  <2> QED
    BY <2>3, <2>4
<1>3. AncestorsTo(g.cell, r - 1, v)
  BY <1>2 DEF AncestorsTo
<1>4. v[r - 1] = u[r]
  <2>1. r - 1 \in 0..(r - 1) /\ (r - 1) + 1 = r
    OBVIOUS
  <2> QED
    BY <2>1
<1> HIDE DEF v
<1>5. m.boundaries[g] = SideOf(g)
  BY <1>1, <1>3, <1>4 DEF SidesBy, ComesFrom
<1> QED
  BY <1>1, <1>5 DEF ComesFrom

\* The meshes refine_global goes through.
RefinedTo(coarse, N, f) ==
  f = [r \in 0..N |-> IF r = 0 THEN coarse ELSE Mesh!Refined(f[r - 1])]

\* There is such a sequence of meshes.
LEMMA RefinementsExist ==
  ASSUME NEW coarse, NEW N \in Nat
  PROVE  \E f : RefinedTo(coarse, N, f)
<1> DEFINE S == {n \in 0..N : \E f : RefinedTo(coarse, n, f)}
<1>1. 0 \in S
  <2> DEFINE f == [n \in 0..0 |-> coarse]
  <2>1. RefinedTo(coarse, 0, f)
    BY DEF RefinedTo
  <2> QED
    BY <2>1
<1>2. ASSUME NEW n \in 1..N, n - 1 \in S PROVE n \in S
  <2>1. PICK f : RefinedTo(coarse, n - 1, f)
    BY <1>2
  <2> DEFINE last == Mesh!Refined(f[n - 1])
             g == [i \in 0..n |-> IF i = n THEN last ELSE f[i]]
  <2> HIDE DEF last
  <2>2. ASSUME NEW i \in 0..n
        PROVE  g[i] = IF i = 0 THEN coarse ELSE Mesh!Refined(g[i - 1])
    <3>1. CASE i = n
      BY <3>1 DEF last
    <3>2. CASE i # n
      <4>1. i \in 0..n-1 /\ g[i] = f[i] /\ (i # 0 => g[i - 1] = f[i - 1])
        BY <3>2
      <4>2. f[i] = IF i = 0 THEN coarse ELSE Mesh!Refined(f[i - 1])
        BY <2>1, <4>1 DEF RefinedTo
      <4> QED
        BY <4>1, <4>2
    <3> QED
      BY <3>1, <3>2
  <2>3. RefinedTo(coarse, n, g)
    BY <2>2 DEF RefinedTo
  <2> QED
    BY <2>3
<1> HIDE DEF S
<1>3. N \in S
  BY <1>1, <1>2, InductionTo
<1> QED
  BY <1>3 DEF S

\* The cells of the coarse mesh a process owns.
Owned(who, n) == Mesh!Share(who, Mesh!Grid(n), n)

\* SetUpMesh is the last mesh of such a sequence.
LEMMA MeshIs ==
  ASSUME NEW the_map, NEW n, NEW who, NEW R \in Nat
  PROVE  \E f : /\ RefinedTo(CoarseMesh(the_map, n, Owned(who, n)), R, f)
                /\ Mesh!SetUpMesh(the_map, n, who, R) = f[R]
<1> DEFINE coarse == CoarseMesh(the_map, n, Owned(who, n))
           f == CHOOSE f : RefinedTo(coarse, R, f)
<1>1. RefinedTo(coarse, R, f)
  <2> HIDE DEF coarse
  <2>1. \E g : RefinedTo(coarse, R, g)
    BY RefinementsExist
  <2> QED
    BY <2>1
<1>2. Mesh!SetUpMesh(the_map, n, who, R) = f[R]
  BY DEF Mesh!SetUpMesh, RefinedTo, CoarseMesh, Owned
<1> HIDE DEF f
<1> QED
  BY <1>1, <1>2

\* SetUpMesh keeps the sides of what the process owned, however often it refines.
LEMMA MeshKnowsSides ==
  ASSUME NEW n \in MeshSizes, NEW who, NEW the_map, NEW R \in Nat
  PROVE  /\ HasEdges(Mesh!SetUpMesh(the_map, n, who, R))
         /\ SidesBy(Mesh!SetUpMesh(the_map, n, who, R), R, Owned(who, n))
<1> DEFINE owned == Owned(who, n)
           coarse == CoarseMesh(the_map, n, owned)
<1>1. PICK f : RefinedTo(coarse, R, f) /\ Mesh!SetUpMesh(the_map, n, who, R) = f[R]
  BY MeshIs
<1>2. owned \in CellSets(n)
  BY DEF Owned, Mesh!Share, CellSets
<1> HIDE DEF coarse, owned
<1> DEFINE S == {r \in 0..R : HasEdges(f[r]) /\ SidesBy(f[r], r, owned)}
<1>3. 0 \in S
  <2>1. f[0] = coarse
    BY <1>1 DEF RefinedTo
  <2> QED
    BY <1>2, <2>1, CoarseSides DEF coarse
<1>4. ASSUME NEW r \in 1..R, r - 1 \in S PROVE r \in S
  <2>1. f[r] = Mesh!Refined(f[r - 1])
    BY <1>1 DEF RefinedTo
  <2>2. HasEdges(f[r - 1]) /\ SidesBy(f[r - 1], r - 1, owned)
    BY <1>4
  <2>3. HasEdges(f[r])
    BY <2>1, <2>2, RefinedEdges
  <2>4. SidesBy(f[r], r, owned)
    BY <2>1, <2>2, RefinedSides
  <2> QED
    BY <2>3, <2>4
<1> HIDE DEF S
<1>5. R \in S
  BY <1>3, <1>4, InductionTo
<1> QED
  BY <1>1, <1>5 DEF S, owned

\* Reading a list of cells ends within the list.
LEMMA ListIsRead ==
  ASSUME NEW list \in Seq([value : Int, separator : STRING])
  PROVE  ReadUpTo(list) \in 0..Len(list)
<1> DEFINE stops == {i \in DOMAIN list : list[i].separator = " ,"}
<1>0. Len(list) \in Nat /\ DOMAIN list = 1..Len(list)
  OBVIOUS
<1>1. CASE stops = {}
  <2>1. ReadUpTo(list) = Len(list)
    BY <1>1 DEF ReadUpTo
  <2> QED
    BY <1>0, <2>1
<1>2. CASE stops # {}
  <2>1. stops \in SUBSET Nat /\ stops \subseteq 1..Len(list)
    <3> DEFINE length == Len(list)
    <3>1. length \in Nat /\ \A k \in stops : k \in 1..length
      BY <1>0
    <3> HIDE DEF length, stops
    <3>2. \A k \in stops : k \in Nat
      BY <3>1
    <3> QED
      BY <3>1, <3>2 DEF length
  <2> HIDE DEF stops
  <2>2. \E n \in stops : \A m \in stops : n <= m
    BY <1>2, <2>1, LeastNumber
  <2>3. Min(stops) \in stops
    BY <2>2 DEF Min
  <2>4. Min(stops) - 1 \in 0..Len(list)
    <3> DEFINE length == Len(list)
               first == Min(stops)
    <3>1. length \in Nat /\ first \in 1..length
      BY <1>0, <2>1, <2>3
    <3> HIDE DEF length, first
    <3>2. first - 1 \in 0..length
      BY <3>1
    <3> QED
      BY <3>2 DEF length, first
  <2>5. ReadUpTo(list) = Min(stops) - 1
    BY <1>2 DEF ReadUpTo, stops
  <2> QED
    BY <2>4, <2>5
<1> QED
  BY <1>1, <1>2

\* A mesh that is not refused has at least a cell in every direction.
LEMMA AcceptedSizes ==
  ASSUME NEW i \in ParsedInputs, NEW spatial_max,
         Mesh!MeshError(i.dimension, spatial_max, i.n_cells) = "none"
  PROVE  i.n_cells \in SizesOf(i.dimension) /\ i.refinements \in Nat
<1>1. PICK file \in InputFiles : PatternsMatch(Entries(file)) /\ i = Parse(Entries(file))
  BY DEF ParsedInputs
<1> DEFINE e == Entries(file)
           list == e.n_cells
<1>2. {"n_cells", "refinements"} \subseteq DOMAIN e
  BY DeclaredEntries
<1>3. e["refinements"] \in Int
  BY SetUpAssumption
<1>4. list \in Seq([value : Int, separator : STRING])
  BY SetUpAssumption
<1> HIDE DEF e
<1>5. i.n_cells = ParseDealiiIntList(list) /\ i.refinements = e.refinements
  BY <1>1, <1>2 DEF Parse, e
<1>6. e.refinements >= 0
  BY <1>1 DEF PatternsMatch, IntegersMatch, e
<1> HIDE DEF list
<1>7. ReadUpTo(list) \in 0..Len(list)
  BY <1>4, ListIsRead
<1>8. i.n_cells = [k \in 1..ReadUpTo(list) |-> list[k].value]
  BY <1>5 DEF ParseDealiiIntList, ParseDealiiList
<1>9. Len(i.n_cells) = ReadUpTo(list)
  BY <1>7, <1>8
<1>10. \A k \in 1..ReadUpTo(list) : i.n_cells[k] \in Int
  <2>1. ASSUME NEW k \in 1..Len(list) PROVE list[k].value \in Int
    <3> DEFINE entries == [value : Int, separator : STRING]
    <3>1. list \in Seq(entries)
      BY <1>4
    <3> HIDE DEF entries
    <3>2. list[k] \in entries
      BY <3>1
    <3> QED
      BY <3>2 DEF entries
  <2>2. Len(list) \in Nat
    BY <1>4
  <2> QED
    BY <1>7, <1>8, <2>1, <2>2
<1>11. /\ Len(i.n_cells) = i.dimension
       /\ ~\E k \in DOMAIN i.n_cells : i.n_cells[k] <= 0
  BY DEF Mesh!MeshError
<1>12. i.n_cells \in SizesOf(i.dimension)
  <2> DEFINE cells == i.n_cells
             dim == i.dimension
  <2>1. ReadUpTo(list) = dim
    BY <1>9, <1>11
  <2>2. cells = [k \in 1..dim |-> list[k].value]
    BY <1>8, <2>1
  <2>3. \A k \in 1..dim : cells[k] \in Int /\ ~(cells[k] <= 0)
    BY <1>10, <1>11, <2>1, <2>2
  <2> HIDE DEF cells, dim
  <2>4. \A k \in 1..dim : cells[k] \in Nat \ {0}
    BY <2>3
  <2>5. cells = [k \in 1..dim |-> cells[k]]
    BY <2>2
  <2>6. cells \in SizesOf(dim)
    BY <2>4, <2>5 DEF SizesOf
  <2> QED
    BY <2>6 DEF cells, dim
<1>13. i.refinements \in Nat
  <2>1. e.refinements \in Int
    BY <1>3
  <2> QED
    BY <1>5, <1>6, <2>1
<1> QED
  BY <1>12, <1>13

-----------------------------------------------------------------------------
(***************************************************************************)
(* The text of a material map and the mapping that is made of it.          *)
(***************************************************************************)
\* Multiplying by a positive number keeps the order of numbers.
LEMMA ProductGrows ==
  ASSUME NEW N \in Nat \ {0}, NEW a \in Int, NEW b \in Int
  PROVE  (a < b) <=> (N * a < N * b)
OBVIOUS

\* The entry of the map over the centre of a cell is the one
\* GetMaterialIDLocation computes, and is an entry.
LEMMA EntryIsIndex ==
  ASSUME NEW c \in Nat, NEW n \in Nat, c < n, NEW m \in Nat \ {0}
  PROVE  /\ EntryAt(c, n, m) \in 1..m
         /\ Mesh!RelativeIndex(<<2 * c + 1, 2 * n>>, m) = EntryAt(c, n, m) - 1
<1> DEFINE N == 2 * n
           place == (2 * c + 1) * m
           index == place \div N
           e == IF index * N = place THEN index ELSE index + 1
           Falls(x) == N * (x - 1) < place /\ place <= N * x
<1>1. N \in Nat \ {0} /\ place \in Nat \ {0}
  <2>1. (2 * c + 1) * m \in Nat
    OBVIOUS
  <2>2. (2 * c + 1) * m > 0
    OBVIOUS
  <2> QED
    BY <2>1, <2>2
<1>2. place < N * m
  <2>1. 2 * c + 1 < 2 * n
    OBVIOUS
  <2>2. m * (2 * c + 1) < m * (2 * n)
    BY <2>1, ProductGrows
  <2> QED
    BY <2>2
<1>3. EntryAt(c, n, m) = CHOOSE x \in 1..m : Falls(x)
  BY DEF EntryAt
<1>4. Mesh!RelativeIndex(<<2 * c + 1, 2 * n>>, m)
        = IF index * N = place /\ index # 0 THEN index - 1 ELSE index
  BY DEF Mesh!RelativeIndex
<1> HIDE DEF N, place
<1>5. index \in Nat /\ N * index <= place /\ place < N * (index + 1)
  BY <1>1
<1> HIDE DEF index
<1>6. Falls(e) /\ e \in 1..m
  <2>1. CASE index * N = place
    <3>1. e = index /\ N * index = place
      BY <1>1, <1>5, <2>1
    <3>2. index < m
      BY <1>1, <1>2, <1>5, <3>1, ProductGrows
    <3>3. index # 0
      BY <1>1, <3>1
    <3>4. N * (index - 1) < N * index
      BY <1>1, <1>5, ProductGrows
    <3> QED
      BY <1>1, <1>5, <3>1, <3>2, <3>3, <3>4
  <2>2. CASE index * N # place
    <3>1. e = index + 1 /\ N * index # place
      BY <1>1, <1>5, <2>2
    <3>2. N * index < place /\ N * index \in Int
      BY <1>1, <1>5, <3>1
    <3>3. N * index < N * m
      BY <1>1, <1>2, <1>5, <3>2
    <3>4. index < m
      BY <1>1, <1>5, <3>3, ProductGrows
    <3>5. e - 1 = index
      BY <1>5, <3>1
    <3> QED
      BY <1>1, <1>5, <3>1, <3>2, <3>4, <3>5
  <2> QED
    BY <2>1, <2>2
<1>7. ASSUME NEW x \in 1..m, Falls(x) PROVE x = e
  <2>1. x \in Int /\ e \in Int
    BY <1>6
  <2> DEFINE d == e
  <2>2. N * (x - 1) < place /\ place <= N * x /\ N * (d - 1) < place /\ place <= N * d
    BY <1>6, <1>7
  <2> HIDE DEF d, e
  <2>3. d \in Int
    BY <2>1 DEF d
  <2>4. N * (x - 1) < N * d /\ N * (d - 1) < N * x
    BY <1>1, <2>1, <2>2, <2>3
  <2>5. x - 1 < d /\ d - 1 < x
    BY <1>1, <2>1, <2>3, <2>4, ProductGrows
  <2> QED
    BY <2>1, <2>3, <2>5 DEF d
<1>8. EntryAt(c, n, m) = e
  <2> HIDE DEF e, Falls
  <2>1. \E x \in 1..m : Falls(x)
    BY <1>6
  <2> QED
    BY <1>3, <1>7, <2>1
<1>9. (IF index * N = place /\ index # 0 THEN index - 1 ELSE index) = e - 1
  BY <1>1, <1>5
<1> QED
  BY <1>4, <1>6, <1>8, <1>9

\* What a material map file holds.
WrittenMaps == Seq(Seq(Seq(Nat)))
\* The numbers of entries, lines and blocks of a map.
Extents(text) == <<Len(Head(Head(text))), Len(Head(text)), Len(text)>>
\* The lines and blocks as ParseMaterialMap turns them.
UpsideDown(text) == Mesh!Reverse([k \in DOMAIN text |-> Mesh!Reverse(text[k])])

\* A line of a rectangular map has as many entries as every other.
LEMMA RectangularText ==
  ASSUME NEW text \in WrittenMaps, IsRectangular(text), NEW k \in 1..Len(text)
  PROVE  /\ text[k] \in Seq(Seq(Nat)) /\ Len(text[k]) = Extents(text)[2]
         /\ \A j \in 1..Extents(text)[2] :
              text[k][j] \in Seq(Nat) /\ Len(text[k][j]) = Extents(text)[1]
         /\ text[k] \in Mesh!Range(text)
<1> DEFINE blocks == Seq(Seq(Nat))
<1>1. text \in Seq(blocks)
  BY DEF WrittenMaps
<1> HIDE DEF blocks
<1>2. k \in DOMAIN text /\ text[k] \in blocks
  BY <1>1
<1>3. text[k] \in Range(text) /\ text[k] \in Mesh!Range(text)
  BY <1>2 DEF Range, Mesh!Range
<1>4. /\ Len(text[k]) = Len(Head(text))
      /\ \A l \in Range(text[k]) : Len(l) = Len(Head(Head(text)))
  BY <1>3 DEF IsRectangular
<1>5. Extents(text)[1] = Len(Head(Head(text))) /\ Extents(text)[2] = Len(Head(text))
  BY DEF Extents
<1>6. ASSUME NEW j \in 1..Extents(text)[2]
      PROVE  text[k][j] \in Seq(Nat) /\ Len(text[k][j]) = Extents(text)[1]
  <2> DEFINE lines == Seq(Nat)
             b == text[k]
  <2>1. b \in Seq(lines)
    BY <1>2 DEF blocks
  <2> HIDE DEF lines, b
  <2>2. j \in 1..Len(b)
    BY <1>4, <1>5, <1>6 DEF b
  <2>3. j \in DOMAIN b /\ b[j] \in lines
    BY <2>1, <2>2
  <2>4. b[j] \in Range(b)
    BY <2>3 DEF Range
  <2> QED
    BY <1>4, <1>5, <2>3, <2>4 DEF b, lines
<1> QED
  BY <1>2, <1>3, <1>4, <1>5, <1>6 DEF blocks

\* The entries of a map that was turned upside down.
LEMMA TurnedText ==
  ASSUME NEW text \in WrittenMaps, IsRectangular(text), NEW k \in 1..Len(text)
  PROVE  LET X == Extents(text)[1]
             Y == Extents(text)[2]
             Z == Len(text)
             blocks == UpsideDown(text)
         IN  /\ DOMAIN blocks = 1..Z /\ DOMAIN blocks[k] = 1..Y
             /\ \A j \in 1..Y : /\ DOMAIN blocks[k][j] = 1..X
                                /\ \A i \in 1..X :
                                     blocks[k][j][i] = text[Z + 1 - k][Y + 1 - j][i]
<1> DEFINE X == Extents(text)[1]
           Y == Extents(text)[2]
           Z == Len(text)
           blocks == UpsideDown(text)
           h == Z - k + 1
           turned == [m \in DOMAIN text |-> Mesh!Reverse(text[m])]
<1>1. Z \in Nat /\ DOMAIN text = 1..Z /\ h \in 1..Z /\ h = Z + 1 - k
  BY DEF WrittenMaps
<1>2. Len(turned) = Z
  <2>1. DOMAIN turned = 1..Z
    BY <1>1
  <2> HIDE DEF turned, Z
  <2> QED
    BY <1>1, <2>1
<1>3. blocks = [m \in 1..Z |-> turned[Z - m + 1]]
  <2>1. blocks = Mesh!Reverse(turned)
    BY DEF UpsideDown
  <2> HIDE DEF blocks, turned
  <2> QED
    BY <1>2, <2>1 DEF Mesh!Reverse
<1>4. blocks[k] = Mesh!Reverse(text[h])
  BY <1>1, <1>3
<1>5. DOMAIN blocks = 1..Z
  BY <1>3
<1> HIDE DEF blocks, turned, h
<1>6. /\ text[h] \in Seq(Seq(Nat)) /\ Len(text[h]) = Y
      /\ \A j \in 1..Y : text[h][j] \in Seq(Nat) /\ Len(text[h][j]) = X
  <2> HIDE DEF X, Y
  <2> QED
    BY <1>1, RectangularText DEF X, Y
<1>7. blocks[k] = [j \in 1..Y |-> text[h][Y - j + 1]]
  BY <1>4, <1>6 DEF Mesh!Reverse
<1>8. Y \in Nat
  BY <1>6
<1> HIDE DEF X, Y
<1>9. ASSUME NEW j \in 1..Y
      PROVE  /\ DOMAIN blocks[k][j] = 1..X
             /\ \A i \in 1..X : blocks[k][j][i] = text[h][Y + 1 - j][i]
  <2>1. Y - j + 1 \in 1..Y /\ Y - j + 1 = Y + 1 - j
    BY <1>8
  <2>2. blocks[k][j] = text[h][Y + 1 - j]
    BY <1>7, <2>1
  <2>3. text[h][Y + 1 - j] \in Seq(Nat) /\ Len(text[h][Y + 1 - j]) = X
    BY <1>6, <2>1
  <2> QED
    BY <2>2, <2>3
<1> QED
  BY <1>1, <1>5, <1>7, <1>9 DEF X, Y, blocks, Z

\* The maximum of one number.
LEMMA MaxOfOne ==
  ASSUME NEW n \in Nat
  PROVE  Mesh!Max({n}) = n
<1>1. \A m : m \in {n} /\ (\A y \in {n} : m >= y) <=> m = n
  OBVIOUS
<1> QED
  BY <1>1 DEF Mesh!Max

\* written, of module CartesianMesh's MaterialMapping
WrittenPlaces(text) ==
  {p \in Mesh!PlacesOf(text) :
     p[2] \in DOMAIN UpsideDown(text)[p[1]] /\ p[3] \in DOMAIN UpsideDown(text)[p[1]][p[2]]}

\* A rectangular map with an entry has them all.
LEMMA RectangularPlaces ==
  ASSUME NEW text \in WrittenMaps, IsRectangular(text), WrittenPlaces(text) # {}
  PROVE  /\ Extents(text) \in [1..3 -> Nat \ {0}]
         /\ WrittenPlaces(text)
              = {<<k, j, i>> : k \in 1..Extents(text)[3], j \in 1..Extents(text)[2],
                               i \in 1..Extents(text)[1]}
<1> DEFINE X == Extents(text)[1]
           Y == Extents(text)[2]
           Z == Len(text)
           blocks == UpsideDown(text)
           lengths == {Len(b) : b \in Mesh!Range(text)}
           lines == UNION {Mesh!Range(b) : b \in Mesh!Range(text)}
           widths == {Len(l) : l \in lines}
           written == WrittenPlaces(text)
<1>1. Z \in Nat /\ DOMAIN text = 1..Z /\ Z = Extents(text)[3]
  BY DEF WrittenMaps, Extents
<1>2. Mesh!PlacesOf(text) = {<<k, j, i>> : k \in DOMAIN text, j \in 1..Mesh!Max(lengths),
                                           i \in 1..Mesh!Max(widths)}
  BY DEF Mesh!PlacesOf
<1>3. PICK p \in Mesh!PlacesOf(text) : p[2] \in DOMAIN blocks[p[1]] /\ p[3] \in DOMAIN blocks[p[1]][p[2]]
  BY DEF WrittenPlaces
<1> HIDE DEF blocks, lengths, widths, lines
<1>4. p[1] \in 1..Z
  <2>1. p[1] \in DOMAIN text
    BY <1>2, <1>3
  <2> QED
    BY <1>1, <2>1
<1>5. \A k \in 1..Z : /\ DOMAIN blocks[k] = 1..Y
                      /\ \A j \in 1..Y : DOMAIN blocks[k][j] = 1..X
  BY TurnedText DEF blocks
<1>6. p[2] \in 1..Y /\ p[3] \in 1..X
  BY <1>3, <1>4, <1>5
<1>7. \A k \in 1..Z : /\ text[k] \in Seq(Seq(Nat)) /\ Len(text[k]) = Y
                      /\ \A j \in 1..Y : text[k][j] \in Seq(Nat) /\ Len(text[k][j]) = X
                      /\ text[k] \in Mesh!Range(text)
  BY RectangularText
<1>8. X \in Nat /\ Y \in Nat
  <2> HIDE DEF X, Y
  <2>1. Y \in Nat
    BY <1>4, <1>7
  <2>2. X \in Nat
    BY <1>4, <1>6, <1>7
  <2> QED
    BY <2>1, <2>2
<1>9. X # 0 /\ Y # 0 /\ Z # 0
  BY <1>1, <1>4, <1>6, <1>8
<1> HIDE DEF X, Y
<1>10. \A b \in Mesh!Range(text) : \E k \in 1..Z : b = text[k]
  BY <1>1 DEF Mesh!Range
<1>11. lengths = {Y}
  <2>1. \A b \in Mesh!Range(text) : Len(b) = Y
    BY <1>7, <1>10
  <2>2. \E b \in Mesh!Range(text) : Len(b) = Y
    BY <1>4, <1>7
  <2> QED
    BY <2>1, <2>2 DEF lengths
<1>12. widths = {X}
  <2>1. ASSUME NEW l \in lines PROVE Len(l) = X
    <3>1. PICK k \in 1..Z : l \in Mesh!Range(text[k])
      BY <1>10, <2>1 DEF lines
    <3>2. DOMAIN text[k] = 1..Y
      BY <1>7
    <3>3. PICK j \in 1..Y : l = text[k][j]
      BY <3>1, <3>2 DEF Mesh!Range
    <3> QED
      BY <1>7, <3>3
  <2>2. \E l \in lines : Len(l) = X
    <3>1. DOMAIN text[p[1]] = 1..Y
      BY <1>4, <1>7
    <3>2. text[p[1]][p[2]] \in Mesh!Range(text[p[1]])
      BY <1>6, <3>1 DEF Mesh!Range
    <3>3. text[p[1]][p[2]] \in lines
      BY <1>4, <1>7, <3>2 DEF lines
    <3> QED
      BY <1>4, <1>6, <1>7, <3>3
  <2> QED
    BY <2>1, <2>2 DEF widths
<1>13. Mesh!PlacesOf(text) = {<<k, j, i>> : k \in 1..Z, j \in 1..Y, i \in 1..X}
  <2>1. Mesh!Max(lengths) = Y /\ Mesh!Max(widths) = X
    BY <1>8, <1>11, <1>12, MaxOfOne
  <2> DEFINE height == Mesh!Max(lengths)
             width == Mesh!Max(widths)
             rows == DOMAIN text
  <2> HIDE DEF height, width, rows, Z
  <2>2. Mesh!PlacesOf(text) = {<<k, j, i>> : k \in rows, j \in 1..height, i \in 1..width}
    BY <1>2 DEF height, width, rows
  <2>3. height = Y /\ width = X /\ rows = 1..Z
    BY <1>1, <2>1 DEF height, width, rows
  <2> QED
    BY <2>2, <2>3
<1>14. written = {<<k, j, i>> : k \in 1..Z, j \in 1..Y, i \in 1..X}
  <2>1. written = {q \in Mesh!PlacesOf(text) : q[2] \in DOMAIN blocks[q[1]] /\ q[3] \in DOMAIN blocks[q[1]][q[2]]}
    BY DEF WrittenPlaces, blocks
  <2>2. \A q \in Mesh!PlacesOf(text) : q[1] \in 1..Z /\ q[2] \in 1..Y /\ q[3] \in 1..X
    BY <1>13
  <2>3. \A q \in Mesh!PlacesOf(text) : q[2] \in DOMAIN blocks[q[1]] /\ q[3] \in DOMAIN blocks[q[1]][q[2]]
    BY <1>5, <2>2
  <2>4. written = Mesh!PlacesOf(text)
    BY <2>1, <2>3
  <2> QED
    BY <1>13, <2>4
<1>15. Extents(text) = <<X, Y, Z>>
  BY <1>1 DEF X, Y, Extents
<1>16. Extents(text) \in [1..3 -> Nat \ {0}]
  BY <1>1, <1>8, <1>9, <1>15
<1> QED
  BY <1>1, <1>14, <1>16 DEF X, Y

\* The place an entry is mapped to, with as many numbers as the mesh has.
PlaceAt(dim, p) == SubSeq(<<p[3] - 1, p[2] - 1, p[1] - 1>>, 1, dim)
\* The order in which the entries are read, later ones first.
Later(p, q) == p[1] > q[1] \/ (p[1] = q[1] /\ p[2] > q[2])

\* The numbers of a place.
LEMMA PlaceIs ==
  ASSUME NEW dim \in 1..3, NEW p
  PROVE  /\ PlaceAt(dim, p) = [a \in 1..dim |-> PlaceAt(dim, p)[a]]
         /\ PlaceAt(dim, p)[1] = p[3] - 1
         /\ dim >= 2 => PlaceAt(dim, p)[2] = p[2] - 1
         /\ dim >= 3 => PlaceAt(dim, p)[3] = p[1] - 1
<1>1. CASE dim = 1
  BY <1>1 DEF PlaceAt
<1>2. CASE dim = 2
  BY <1>2 DEF PlaceAt
<1>3. CASE dim = 3
  BY <1>3 DEF PlaceAt
<1> QED
  BY <1>1, <1>2, <1>3

\* The mapping holds, for a place, the entry that was read last.
LEMMA MappingOf ==
  ASSUME NEW dim, NEW text
  PROVE  Mesh!MaterialMapping(dim, text) =
           [place \in {PlaceAt(dim, p) : p \in WrittenPlaces(text)} |->
              LET same == {p \in WrittenPlaces(text) : PlaceAt(dim, p) = place}
                  last == CHOOSE p \in same : \A q \in same \ {p} : Later(p, q)
              IN  UpsideDown(text)[last[1]][last[2]][last[3]]]
BY DEF Mesh!MaterialMapping, WrittenPlaces, UpsideDown, PlaceAt, Later

\* In the directions the mesh does not have, the last block and line of the
\* turned map is the first of the file, and it is read last.
LEMMA MappedPlace ==
  ASSUME NEW text \in WrittenMaps, IsRectangular(text), NEW dim \in 1..3,
         WrittenPlaces(text) # {},
         NEW i \in 1..Extents(text)[1], NEW j \in 1..Extents(text)[2],
         NEW k \in 1..Extents(text)[3],
         dim < 2 => j = Extents(text)[2], dim < 3 => k = Extents(text)[3]
  PROVE  LET mapping == Mesh!MaterialMapping(dim, text)
             place == PlaceAt(dim, <<k, j, i>>)
         IN  /\ place \in DOMAIN mapping
             /\ mapping[place] = text[Extents(text)[3] + 1 - k][Extents(text)[2] + 1 - j][i]
<1> DEFINE X == Extents(text)[1]
           Y == Extents(text)[2]
           Z == Extents(text)[3]
           written == WrittenPlaces(text)
           place == PlaceAt(dim, <<k, j, i>>)
           same == {p \in written : PlaceAt(dim, p) = place}
           First(p) == \A q \in same \ {p} : Later(p, q)
           last == CHOOSE p \in same : First(p)
           blocks == UpsideDown(text)
           here == <<k, j, i>>
<1>1. Z = Len(text)
  BY DEF Extents
<1>2. /\ X \in Nat \ {0} /\ Y \in Nat \ {0} /\ Z \in Nat \ {0}
      /\ written = {<<z, y, x>> : z \in 1..Z, y \in 1..Y, x \in 1..X}
  <2>1. /\ Extents(text) \in [1..3 -> Nat \ {0}]
        /\ written = {<<z, y, x>> : z \in 1..Extents(text)[3], y \in 1..Extents(text)[2],
                                    x \in 1..Extents(text)[1]}
    BY RectangularPlaces
  <2> QED
    BY <2>1
<1>3. /\ blocks[k][j][i] = text[Z + 1 - k][Y + 1 - j][i]
  <2>1. k \in 1..Len(text)
    BY <1>1
  <2> HIDE DEF X, Y
  <2> QED
    BY <1>1, <2>1, TurnedText DEF X, Y
<1> HIDE DEF X, Y, Z, written, blocks
<1>4. i \in 1..X /\ j \in 1..Y /\ k \in 1..Z
  BY DEF X, Y, Z
<1>5. here \in written
  BY <1>2, <1>4
<1>6. here \in same
  BY <1>5
<1>7. ASSUME NEW q \in same
      PROVE  q = here \/ Later(here, q)
  <2>1. PICK z \in 1..Z, y \in 1..Y, x \in 1..X : q = <<z, y, x>>
    BY <1>2
  <2>2. PlaceAt(dim, q) = PlaceAt(dim, here)
    OBVIOUS
  <2> DEFINE there == PlaceAt(dim, q)
             home == PlaceAt(dim, here)
  <2>3. /\ there[1] = q[3] - 1
        /\ dim >= 2 => there[2] = q[2] - 1
        /\ dim >= 3 => there[3] = q[1] - 1
    BY PlaceIs
  <2>4. /\ home[1] = here[3] - 1
        /\ dim >= 2 => home[2] = here[2] - 1
        /\ dim >= 3 => home[3] = here[1] - 1
    BY PlaceIs
  <2>5. there = home
    BY <2>2
  <2> HIDE DEF there, home
  <2>6. x = i
    <3>1. x - 1 = i - 1
      BY <2>1, <2>3, <2>4, <2>5
    <3> QED
      BY <1>2, <1>4, <3>1
  <2>7. dim < 2 \/ y = j
    <3>1. dim >= 2 => y - 1 = j - 1
      BY <2>1, <2>3, <2>4, <2>5
    <3> QED
      BY <1>2, <1>4, <3>1
  <2>8. dim < 3 \/ z = k
    <3>1. dim >= 3 => z - 1 = k - 1
      BY <2>1, <2>3, <2>4, <2>5
    <3> QED
      BY <1>2, <1>4, <3>1
  <2>9. (dim < 2 => j = Y) /\ (dim < 3 => k = Z)
    BY DEF Y, Z
  <2>10. y <= j /\ z <= k
    BY <1>2, <1>4, <2>7, <2>8, <2>9
  <2>11. CASE y = j /\ z = k
    BY <2>1, <2>6, <2>11
  <2>12. CASE ~(y = j /\ z = k)
    <3>1. k > z \/ (k = z /\ j > y)
      BY <1>2, <1>4, <2>10, <2>12
    <3> QED
      BY <2>1, <3>1 DEF Later
  <2> QED
    BY <2>11, <2>12
<1>8. First(here)
  BY <1>7
<1>9. ASSUME NEW q \in same, First(q) PROVE q = here
  <2>1. SUFFICES ASSUME q # here PROVE FALSE
    OBVIOUS
  <2>2. Later(here, q)
    BY <1>7, <2>1
  <2>3. Later(q, here)
    BY <1>6, <1>9, <2>1
  <2>4. q[1] \in Int /\ q[2] \in Int
    BY <1>2
  <2> QED
    BY <1>2, <1>4, <2>2, <2>3, <2>4 DEF Later
<1>10. last = here
  <2> HIDE DEF here, First, same
  <2>1. \E q \in same : First(q)
    BY <1>6, <1>8
  <2> QED
    BY <1>9, <2>1
<1>11. /\ place \in DOMAIN Mesh!MaterialMapping(dim, text)
       /\ Mesh!MaterialMapping(dim, text)[place] = blocks[last[1]][last[2]][last[3]]
  <2>1. place \in {PlaceAt(dim, p) : p \in written}
    BY <1>5
  <2> QED
    BY <2>1, MappingOf DEF written, blocks
<1> HIDE DEF last, place
<1>12. last[1] = k /\ last[2] = j /\ last[3] = i
  BY <1>10
<1> QED
  BY <1>3, <1>11, <1>12 DEF X, Y, Z, place

-----------------------------------------------------------------------------
(***************************************************************************)
(* The materials of the mesh.                                              *)
(***************************************************************************)
\* The mesh divides its directions by the entries of the map.
LEMMA MaterialCellsAre ==
  ASSUME NEW dim \in 1..3, NEW text
  PROVE  \A a \in 1..dim : Mesh!MaterialCells(dim, text)[a] = Extents(text)[a]
<1>1. Mesh!MaterialCells(dim, text) = SubSeq(Extents(text), 1, dim)
  BY DEF Mesh!MaterialCells, Extents
<1>2. CASE dim = 1
  BY <1>1, <1>2 DEF Extents
<1>3. CASE dim = 2
  BY <1>1, <1>3 DEF Extents
<1>4. CASE dim = 3
  BY <1>1, <1>4 DEF Extents
<1> QED
  BY <1>2, <1>3, <1>4

\* The entry over a cell, in each direction of the map.
EntryOf(text, c, n, axis) ==
  IF axis > Len(c) THEN Extents(text)[axis] ELSE EntryAt(c[axis], n[axis], Extents(text)[axis])
\* What the map shows over a coarse cell.
Shown(text, c, n) ==
  text[Extents(text)[3] + 1 - EntryOf(text, c, n, 3)]
      [Extents(text)[2] + 1 - EntryOf(text, c, n, 2)][EntryOf(text, c, n, 1)]

\* GetMaterialID of the centre of a coarse cell is what the map shows.
LEMMA CoarseMaterial ==
  ASSUME NEW text \in WrittenMaps, IsRectangular(text), WrittenPlaces(text) # {},
         NEW dim \in 1..3, NEW n \in SizesOf(dim), NEW c \in Mesh!Grid(n)
  PROVE  Mesh!GetMaterialID(Mesh!ParseMaterialMap(dim, text), Mesh!Center(c, n))
           = Shown(text, c, n)
<1> DEFINE extent == Extents(text)
           e(axis) == EntryOf(text, c, n, axis)
           mapping == Mesh!MaterialMapping(dim, text)
           cells == Mesh!MaterialCells(dim, text)
           place == [a \in 1..dim |-> Mesh!RelativeIndex(<<2 * c[a] + 1, 2 * n[a]>>, cells[a])]
           there == PlaceAt(dim, <<e(3), e(2), e(1)>>)
<1>1. extent \in [1..3 -> Nat \ {0}]
  BY RectangularPlaces
<1>2. c \in [1..dim -> Nat] /\ \A a \in 1..dim : c[a] < n[a]
  BY CellOfGrid
<1>3. \A a \in 1..dim : n[a] \in Nat
  BY DEF SizesOf
<1>4. Len(c) = dim /\ DOMAIN c = 1..dim
  BY <1>2
<1>5. Mesh!GetMaterialID(Mesh!ParseMaterialMap(dim, text), Mesh!Center(c, n))
        = IF place \in DOMAIN mapping THEN mapping[place] ELSE 0
  <2> DEFINE location == Mesh!Center(c, n)
             the_map == Mesh!ParseMaterialMap(dim, text)
             sought == [a \in DOMAIN location |-> Mesh!RelativeIndex(location[a], the_map.n_material_cells[a])]
  <2>1. location = [a \in 1..dim |-> <<2 * c[a] + 1, 2 * n[a]>>]
    BY <1>4 DEF Mesh!Center
  <2>2. the_map.mapping = mapping /\ the_map.n_material_cells = cells
    BY DEF Mesh!ParseMaterialMap
  <2> HIDE DEF location, the_map, mapping, cells
  <2>3. sought = place
    BY <2>1, <2>2
  <2>4. Mesh!GetMaterialID(the_map, location)
          = IF sought \in DOMAIN the_map.mapping THEN the_map.mapping[sought] ELSE 0
    BY DEF Mesh!GetMaterialID
  <2> QED
    BY <2>2, <2>3, <2>4 DEF location, the_map
<1>6. ASSUME NEW a \in 1..dim
      PROVE  e(a) \in 1..extent[a] /\ place[a] = e(a) - 1
  <2>1. c[a] \in Nat /\ n[a] \in Nat /\ c[a] < n[a] /\ extent[a] \in Nat \ {0}
    BY <1>1, <1>2, <1>3
  <2>2. e(a) = EntryAt(c[a], n[a], extent[a])
    BY <1>4 DEF EntryOf
  <2>3. cells[a] = extent[a]
    BY MaterialCellsAre
  <2> HIDE DEF e, extent, cells
  <2> QED
    BY <2>1, <2>2, <2>3, EntryIsIndex
<1>7. ASSUME NEW a \in 1..3, a > dim
      PROVE  e(a) = extent[a]
  BY <1>4, <1>7 DEF EntryOf
<1>8. e(1) \in 1..extent[1] /\ e(2) \in 1..extent[2] /\ e(3) \in 1..extent[3]
  <2> HIDE DEF e, extent
  <2>1. ASSUME NEW a \in 1..3 PROVE e(a) \in 1..extent[a]
    <3>1. extent[a] \in Nat \ {0}
      BY <1>1
    <3>2. CASE a > dim
      <4>1. e(a) = extent[a]
        BY <1>7, <3>2
      <4> QED
        BY <3>1, <4>1
    <3>3. CASE a \in 1..dim
      BY <1>6, <3>3
    <3> QED
      BY <3>2, <3>3
  <2> QED
    BY <2>1
<1>9. (dim < 2 => e(2) = extent[2]) /\ (dim < 3 => e(3) = extent[3])
  <2> HIDE DEF e, extent
  <2> QED
    BY <1>7
<1>10. there \in DOMAIN mapping /\ mapping[there] = text[extent[3] + 1 - e(3)][extent[2] + 1 - e(2)][e(1)]
  <2> DEFINE i == e(1)
             j == e(2)
             k == e(3)
  <2>1. /\ i \in 1..Extents(text)[1] /\ j \in 1..Extents(text)[2] /\ k \in 1..Extents(text)[3]
        /\ dim < 2 => j = Extents(text)[2]
        /\ dim < 3 => k = Extents(text)[3]
    BY <1>8, <1>9
  <2> HIDE DEF i, j, k
  <2>2. /\ PlaceAt(dim, <<k, j, i>>) \in DOMAIN Mesh!MaterialMapping(dim, text)
        /\ Mesh!MaterialMapping(dim, text)[PlaceAt(dim, <<k, j, i>>)]
             = text[Extents(text)[3] + 1 - k][Extents(text)[2] + 1 - j][i]
    BY <2>1, MappedPlace
  <2> QED
    BY <2>2 DEF i, j, k
<1>11. place = there
  <2> HIDE DEF e
  <2>1. /\ there = [a \in 1..dim |-> there[a]]
        /\ there[1] = e(1) - 1
        /\ dim >= 2 => there[2] = e(2) - 1
        /\ dim >= 3 => there[3] = e(3) - 1
    <3> DEFINE p == <<e(3), e(2), e(1)>>
    <3>1. /\ PlaceAt(dim, p) = [a \in 1..dim |-> PlaceAt(dim, p)[a]]
          /\ PlaceAt(dim, p)[1] = p[3] - 1
          /\ dim >= 2 => PlaceAt(dim, p)[2] = p[2] - 1
          /\ dim >= 3 => PlaceAt(dim, p)[3] = p[1] - 1
      <4> HIDE DEF p
      <4> QED
        BY PlaceIs
    <3> QED
      BY <3>1
  <2> HIDE DEF there
  <2>2. ASSUME NEW a \in 1..dim PROVE there[a] = place[a]
    <3>1. place[a] = e(a) - 1
      BY <1>6
    <3>2. a = 1 \/ (dim >= 2 /\ a = 2) \/ (dim >= 3 /\ a = 3)
      OBVIOUS
    <3> QED
      BY <2>1, <3>1, <3>2
  <2>3. place = [a \in 1..dim |-> place[a]]
    OBVIOUS
  <2> HIDE DEF place
  <2>4. [a \in 1..dim |-> place[a]] = [a \in 1..dim |-> there[a]]
    BY <2>2
  <2> QED
    BY <2>1, <2>3, <2>4
<1> QED
  BY <1>5, <1>10, <1>11 DEF Shown

\* A refined cell has the material of the coarse cell it is part of, by
\* induction over the refinements.
LEMMA AncestorsMaterial ==
  ASSUME NEW coarse, NEW R \in Nat, NEW f, RefinedTo(coarse, R, f),
         NEW c \in DOMAIN f[R].materials, NEW u, AncestorsTo(c, R, u)
  PROVE  /\ u[R] \in DOMAIN coarse.materials
         /\ f[R].materials[c] = coarse.materials[u[R]]
         /\ DOMAIN u[R] = DOMAIN c
<1> DEFINE Same(r) == /\ u[r] \in DOMAIN f[R - r].materials
                      /\ f[R].materials[c] = f[R - r].materials[u[r]]
                      /\ DOMAIN u[r] = DOMAIN c
           S == {r \in 0..R : Same(r)}
<1>1. 0 \in S
  <2>1. u[0] = c /\ R - 0 = R
    BY DEF AncestorsTo
  <2> QED
    BY <2>1
<1>2. ASSUME NEW r \in 1..R, r - 1 \in S PROVE r \in S
  <2> DEFINE fine == f[R - (r - 1)]
             before == f[R - r]
  <2>1. /\ u[r - 1] \in DOMAIN fine.materials
        /\ f[R].materials[c] = fine.materials[u[r - 1]]
        /\ DOMAIN u[r - 1] = DOMAIN c
    BY <1>2
  <2>2. u[r] = Mesh!Parent(u[r - 1])
    BY DEF AncestorsTo
  <2>3. fine = Mesh!Refined(before)
    <3>1. R - (r - 1) \in 1..R /\ R - (r - 1) - 1 = R - r
      OBVIOUS
    <3>2. f[R - (r - 1)] = Mesh!Refined(f[R - (r - 1) - 1])
      BY <3>1 DEF RefinedTo
    <3> QED
      BY <3>1, <3>2
  <2> HIDE DEF fine, before
  <2>4. /\ Mesh!Parent(u[r - 1]) \in DOMAIN before.materials
        /\ fine.materials[u[r - 1]] = before.materials[Mesh!Parent(u[r - 1])]
    BY <2>1, <2>3 DEF Mesh!Refined
  <2>5. DOMAIN Mesh!Parent(u[r - 1]) = DOMAIN u[r - 1]
    BY DEF Mesh!Parent
  <2>6. Same(r)
    BY <2>1, <2>2, <2>4, <2>5 DEF before
  <2> QED
    BY <2>6
<1> HIDE DEF S
<1>3. R \in S
  BY <1>1, <1>2, InductionTo
<1>4. R - R = 0 /\ f[0] = coarse
  BY DEF RefinedTo
<1> QED
  BY <1>3, <1>4 DEF S

\* The ids of a cell of the process after R refinements are its own: it owned
\* the coarse cell of the cell when the ids were set.
Keeps(who, dim, n, R, c) ==
  who = "only" \/ dim = 1 \/ R = 0 \/ CoarseCell(c, R) \in Owned(who, n)

\* They are the process's own wherever cells cannot move.
ComesFromCoarse(m, c, k, the_map, n, owned) ==
  /\ k \in Mesh!Grid(n) /\ DOMAIN k = DOMAIN c
  /\ m.materials[c] = Mesh!FillMaterialID(the_map, n, owned)[k]
  /\ k \in owned
LEMMA KeptCells ==
  ASSUME NEW the_map, NEW dim \in 1..3, NEW n \in SizesOf(dim), NEW who, NEW R \in Nat,
         NEW m, m = Mesh!SetUpMesh(the_map, n, who, R),
         NEW c \in Mesh!OwnCells(who, m), Keeps(who, dim, n, R, c)
  PROVE  ComesFromCoarse(m, c, CoarseCell(c, R), the_map, n, Owned(who, n))
<1> DEFINE coarse == CoarseMesh(the_map, n, Owned(who, n))
           u == CHOOSE u : AncestorsTo(c, R, u)
<1>0. c \in DOMAIN m.materials
  BY DEF Mesh!OwnCells, Mesh!Share
<1>1. PICK f : RefinedTo(coarse, R, f) /\ Mesh!SetUpMesh(the_map, n, who, R) = f[R]
  BY MeshIs
<1>2. AncestorsTo(c, R, u)
  BY AncestorsExist
<1>3. coarse.n_cells = n /\ coarse.materials = Mesh!FillMaterialID(the_map, n, Owned(who, n))
  BY DEF CoarseMesh
<1>4. DOMAIN coarse.materials = Mesh!Grid(n)
  BY <1>3 DEF Mesh!FillMaterialID
<1> HIDE DEF u, coarse
<1>5. /\ u[R] \in DOMAIN coarse.materials
      /\ m.materials[c] = coarse.materials[u[R]]
      /\ DOMAIN u[R] = DOMAIN c
  BY <1>0, <1>1, <1>2, AncestorsMaterial
<1>6. u[R] = CoarseCell(c, R)
  BY DEF u, CoarseCell
<1>7. CoarseCell(c, R) \in Owned(who, n)
  <2>1. CASE who = "only"
    BY <1>4, <1>5, <1>6, <2>1 DEF Owned, Mesh!Share
  <2>2. CASE dim = 1
    <3>1. Len(n) = 1
      BY <2>2 DEF SizesOf
    <3> QED
      BY <1>4, <1>5, <1>6, <3>1 DEF Owned, Mesh!Share
  <2>3. CASE R = 0
    <3>1. m = coarse
      BY <1>1, <2>3 DEF RefinedTo
    <3>2. u[0] = c
      BY <1>2 DEF AncestorsTo
    <3>3. c \in Mesh!Share(who, Mesh!Grid(n), n)
      BY <1>3, <1>4, <3>1 DEF Mesh!OwnCells
    <3> QED
      BY <1>6, <2>3, <3>2, <3>3 DEF Owned
  <2>4. CASE CoarseCell(c, R) \in Owned(who, n)
    BY <2>4
  <2> QED
    BY <2>1, <2>2, <2>3, <2>4 DEF Keeps
<1> QED
  BY <1>3, <1>4, <1>5, <1>6, <1>7 DEF ComesFromCoarse

\* The material of a cell is what the map shows over its coarse cell.
ShowsMap(m, c, text, dim, n, R) ==
  /\ m.materials[c] = Shown(text, CoarseCell(c, R), n)
  /\ DOMAIN c = 1..dim /\ DOMAIN CoarseCell(c, R) = 1..dim

\* SetUpMesh gives every cell that keeps its ids the material of the map.
LEMMA MeshShowsMap ==
  ASSUME NEW text \in WrittenMaps, IsRectangular(text), WrittenPlaces(text) # {},
         NEW dim \in 1..3, NEW n \in SizesOf(dim), NEW who, NEW R \in Nat,
         NEW m, m = Mesh!SetUpMesh(Mesh!ParseMaterialMap(dim, text), n, who, R),
         NEW c \in Mesh!OwnCells(who, m), Keeps(who, dim, n, R, c)
  PROVE  ShowsMap(m, c, text, dim, n, R)
<1> DEFINE the_map == Mesh!ParseMaterialMap(dim, text)
           k == CoarseCell(c, R)
<1> HIDE DEF k, the_map
<1>1. m = Mesh!SetUpMesh(the_map, n, who, R)
  BY DEF the_map
<1>2. ComesFromCoarse(m, c, k, the_map, n, Owned(who, n))
  BY <1>1, KeptCells DEF k
<1>3. m.materials[c] = Mesh!GetMaterialID(the_map, Mesh!Center(k, n))
  BY <1>2 DEF Mesh!FillMaterialID, ComesFromCoarse
<1>4. Mesh!GetMaterialID(the_map, Mesh!Center(k, n)) = Shown(text, k, n)
  BY <1>2, CoarseMaterial DEF the_map, ComesFromCoarse
<1>5. DOMAIN k = 1..dim
  <2>1. k \in [1..dim -> Nat]
    BY <1>2, CellOfGrid DEF ComesFromCoarse
  <2> QED
    BY <2>1
<1> QED
  BY <1>2, <1>3, <1>4, <1>5 DEF ShowsMap, ComesFromCoarse, k

\* The mesh is what SetUpMesh made of the input, and the map what was parsed.
ParsedMap == Mesh!ParseMaterialMap(input.dimension, MapFiles[input.material_map])
MeshInv ==
  /\ phase = "mesh" => Accepted /\ DomainError(parameters) = "none" /\ map = ParsedMap
  /\ mesh # None =>
       /\ Accepted /\ DomainError(parameters) = "none"
       /\ Mesh!HasMaterialMapping(ParsedMap)
       /\ mesh = Mesh!SetUpMesh(ParsedMap, parameters.number_of_cells, process,
                                parameters.uniform_refinements)

\* Nothing but the step that makes the mesh changes it or what it is made of.
LEMMA NextMeshInv == SetUpInv /\ ParametersInv /\ MeshInv /\ [Next]_vars => MeshInv'
<1> SUFFICES ASSUME SetUpInv, ParametersInv, MeshInv, [Next]_vars PROVE MeshInv'
  OBVIOUS
<1>1. ASSUME input' = input, parameters' = parameters
      PROVE  ParsedMap' = ParsedMap /\ DomainError(parameters)' = DomainError(parameters)
  BY <1>1 DEF ParsedMap, DomainError, FiniteElementError
<1>2. ASSUME mesh' = mesh, process' = process, input' = input, parameters' = parameters,
             phase' = "mesh" => phase = "mesh" /\ map' = map
      PROVE  MeshInv'
  BY <1>1, <1>2 DEF MeshInv, Accepted
<1>3. CASE ReadParameters \/ MakeParameters
  <2>1. phase' # "mesh" /\ mesh' = mesh /\ parameters = None
    BY <1>3 DEF ReadParameters, MakeParameters, Step, space, SetUpInv, AcceptedInv
  <2>2. mesh = None
    BY <2>1 DEF MeshInv, Accepted
  <2> QED
    BY <2>1, <2>2 DEF MeshInv
<1>4. CASE BuildDomain
  <2>1. /\ phase = "domain" /\ mesh' = mesh /\ parameters' = parameters /\ input' = input
        /\ process' = process
        /\ phase' = IF DomainError(parameters) = "none" THEN "mesh" ELSE "threw"
        /\ map' = IF DomainError(parameters) # "none" THEN map ELSE ParsedMap
    BY <1>4 DEF BuildDomain, Step, core, ParsedMap
  <2>2. Accepted
    BY <2>1, BuildingIsAccepted DEF Building
  <2> QED
    BY <1>1, <2>1, <2>2 DEF MeshInv, Accepted
<1>5. CASE SetUpDomain
  <2>1. PICK near :
          /\ Step("mesh", MeshSetUpError(near), "quadrature")
          /\ IF MeshSetUpError(near) # "none" THEN UNCHANGED <<mesh, local_cells>>
             ELSE /\ mesh' = Mesh!SetUpMesh(map, parameters.number_of_cells, process,
                                            parameters.uniform_refinements)
                  /\ local_cells' = Mesh!SetUpDOF(local_cells, process, mesh')
    BY <1>5 DEF SetUpDomain
  <2>2. /\ phase = "mesh" /\ phase' # "mesh" /\ process' = process
        /\ input' = input /\ parameters' = parameters
    BY <1>5, <2>1 DEF SetUpDomain, Step, core
  <2>3. CASE mesh' = mesh
    BY <1>2, <2>2, <2>3
  <2>4. CASE MeshSetUpError(near) = "none"
    <3>1. Mesh!HasMaterialMapping(map)
      BY <2>4 DEF MeshSetUpError
    <3>2. Accepted /\ DomainError(parameters) = "none" /\ map = ParsedMap
      BY <2>2 DEF MeshInv
    <3>3. mesh' = Mesh!SetUpMesh(map, parameters.number_of_cells, process,
                                 parameters.uniform_refinements)
      BY <2>1, <2>4
    <3> QED
      BY <1>1, <2>2, <3>1, <3>2, <3>3 DEF MeshInv, Accepted
  <2> QED
    BY <2>1, <2>3, <2>4
<1>6. CASE BuildQuadrature \/ BuildSolutions \/ BuildSystem \/ Collapse
  BY <1>2, <1>6 DEF BuildQuadrature, BuildSolutions, BuildSystem, Collapse, Step, core, space
<1>7. CASE ReflectAngle
  <2>1. phase' # "mesh"
    BY <1>7 DEF ReflectAngle
  <2> QED
    BY <1>2, <1>7, <2>1 DEF ReflectAngle, core, space
<1>8. CASE UNCHANGED vars
  BY <1>2, <1>8 DEF vars, core, space
<1> QED
  BY <1>3, <1>4, <1>5, <1>6, <1>7, <1>8 DEF Next

LEMMA MeshInvariant == Spec => []MeshInv
<1>1. Init => MeshInv
  BY DEF Init, MeshInv
<1> QED
  BY <1>1, NextMeshInv, SetUpInvariant, ParametersInvariant, PTL DEF Spec

\* What the mesh of a run is made of.
LEMMA MeshData ==
  ASSUME SetUpInv, MeshInv, mesh # None
  PROVE  /\ parameters.number_of_cells \in SizesOf(input.dimension)
         /\ parameters.uniform_refinements \in Nat /\ input.dimension \in 1..3
         /\ MapFiles[input.material_map] \in WrittenMaps
         /\ WrittenPlaces(MapFiles[input.material_map]) # {}
         /\ mesh = Mesh!SetUpMesh(ParsedMap, parameters.number_of_cells, process,
                                  parameters.uniform_refinements)
<1> DEFINE text == MapFiles[input.material_map]
<1>1. /\ input \in ParsedInputs /\ parameters = ToFrameworkParameters(input)
      /\ DomainError(parameters) = "none" /\ InputError(input) = "none"
      /\ Mesh!HasMaterialMapping(ParsedMap)
      /\ mesh = Mesh!SetUpMesh(ParsedMap, parameters.number_of_cells, process,
                               parameters.uniform_refinements)
  BY DEF MeshInv, SetUpInv, AcceptedInv
<1>2. Mesh!MeshError(input.dimension, parameters.domain_size, parameters.number_of_cells) = "none"
  BY <1>1 DEF DomainError
<1>3. /\ parameters.number_of_cells = input.n_cells
      /\ parameters.uniform_refinements = input.refinements
  BY <1>1 DEF ToFrameworkParameters
<1>4. input.n_cells \in SizesOf(input.dimension) /\ input.refinements \in Nat
  BY <1>1, <1>2, <1>3, AcceptedSizes
<1>5. input.dimension \in 1..3
  BY <1>1, ParsedEntries
<1>6. text \in WrittenMaps
  <2>1. input.material_map \in DOMAIN MapFiles
    BY <1>1 DEF InputError
  <2> QED
    BY <2>1, SetUpAssumption DEF WrittenMaps
<1>7. WrittenPlaces(text) # {}
  <2>1. DOMAIN ParsedMap.mapping # {}
    BY <1>1 DEF Mesh!HasMaterialMapping
  <2>2. ParsedMap.mapping = Mesh!MaterialMapping(input.dimension, text)
    BY DEF Mesh!ParseMaterialMap, ParsedMap
  <2>3. DOMAIN Mesh!MaterialMapping(input.dimension, text)
          = {PlaceAt(input.dimension, p) : p \in WrittenPlaces(text)}
    BY MappingOf
  <2> QED
    BY <2>1, <2>2, <2>3
<1> QED
  BY <1>1, <1>3, <1>4, <1>5, <1>6, <1>7

\* The cells of a run that keep their ids are those the lemmas speak of.
LEMMA KeptOfRun ==
  ASSUME NEW c, KeepsItsIds(c)
  PROVE  Keeps(process, input.dimension, parameters.number_of_cells,
               parameters.uniform_refinements, c)
<1>1. Coarse(c) = CoarseCell(c, parameters.uniform_refinements)
  BY DEF Coarse, CoarseCell, AncestorsTo
<1> QED
  BY <1>1 DEF KeepsItsIds, Keeps, CoarseCells, Owned

\* For every accepted input, any number of refinements, and any process: each
\* outer face of a cell of the process has a boundary id, and it is the id of
\* its side if the process set the ids of what the cell came from, as it did
\* for all of its cells when it is the only one, on a line, and where nothing
\* is refined.
THEOREM FacesKnowTheirSides == Spec => []FacesAreTheirSide
<1>1. ASSUME SetUpInv, MeshInv PROVE FacesAreTheirSide
  <2> SUFFICES ASSUME mesh # None PROVE FacesAreTheirSide
    BY DEF FacesAreTheirSide
  <2> DEFINE n == parameters.number_of_cells
             R == parameters.uniform_refinements
             own == Mesh!OwnCells(process, mesh)
             outer == Mesh!OuterFaces(own, mesh.n_cells)
  <2>1. /\ n \in SizesOf(input.dimension) /\ R \in Nat /\ input.dimension \in 1..3
        /\ mesh = Mesh!SetUpMesh(ParsedMap, n, process, R)
    BY <1>1, MeshData
  <2> HIDE DEF n, R
  <2>2. HasEdges(mesh) /\ SidesBy(mesh, R, Owned(process, n))
    <3>1. n \in MeshSizes
      BY <2>1 DEF MeshSizes
    <3> QED
      BY <2>1, <3>1, MeshKnowsSides
  <2>3. own \subseteq DOMAIN mesh.materials
    BY DEF Mesh!OwnCells, Mesh!Share
  <2>4. outer \subseteq DOMAIN mesh.boundaries
    <3> DEFINE all == DOMAIN mesh.materials
    <3> HIDE DEF own, all
    <3>1. Mesh!Faces(own) \subseteq Mesh!Faces(all)
      BY <2>3 DEF Mesh!Faces, all
    <3>2. DOMAIN mesh.boundaries = Mesh!OuterFaces(all, mesh.n_cells)
      BY <2>2 DEF HasEdges, all
    <3> QED
      BY <3>1, <3>2 DEF Mesh!OuterFaces
  <2>5. ASSUME NEW f \in outer, KeepsItsIds(f.cell)
        PROVE  mesh.boundaries[f] = SideOf(f)
    <3> DEFINE c == f.cell
               u == CHOOSE u : AncestorsTo(c, R, u)
    <3>1. c \in own
      <4> HIDE DEF own
      <4> QED
        BY DEF Mesh!OuterFaces, Mesh!Faces
    <3>2. Keeps(process, input.dimension, n, R, c)
      BY <2>5, KeptOfRun DEF n, R
    <3> HIDE DEF c
    <3>4. AncestorsTo(c, R, u) /\ CoarseCell(c, R) \in Owned(process, n)
      <4>1. ComesFromCoarse(mesh, c, CoarseCell(c, R), ParsedMap, n, Owned(process, n))
        BY <2>1, <3>1, <3>2, KeptCells
      <4>2. \E v : AncestorsTo(c, R, v)
        BY <2>1, AncestorsExist
      <4> QED
        BY <4>1, <4>2 DEF ComesFromCoarse
    <3>5. u[R] \in Owned(process, n)
      BY <3>4 DEF CoarseCell
    <3> HIDE DEF u, outer
    <3> QED
      BY <2>2, <2>4, <3>4, <3>5 DEF SidesBy, c
  <2> QED
    BY <2>4, <2>5 DEF FacesAreTheirSide, SideOf
<1> QED
  BY <1>1, SetUpInvariant, MeshInvariant, PTL

\* For every accepted input with a rectangular map, any refinement and any
\* process: a cell of the process has the material the file shows at its place,
\* the file read from its top line down and its first block on, if the process
\* set the ids of what the cell came from.
THEOREM CellsShowTheirMaterial == Spec => []CellMaterialIsMapped
<1>1. ASSUME SetUpInv, MeshInv PROVE CellMaterialIsMapped
  <2> DEFINE text == MapFiles[input.material_map]
             n == parameters.number_of_cells
             R == parameters.uniform_refinements
             dim == input.dimension
  <2> SUFFICES ASSUME mesh # None, IsRectangular(text),
                      NEW c \in Mesh!OwnCells(process, mesh), KeepsItsIds(c)
               PROVE  LET extent == <<Len(Head(Head(text))), Len(Head(text)), Len(text)>>
                          entry(cell, axis) ==
                            IF axis > Len(cell) THEN extent[axis]
                            ELSE EntryAt(Coarse(cell)[axis], n[axis], extent[axis])
                      IN  mesh.materials[c] =
                            text[extent[3] + 1 - entry(c, 3)][extent[2] + 1 - entry(c, 2)][entry(c, 1)]
    BY DEF CellMaterialIsMapped
  <2>1. /\ n \in SizesOf(dim) /\ R \in Nat /\ dim \in 1..3
        /\ text \in WrittenMaps /\ WrittenPlaces(text) # {}
        /\ mesh = Mesh!SetUpMesh(Mesh!ParseMaterialMap(dim, text), n, process, R)
    BY <1>1, MeshData DEF ParsedMap
  <2>2. Keeps(process, dim, n, R, c)
    BY KeptOfRun
  <2>3. Coarse(c) = CoarseCell(c, R)
    BY DEF Coarse, CoarseCell, AncestorsTo
  <2> HIDE DEF text, n, R, dim
  <2>4. ShowsMap(mesh, c, text, dim, n, R)
    BY <2>1, <2>2, MeshShowsMap
  <2> DEFINE coarse == CoarseCell(c, R)
  <2> HIDE DEF coarse
  <2>5. dim \in Nat /\ DOMAIN c = 1..dim /\ DOMAIN coarse = 1..dim
    BY <2>1, <2>4 DEF ShowsMap, coarse
  <2>6. Len(c) = dim /\ Len(coarse) = dim
    BY <2>5
  <2>7. mesh.materials[c] = Shown(text, coarse, n)
    BY <2>4 DEF ShowsMap, coarse
  <2>8. \A axis : EntryOf(text, coarse, n, axis)
                   = IF axis > Len(c) THEN Extents(text)[axis]
                     ELSE EntryAt(coarse[axis], n[axis], Extents(text)[axis])
    BY <2>6 DEF EntryOf
  <2>9. Coarse(c) = coarse
    BY <2>3 DEF coarse
  <2> QED
    BY <2>7, <2>8, <2>9 DEF Shown, Extents
<1> QED
  BY <1>1, SetUpInvariant, MeshInvariant, PTL

-----------------------------------------------------------------------------
(***************************************************************************)
(* Totals of vectors and matrices, for the collapse to one group.          *)
(***************************************************************************)
\* A number per group.
IntVectors(n) == [1..n -> Int]
\* The first r values.
Prefix(v, r) == [i \in 1..r |-> v[i]]

\* A total is the last of its partial sums.
LEMMA TotalIs ==
  ASSUME NEW n \in Nat, NEW v, DOMAIN v = 1..n, Len(v) = n
  PROVE  \E f : SummedTo(v, n, f) /\ Total(v) = f[n]
<1> DEFINE f == CHOOSE f : SummedTo(v, n, f)
<1>1. SummedTo(v, n, f)
  BY SumExists
<1>2. Total(v) = f[n]
  BY DEF Total, SummedTo
<1> QED
  BY <1>1, <1>2

\* One value after the other.
LEMMA TotalOfPrefix ==
  ASSUME NEW n \in Nat, NEW v
  PROVE  /\ Total(Prefix(v, 0)) = 0
         /\ \A r \in 1..n : Total(Prefix(v, r)) = Total(Prefix(v, r - 1)) + v[r]
<1>1. \A r \in Nat : DOMAIN Prefix(v, r) = 1..r /\ Len(Prefix(v, r)) = r
  BY DEF Prefix
<1>2. Total(Prefix(v, 0)) = 0
  <2>1. PICK f : SummedTo(Prefix(v, 0), 0, f) /\ Total(Prefix(v, 0)) = f[0]
    BY <1>1, TotalIs
  <2> QED
    BY <2>1 DEF SummedTo
<1>3. ASSUME NEW r \in 1..n
      PROVE  Total(Prefix(v, r)) = Total(Prefix(v, r - 1)) + v[r]
  <2>1. r \in Nat /\ r - 1 \in Nat
    OBVIOUS
  <2>2. PICK f : SummedTo(Prefix(v, r), r, f) /\ Total(Prefix(v, r)) = f[r]
    BY <1>1, <2>1, TotalIs
  <2>3. PICK g : SummedTo(Prefix(v, r - 1), r - 1, g) /\ Total(Prefix(v, r - 1)) = g[r - 1]
    BY <1>1, <2>1, TotalIs
  <2> DEFINE S == {k \in 0..r - 1 : f[k] = g[k]}
  <2>4. 0 \in S
    BY <2>1, <2>2, <2>3 DEF SummedTo
  <2>5. ASSUME NEW k \in 1..r - 1, k - 1 \in S
        PROVE  k \in S
    <3>1. f[k] = f[k - 1] + Prefix(v, r)[k]
      BY <2>1, <2>2 DEF SummedTo
    <3>2. g[k] = g[k - 1] + Prefix(v, r - 1)[k]
      BY <2>1, <2>3 DEF SummedTo
    <3>3. Prefix(v, r)[k] = v[k] /\ Prefix(v, r - 1)[k] = v[k]
      BY DEF Prefix
    <3> QED
      BY <2>5, <3>1, <3>2, <3>3
  <2>6. \A k \in 1..r - 1 : k - 1 \in S => k \in S
    BY <2>5
  <2> HIDE DEF S
  <2>7. 0..r - 1 \subseteq S
    BY <2>1, <2>4, <2>6, InductionTo
  <2>8. f[r - 1] = g[r - 1]
    BY <2>1, <2>7 DEF S
  <2>9. f[r] = f[r - 1] + Prefix(v, r)[r]
    BY <2>1, <2>2 DEF SummedTo
  <2>10. Prefix(v, r)[r] = v[r]
    BY <2>1 DEF Prefix
  <2> QED
    BY <2>2, <2>3, <2>8, <2>9, <2>10
<1> QED
  BY <1>2, <1>3

\* The total of numbers is a number, and so is every partial one.
LEMMA TotalIsInt ==
  ASSUME NEW n \in Nat, NEW v \in IntVectors(n)
  PROVE  /\ Total(v) \in Int /\ Total(v) = Total(Prefix(v, n))
         /\ \A r \in 0..n : Total(Prefix(v, r)) \in Int
<1> DEFINE S == {r \in 0..n : Total(Prefix(v, r)) \in Int}
<1>1. 0 \in S
  BY TotalOfPrefix
<1>2. ASSUME NEW r \in 1..n, r - 1 \in S PROVE r \in S
  <2>1. v[r] \in Int
    BY DEF IntVectors
  <2>2. Total(Prefix(v, r)) = Total(Prefix(v, r - 1)) + v[r]
    BY TotalOfPrefix
  <2> QED
    BY <1>2, <2>1, <2>2
<1>3. \A r \in 1..n : r - 1 \in S => r \in S
  BY <1>2
<1> HIDE DEF S
<1>4. 0..n \subseteq S
  BY <1>1, <1>3, InductionTo
<1>5. Prefix(v, n) = v
  BY DEF Prefix, IntVectors
<1>6. \A r \in 0..n : Total(Prefix(v, r)) \in Int
  BY <1>4 DEF S
<1>7. n \in 0..n
  OBVIOUS
<1> QED
  BY <1>5, <1>6, <1>7

\* Totals are linear.
LEMMA TotalOfDifference ==
  ASSUME NEW n \in Nat, NEW u \in IntVectors(n), NEW v \in IntVectors(n), NEW w \in IntVectors(n),
         \A i \in 1..n : w[i] = u[i] - v[i]
  PROVE  Total(w) = Total(u) - Total(v)
<1> DEFINE T(x, r) == Total(Prefix(x, r))
           S == {r \in 0..n : T(w, r) = T(u, r) - T(v, r)}
<1>0. \A x \in {u, v, w} : Total(x) = T(x, n) /\ \A r \in 0..n : T(x, r) \in Int
  BY TotalIsInt
<1>1. \A x \in {u, v, w} : T(x, 0) = 0 /\ \A r \in 1..n : T(x, r) = T(x, r - 1) + x[r]
  BY TotalOfPrefix
<1> HIDE DEF T
<1>2. 0 \in S
  BY <1>1
<1>3. ASSUME NEW r \in 1..n, r - 1 \in S PROVE r \in S
  <2>1. u[r] \in Int /\ v[r] \in Int /\ w[r] = u[r] - v[r]
    BY DEF IntVectors
  <2>2. r - 1 \in 0..n /\ r \in 0..n
    OBVIOUS
  <2>3. T(u, r - 1) \in Int /\ T(v, r - 1) \in Int
    BY <1>0, <2>2
  <2>4. T(w, r - 1) = T(u, r - 1) - T(v, r - 1)
    BY <1>3
  <2>5. /\ T(w, r) = T(w, r - 1) + w[r]
        /\ T(u, r) = T(u, r - 1) + u[r] /\ T(v, r) = T(v, r - 1) + v[r]
    BY <1>1
  <2> QED
    BY <2>1, <2>2, <2>3, <2>4, <2>5
<1>4. \A r \in 1..n : r - 1 \in S => r \in S
  BY <1>3
<1> HIDE DEF S
<1>5. 0..n \subseteq S
  BY <1>2, <1>4, InductionTo
<1>6. T(w, n) = T(u, n) - T(v, n)
  BY <1>5 DEF S
<1> QED
  BY <1>0, <1>6

\* A common factor can be taken out of a total.
LEMMA TotalOfMultiple ==
  ASSUME NEW n \in Nat, NEW c \in Int, NEW v \in IntVectors(n), NEW w \in IntVectors(n),
         \A i \in 1..n : w[i] = c * v[i]
  PROVE  Total(w) = c * Total(v)
<1> DEFINE T(x, r) == Total(Prefix(x, r))
           S == {r \in 0..n : T(w, r) = c * T(v, r)}
<1>0. \A x \in {v, w} : Total(x) = T(x, n) /\ \A r \in 0..n : T(x, r) \in Int
  BY TotalIsInt
<1>1. \A x \in {v, w} : T(x, 0) = 0 /\ \A r \in 1..n : T(x, r) = T(x, r - 1) + x[r]
  BY TotalOfPrefix
<1> HIDE DEF T
<1>2. 0 \in S
  BY <1>1
<1>3. ASSUME NEW r \in 1..n, r - 1 \in S PROVE r \in S
  <2>1. v[r] \in Int /\ w[r] = c * v[r]
    BY DEF IntVectors
  <2>2. r - 1 \in 0..n /\ r \in 0..n
    OBVIOUS
  <2>3. T(v, r - 1) \in Int
    BY <1>0, <2>2
  <2>4. T(w, r - 1) = c * T(v, r - 1)
    BY <1>3
  <2>5. T(w, r) = T(w, r - 1) + w[r] /\ T(v, r) = T(v, r - 1) + v[r]
    BY <1>1
  <2>6. c * (T(v, r - 1) + v[r]) = c * T(v, r - 1) + c * v[r]
    BY <2>1, <2>3
  <2> QED
    BY <2>1, <2>2, <2>4, <2>5, <2>6
<1>4. \A r \in 1..n : r - 1 \in S => r \in S
  BY <1>3
<1> HIDE DEF S
<1>5. 0..n \subseteq S
  BY <1>2, <1>4, InductionTo
<1>6. T(w, n) = c * T(v, n)
  BY <1>5 DEF S
<1> QED
  BY <1>0, <1>6

\* The total of sums is the sum of the totals.
LEMMA TotalOfSum ==
  ASSUME NEW n \in Nat, NEW u \in IntVectors(n), NEW v \in IntVectors(n), NEW w \in IntVectors(n),
         \A i \in 1..n : w[i] = u[i] + v[i]
  PROVE  Total(w) = Total(u) + Total(v)
<1>1. \A i \in 1..n : u[i] \in Int /\ v[i] \in Int /\ w[i] \in Int
  BY DEF IntVectors
<1>2. \A i \in 1..n : u[i] = w[i] - v[i]
  BY <1>1
<1>3. Total(u) = Total(w) - Total(v)
  BY <1>2, TotalOfDifference
<1>4. Total(u) \in Int /\ Total(v) \in Int /\ Total(w) \in Int
  BY TotalIsInt
<1> QED
  BY <1>3, <1>4

\* A row per group.
IntMatrices(n) == [1..n -> IntVectors(n)]
\* A column of a matrix.
Column(m, n, j) == [i \in 1..n |-> m[i][j]]
\* The totals of the rows of a matrix.
RowTotals(m, n) == [i \in 1..n |-> Total(m[i])]
\* And those of its columns.
ColumnTotals(m, n) == [j \in 1..n |-> Total(Column(m, n, j))]

\* A column is a number per group.
LEMMA ColumnIs ==
  ASSUME NEW n \in Nat, NEW m \in IntMatrices(n), NEW j \in 1..n
  PROVE  Column(m, n, j) \in IntVectors(n)
<1>1. \A i \in 1..n : m[i] \in IntVectors(n)
  BY DEF IntMatrices
<1>2. \A i \in 1..n : m[i][j] \in Int
  BY <1>1 DEF IntVectors
<1> QED
  BY <1>2 DEF Column, IntVectors

\* A matrix may be summed by its rows or by its columns.
LEMMA SumsExchange ==
  ASSUME NEW n \in Nat, NEW m \in IntMatrices(n)
  PROVE  Total(RowTotals(m, n)) = Total(ColumnTotals(m, n))
<1> DEFINE rows == RowTotals(m, n)
           part(r) == [j \in 1..n |-> Total(Prefix(Column(m, n, j), r))]
           S == {r \in 0..n : Total(Prefix(rows, r)) = Total(part(r))}
<1>1. \A i \in 1..n : m[i] \in IntVectors(n) /\ Total(m[i]) \in Int
  <2>1. \A i \in 1..n : m[i] \in IntVectors(n)
    BY DEF IntMatrices
  <2> QED
    BY <2>1, TotalIsInt
<1>2. rows \in IntVectors(n)
  BY <1>1 DEF RowTotals, IntVectors
<1>3. \A r \in 0..n : part(r) \in IntVectors(n)
  <2>1. \A j \in 1..n : \A r \in 0..n : Total(Prefix(Column(m, n, j), r)) \in Int
    BY ColumnIs, TotalIsInt
  <2> QED
    BY <2>1 DEF IntVectors
<1>4. \A j \in 1..n : /\ Total(Prefix(Column(m, n, j), 0)) = 0
                      /\ \A r \in 1..n : Total(Prefix(Column(m, n, j), r))
                           = Total(Prefix(Column(m, n, j), r - 1)) + m[r][j]
  <2> TAKE j \in 1..n
  <2>1. \A r \in 1..n : Column(m, n, j)[r] = m[r][j]
    BY DEF Column
  <2> QED
    BY <2>1, TotalOfPrefix
<1>5. \A r \in 0..n, j \in 1..n : part(r)[j] = Total(Prefix(Column(m, n, j), r))
  OBVIOUS
<1> HIDE DEF part
<1>6. 0 \in S
  <2>1. 0 \in 0..n
    OBVIOUS
  <2>2. part(0) \in IntVectors(n) /\ \A j \in 1..n : part(0)[j] = 0
    BY <1>3, <1>4, <1>5, <2>1
  <2>3. \A j \in 1..n : part(0)[j] = 0 * part(0)[j]
    BY <2>2
  <2>4. Total(part(0)) = 0 * Total(part(0))
    BY <2>2, <2>3, TotalOfMultiple
  <2>5. Total(part(0)) \in Int
    BY <2>2, TotalIsInt
  <2>6. Total(part(0)) = 0
    BY <2>4, <2>5
  <2>7. Total(Prefix(rows, 0)) = 0
    BY TotalOfPrefix
  <2> QED
    BY <2>1, <2>6, <2>7
<1>7. ASSUME NEW r \in 1..n, r - 1 \in S PROVE r \in S
  <2>1. r \in 0..n /\ r - 1 \in 0..n
    OBVIOUS
  <2>2. \A j \in 1..n : part(r)[j] = part(r - 1)[j] + m[r][j]
    BY <1>4, <1>5, <2>1
  <2>3. Total(part(r)) = Total(part(r - 1)) + Total(m[r])
    <3>1. part(r) \in IntVectors(n) /\ part(r - 1) \in IntVectors(n) /\ m[r] \in IntVectors(n)
      BY <1>1, <1>3, <2>1
    <3> DEFINE w == part(r)
               u == part(r - 1)
    <3>2. \A j \in 1..n : w[j] = u[j] + m[r][j]
      BY <2>2
    <3> HIDE DEF w, u
    <3>3. w \in IntVectors(n) /\ u \in IntVectors(n)
      BY <3>1 DEF w, u
    <3>4. Total(w) = Total(u) + Total(m[r])
      BY <3>1, <3>2, <3>3, TotalOfSum
    <3> QED
      BY <3>4 DEF w, u
  <2>4. rows[r] = Total(m[r])
    BY DEF RowTotals
  <2>5. Total(Prefix(rows, r)) = Total(Prefix(rows, r - 1)) + rows[r]
    BY TotalOfPrefix
  <2>6. Total(Prefix(rows, r - 1)) = Total(part(r - 1))
    BY <1>7
  <2> QED
    BY <2>1, <2>3, <2>4, <2>5, <2>6
<1>8. \A r \in 1..n : r - 1 \in S => r \in S
  BY <1>7
<1> HIDE DEF S, rows
<1>9. 0..n \subseteq S
  BY <1>6, <1>8, InductionTo
<1>10. Total(Prefix(rows, n)) = Total(part(n))
  BY <1>9 DEF S
<1>11. Total(rows) = Total(Prefix(rows, n))
  BY <1>2, TotalIsInt
<1>12. part(n) = ColumnTotals(m, n)
  <2>1. \A j \in 1..n : Total(Column(m, n, j)) = Total(Prefix(Column(m, n, j), n))
    BY ColumnIs, TotalIsInt
  <2> QED
    BY <2>1 DEF part, ColumnTotals
<1> QED
  BY <1>10, <1>11, <1>12 DEF rows

\* A vector, scaled by another.
Times(u, v, n) == [g \in 1..n |-> u[g] * v[g]]
\* A matrix, its columns scaled by a vector.
Scaled(m, s, n) == [g \in 1..n |-> [h \in 1..n |-> m[g][h] * s[h]]]

\* A scaled vector is a number per group.
LEMMA TimesIs ==
  ASSUME NEW n \in Nat, NEW u \in IntVectors(n), NEW v \in IntVectors(n)
  PROVE  Times(u, v, n) \in IntVectors(n)
<1>1. \A g \in 1..n : u[g] \in Int /\ v[g] \in Int
  BY DEF IntVectors
<1>2. \A g \in 1..n : u[g] * v[g] \in Int
  BY <1>1
<1> QED
  BY <1>2 DEF IntVectors, Times

\* A scaled matrix has scaled columns.
LEMMA ScaledIs ==
  ASSUME NEW n \in Nat, NEW m \in IntMatrices(n), NEW s \in IntVectors(n)
  PROVE  /\ Scaled(m, s, n) \in IntMatrices(n)
         /\ \A g \in 1..n : Column(Scaled(m, s, n), n, g) = [h \in 1..n |-> m[h][g] * s[g]]
<1>1. \A g \in 1..n : m[g] \in IntVectors(n) /\ s[g] \in Int
  BY DEF IntVectors, IntMatrices
<1>2. \A g, h \in 1..n : m[g][h] \in Int
  BY <1>1 DEF IntVectors
<1>3. \A g, h \in 1..n : m[g][h] * s[h] \in Int
  BY <1>1, <1>2
<1>4. \A g \in 1..n : [h \in 1..n |-> m[g][h] * s[h]] \in IntVectors(n)
  BY <1>3 DEF IntVectors
<1>5. Scaled(m, s, n) \in IntMatrices(n)
  BY <1>4 DEF Scaled, IntMatrices
<1> QED
  BY <1>5 DEF Scaled, Column

\* The total of a scaled matrix, column by column.
LEMMA ScaledTotal ==
  ASSUME NEW n \in Nat, NEW m \in IntMatrices(n), NEW s \in IntVectors(n)
  PROVE  Total(RowTotals(Scaled(m, s, n), n)) = Total([g \in 1..n |-> s[g] * Total(Column(m, n, g))])
<1>1. Total(RowTotals(Scaled(m, s, n), n)) = Total(ColumnTotals(Scaled(m, s, n), n))
  BY ScaledIs, SumsExchange
<1>2. ASSUME NEW g \in 1..n
      PROVE  Total(Column(Scaled(m, s, n), n, g)) = s[g] * Total(Column(m, n, g))
  <2> DEFINE v == Column(m, n, g)
             w == Column(Scaled(m, s, n), n, g)
  <2>1. v \in IntVectors(n) /\ w \in IntVectors(n)
    BY ScaledIs, ColumnIs
  <2>2. s[g] \in Int /\ \A h \in 1..n : v[h] \in Int
    BY <2>1 DEF IntVectors
  <2>3. \A h \in 1..n : w[h] = v[h] * s[g]
    BY ScaledIs DEF Column
  <2>4. \A h \in 1..n : w[h] = s[g] * v[h]
    BY <2>2, <2>3
  <2> HIDE DEF v, w
  <2>5. Total(w) = s[g] * Total(v)
    BY <2>1, <2>2, <2>4, TotalOfMultiple
  <2> QED
    BY <2>5 DEF v, w
<1>3. ColumnTotals(Scaled(m, s, n), n) = [g \in 1..n |-> s[g] * Total(Column(m, n, g))]
  BY <1>2 DEF ColumnTotals
<1> QED
  BY <1>1, <1>3

\* What is removed from a group and not scattered anywhere is absorbed.
LEMMA AbsorbedInAll ==
  ASSUME NEW n \in Nat, NEW t \in IntVectors(n), NEW m \in IntMatrices(n), NEW s \in IntVectors(n)
  PROVE  Total(Times(t, s, n)) - Total(RowTotals(Scaled(m, s, n), n))
           = Total([g \in 1..n |-> s[g] * (t[g] - Total(Column(m, n, g)))])
<1> DEFINE u == Times(t, s, n)
           v == [g \in 1..n |-> s[g] * Total(Column(m, n, g))]
           w == [g \in 1..n |-> s[g] * (t[g] - Total(Column(m, n, g)))]
<1>1. \A g \in 1..n : s[g] \in Int /\ t[g] \in Int /\ Total(Column(m, n, g)) \in Int
  BY ColumnIs, TotalIsInt DEF IntVectors
<1>2. u \in IntVectors(n) /\ v \in IntVectors(n) /\ w \in IntVectors(n)
  <2>1. \A g \in 1..n : /\ s[g] * Total(Column(m, n, g)) \in Int
                        /\ s[g] * (t[g] - Total(Column(m, n, g))) \in Int
    BY <1>1
  <2> QED
    BY <2>1, TimesIs DEF IntVectors
<1>3. \A g \in 1..n : w[g] = u[g] - v[g]
  <2>1. \A a, b, c \in Int : a * (b - c) = b * a - a * c
    OBVIOUS
  <2> QED
    BY <1>1, <2>1 DEF Times
<1> HIDE DEF u, v, w
<1>4. Total(w) = Total(u) - Total(v)
  BY <1>2, <1>3, TotalOfDifference
<1> QED
  BY <1>4, ScaledTotal DEF u, v, w

\* The spectrum of what is born in a group sums to its total.
LEMMA BornInAll ==
  ASSUME NEW n \in Nat, NEW nu \in IntVectors(n), NEW chi \in IntVectors(n), NEW s \in IntVectors(n),
         NEW m \in IntMatrices(n), \A g, h \in 1..n : m[g][h] = nu[h] * chi[g]
  PROVE  Total(RowTotals(Scaled(m, s, n), n))
           = Total([g \in 1..n |-> s[g] * Total(chi) * nu[g]])
<1>1. ASSUME NEW g \in 1..n
      PROVE  s[g] * Total(Column(m, n, g)) = s[g] * Total(chi) * nu[g]
  <2>1. s[g] \in Int /\ nu[g] \in Int /\ Total(chi) \in Int
    BY TotalIsInt DEF IntVectors
  <2>2. Column(m, n, g) \in IntVectors(n)
    BY ColumnIs
  <2>3. \A h \in 1..n : Column(m, n, g)[h] = nu[g] * chi[h]
    BY DEF Column
  <2>4. Total(Column(m, n, g)) = nu[g] * Total(chi)
    BY <2>1, <2>2, <2>3, TotalOfMultiple
  <2>5. \A a, b, c \in Int : a * (b * c) = a * c * b
    OBVIOUS
  <2> QED
    BY <2>1, <2>4, <2>5
<1> QED
  BY <1>1, ScaledTotal

-----------------------------------------------------------------------------
(***************************************************************************)
(* The collapsed cross sections.                                           *)
(***************************************************************************)
\* A vector that must be given, and is of a valid material.
LEMMA GivenVector ==
  ASSUME NEW m \in ReadMaterial, NEW fissile \in BOOLEAN, CheckValid(m, fissile) = "none",
         NEW id \in CheckedVectors(m, fissile) \cap GroupVectors
  PROVE  GetVectorProperty(m, id) \in IntVectors(m.number_of_groups)
<1>1. /\ GetVectorProperty(m, id) \in Seq(Int)
      /\ Len(GetVectorProperty(m, id)) = m.number_of_groups
  BY ValidMaterial
<1> QED
  BY <1>1 DEF IntVectors

\* The fixed source of a valid material, or none.
LEMMA VectorOrZeros ==
  ASSUME NEW m \in ReadMaterial, NEW fissile \in BOOLEAN, CheckValid(m, fissile) = "none"
  PROVE  OrZeros(m, "Q") \in IntVectors(m.number_of_groups)
<1>1. CASE HasProperty(m.vectors, "Q")
  <2>1. "Q" \in CheckedVectors(m, fissile) \cap GroupVectors
    BY <1>1 DEF CheckedVectors, GroupVectors
  <2> QED
    BY <1>1, <2>1, GivenVector DEF OrZeros
<1>2. CASE ~HasProperty(m.vectors, "Q")
  BY <1>2 DEF OrZeros, IntVectors
<1> QED
  BY <1>1, <1>2

\* The place of an entry in the row by row list is in the list.
LEMMA PlaceInMatrix ==
  ASSUME NEW n \in Nat, NEW g \in 1..n, NEW h \in 1..n
  PROVE  (g - 1) * n + h \in 1..n * n
<1>1. n \in Nat \ {0}
  OBVIOUS
<1>2. n * (g - 1) >= 0
  <2>1. \A a, b \in Nat : a * b >= 0
    OBVIOUS
  <2> QED
    BY <1>1, <2>1
<1>3. n * (g - 1) < n * g
  BY <1>1, ProductGrows
<1>4. n * g <= n * n
  <2>1. CASE g = n
    BY <2>1
  <2>2. CASE g < n
    BY <1>1, <2>2, ProductGrows
  <2> QED
    BY <2>1, <2>2
<1>5. n * (g - 1) = n * g - n /\ (g - 1) * n = n * (g - 1) /\ n * g \in Int /\ n * n \in Int
  OBVIOUS
<1> QED
  BY <1>2, <1>4, <1>5

\* The scattering matrix of a valid material has as many values as it reads.
LEMMA ScatteringMatrix ==
  ASSUME NEW m \in ReadMaterial, NEW fissile \in BOOLEAN, CheckValid(m, fissile) = "none"
  PROVE  GetScatteringMatrix(m) \in IntMatrices(m.number_of_groups)
<1> DEFINE n == m.number_of_groups
           raw == GetProperty(m.matrices, "SIGMA_S")
<1>1. ~MultipleDefinition(m) /\ ~MissingProperty(m, fissile) /\ ~WrongNumberOfValues(m, fissile)
  BY DEF CheckValid
<1>2. HasProperty(m.matrices, "SIGMA_S")
  BY <1>1 DEF MissingProperty
<1>3. m.matrices \in Seq(MaterialProperty) /\ n \in Nat
  BY DEF ReadMaterial
<1>4. ~DefinedTwice(m.matrices, "UNKNOWN_MATRIX") /\ "SIGMA_S" # "UNKNOWN_MATRIX"
  BY <1>1 DEF MultipleDefinition
<1>5. raw \in Seq(Int)
  BY <1>2, <1>3, <1>4, PropertyIsFound
<1>6. Len(raw) = n * n
  BY <1>1 DEF WrongNumberOfValues
<1>7. \A g, h \in 1..n : raw[(g - 1) * n + h] \in Int
  <2> TAKE g, h \in 1..n
  <2>1. (g - 1) * n + h \in 1..n * n
    BY <1>3, PlaceInMatrix
  <2> HIDE DEF raw, n
  <2> DEFINE place == (g - 1) * n + h
  <2>2. place \in DOMAIN raw
    BY <1>5, <1>6, <2>1
  <2> HIDE DEF place
  <2>3. raw[place] \in Int
    BY <1>5, <2>2
  <2> QED
    BY <2>3 DEF place
<1>8. GetScatteringMatrix(m) = [g \in 1..n |-> [h \in 1..n |-> raw[(g - 1) * n + h]]]
  BY DEF GetScatteringMatrix
<1> HIDE DEF raw, n
<1>9. \A g \in 1..n : [h \in 1..n |-> raw[(g - 1) * n + h]] \in IntVectors(n)
  BY <1>7 DEF IntVectors
<1>10. GetScatteringMatrix(m) \in IntMatrices(n)
  BY <1>8, <1>9 DEF IntMatrices
<1> QED
  BY <1>10 DEF n

\* A fission matrix: rows are incoming groups, the spectrum sums to one.
IsFission(matrix, nu, chi, n) ==
  /\ chi \in IntVectors(n) /\ Total(chi) = ChiUnit
  /\ matrix = [h \in 1..n |-> [g \in 1..n |-> nu[h] * chi[g]]]

\* The cross sections of n groups, and what they are numbers of.
DataOf(xs, n) ==
  /\ DOMAIN xs.sigma_s = DOMAIN xs.sigma_t
  /\ \A id \in DOMAIN xs.sigma_t : xs.sigma_t[id] \in IntVectors(n) /\ xs.sigma_s[id] \in IntMatrices(n)
  /\ DOMAIN xs.nu_sigma_f = DOMAIN xs.fiss_transfer
  /\ DOMAIN xs.fiss_transfer \subseteq DOMAIN xs.sigma_t
  /\ \A id \in DOMAIN xs.fiss_transfer :
       /\ xs.nu_sigma_f[id] \in IntVectors(n)
       /\ \E chi : IsFission(xs.fiss_transfer[id], xs.nu_sigma_f[id], chi, n)
  /\ DOMAIN xs.q \subseteq DOMAIN xs.sigma_t
  /\ \A id \in DOMAIN xs.q : xs.q[id] \in IntVectors(n)

\* The cross sections PopulateData makes are those numbers.
LEMMA AcceptedData ==
  ASSUME NEW materials, \A id \in DOMAIN materials : materials[id] \in ReadMaterial,
         NEW is_eigen \in BOOLEAN, NEW n, NEW n_materials,
         MaterialError(materials, is_eigen, n, n_materials) = "none"
  PROVE  DataOf(PopulateData(materials, is_eigen), n)
<1> DEFINE fissile == FissileIDs(materials, is_eigen)
           ids == DOMAIN materials
           xs == PopulateData(materials, is_eigen)
           vector(id, name) == GetVectorProperty(materials[id], name)
<1>1. \A id \in ids : /\ CheckValid(materials[id], id \in fissile) = "none"
                      /\ materials[id].number_of_groups = n
                      /\ materials[id] \in ReadMaterial
  BY AcceptedMaterials
<1>2. fissile \subseteq ids
  BY DEF FissileIDs
<1>3. ASSUME NEW id \in ids
      PROVE  /\ vector(id, "SIGMA_T") \in IntVectors(n)
             /\ GetScatteringMatrix(materials[id]) \in IntMatrices(n)
             /\ OrZeros(materials[id], "Q") \in IntVectors(n)
  <2> DEFINE m == materials[id]
             isFissile == id \in fissile
  <2>1. m \in ReadMaterial /\ CheckValid(m, isFissile) = "none" /\ m.number_of_groups = n
    BY <1>1
  <2>2. isFissile \in BOOLEAN
    OBVIOUS
  <2>3. "SIGMA_T" \in CheckedVectors(m, isFissile) \cap GroupVectors
    BY DEF CheckedVectors, RequiredVectors, GroupVectors
  <2> HIDE DEF isFissile, m
  <2>4. GetVectorProperty(m, "SIGMA_T") \in IntVectors(n)
    BY <2>1, <2>2, <2>3, GivenVector
  <2>5. GetScatteringMatrix(m) \in IntMatrices(n)
    BY <2>1, <2>2, ScatteringMatrix
  <2>6. OrZeros(m, "Q") \in IntVectors(n)
    BY <2>1, <2>2, VectorOrZeros
  <2> QED
    BY <2>4, <2>5, <2>6 DEF m
<1>4. ASSUME NEW id \in fissile
      PROVE  /\ vector(id, "NU_SIG_F") \in IntVectors(n) /\ vector(id, "CHI") \in IntVectors(n)
             /\ Total(vector(id, "CHI")) = ChiUnit
  <2> DEFINE m == materials[id]
  <2>0. id \in ids /\ (id \in fissile) = TRUE
    BY <1>2
  <2>1. m \in ReadMaterial /\ CheckValid(m, TRUE) = "none" /\ m.number_of_groups = n
    BY <1>1, <2>0
  <2>2. {"NU_SIG_F", "CHI"} \subseteq CheckedVectors(m, TRUE) \cap GroupVectors
    BY DEF CheckedVectors, RequiredVectors, GroupVectors
  <2> HIDE DEF m
  <2>3. GetVectorProperty(m, "NU_SIG_F") \in IntVectors(n) /\ GetVectorProperty(m, "CHI") \in IntVectors(n)
    BY <2>1, <2>2, GivenVector
  <2>4. ~ChiDoesNotSumToOne(m, TRUE)
    BY <2>1 DEF CheckValid
  <2> QED
    BY <2>3, <2>4 DEF m, ChiDoesNotSumToOne
<1>5. /\ DOMAIN xs.sigma_t = ids /\ DOMAIN xs.sigma_s = ids
      /\ \A id \in ids : /\ xs.sigma_t[id] = vector(id, "SIGMA_T")
                         /\ xs.sigma_s[id] = GetScatteringMatrix(materials[id])
  BY DEF PopulateData, ids, vector
<1>6. /\ DOMAIN xs.nu_sigma_f = fissile /\ DOMAIN xs.fiss_transfer = fissile
      /\ \A id \in fissile :
           /\ xs.nu_sigma_f[id] = vector(id, "NU_SIG_F")
           /\ xs.fiss_transfer[id] = FissionTransfer(vector(id, "NU_SIG_F"), vector(id, "CHI"))
  BY DEF PopulateData, fissile, vector
<1>7. /\ DOMAIN xs.q \subseteq ids
      /\ \A id \in DOMAIN xs.q : xs.q[id] = OrZeros(materials[id], "Q")
  BY DEF PopulateData, ids
<1>8. ASSUME NEW id \in fissile
      PROVE  IsFission(xs.fiss_transfer[id], xs.nu_sigma_f[id], vector(id, "CHI"), n)
  <2>1. DOMAIN vector(id, "NU_SIG_F") = 1..n /\ DOMAIN vector(id, "CHI") = 1..n
    BY <1>4 DEF IntVectors
  <2> HIDE DEF vector, xs, fissile
  <2>2. FissionTransfer(vector(id, "NU_SIG_F"), vector(id, "CHI"))
          = [h \in 1..n |-> [g \in 1..n |-> vector(id, "NU_SIG_F")[h] * vector(id, "CHI")[g]]]
    BY <2>1 DEF FissionTransfer
  <2> QED
    BY <1>4, <1>6, <2>2 DEF IsFission
<1> HIDE DEF xs, vector, fissile, ids
<1>9. DataOf(xs, n)
  <2>1. DOMAIN xs.sigma_s = DOMAIN xs.sigma_t
    BY <1>5
  <2>2. \A id \in DOMAIN xs.sigma_t :
          xs.sigma_t[id] \in IntVectors(n) /\ xs.sigma_s[id] \in IntMatrices(n)
    BY <1>3, <1>5
  <2>3. /\ DOMAIN xs.nu_sigma_f = DOMAIN xs.fiss_transfer
        /\ DOMAIN xs.fiss_transfer \subseteq DOMAIN xs.sigma_t
    BY <1>2, <1>5, <1>6
  <2>4. \A id \in DOMAIN xs.fiss_transfer :
          /\ xs.nu_sigma_f[id] \in IntVectors(n)
          /\ \E chi : IsFission(xs.fiss_transfer[id], xs.nu_sigma_f[id], chi, n)
    BY <1>4, <1>6, <1>8
  <2>5. DOMAIN xs.q \subseteq DOMAIN xs.sigma_t /\ \A id \in DOMAIN xs.q : xs.q[id] \in IntVectors(n)
    BY <1>3, <1>5, <1>7
  <2> QED
    BY <2>1, <2>2, <2>3, <2>4, <2>5 DEF DataOf
<1> QED
  BY <1>9 DEF xs

\* What a material is scaled and collapsed to.
LEMMA CollapsedVector ==
  ASSUME NEW n \in Nat, NEW vectors, NEW s, NEW id \in DOMAIN vectors,
         vectors[id] \in IntVectors(n)
  PROVE  /\ CollapseVector(ScaleVector(vectors, s))[id] = Total(Times(vectors[id], s[id], n))
         /\ CollapseVector(vectors)[id] = Total(vectors[id])
<1>1. DOMAIN vectors[id] = 1..n
  BY DEF IntVectors
<1>2. ScaleVector(vectors, s)[id] = Times(vectors[id], s[id], n)
  BY <1>1 DEF ScaleVector, Times
<1>3. id \in DOMAIN ScaleVector(vectors, s)
  BY DEF ScaleVector
<1> QED
  BY <1>2, <1>3 DEF CollapseVector

\* What the matrices of a material are scaled and collapsed to.
LEMMA CollapsedMatrix ==
  ASSUME NEW n \in Nat, NEW matrices, NEW s, NEW id \in DOMAIN matrices,
         matrices[id] \in IntMatrices(n)
  PROVE  /\ ScaleMatrix(matrices, s)[id] = Scaled(matrices[id], s[id], n)
         /\ CollapseMatrix(ScaleMatrix(matrices, s))[id]
              = Total(RowTotals(Scaled(matrices[id], s[id], n), n))
<1>1. DOMAIN matrices[id] = 1..n
  BY DEF IntMatrices
<1>2. ScaleMatrix(matrices, s)[id] = Scaled(matrices[id], s[id], n)
  BY <1>1 DEF ScaleMatrix, Scaled
<1>3. id \in DOMAIN ScaleMatrix(matrices, s)
  BY DEF ScaleMatrix
<1>4. DOMAIN Scaled(matrices[id], s[id], n) = 1..n
  BY DEF Scaled
<1>5. CollapseMatrix(ScaleMatrix(matrices, s))[id]
        = Total(RowTotals(Scaled(matrices[id], s[id], n), n))
  BY <1>2, <1>3, <1>4 DEF CollapseMatrix, RowTotals
<1> QED
  BY <1>2, <1>5

\* The transposed matrix.
Flipped(m, n) == [g \in 1..n |-> Column(m, n, g)]

\* What they are collapsed to without scaling, and what is transposed.
LEMMA UnscaledMatrix ==
  ASSUME NEW n \in Nat, NEW matrices, NEW id \in DOMAIN matrices,
         matrices[id] \in IntMatrices(n)
  PROVE  /\ CollapseMatrix(matrices)[id] = Total(RowTotals(matrices[id], n))
         /\ id \in DOMAIN Transposed(matrices)
         /\ Transposed(matrices)[id] = Flipped(matrices[id], n)
<1>1. DOMAIN matrices[id] = 1..n
  BY DEF IntMatrices
<1>2. CollapseMatrix(matrices)[id] = Total(RowTotals(matrices[id], n))
  BY <1>1 DEF CollapseMatrix, RowTotals
<1>3. Transposed(matrices)[id] = Flipped(matrices[id], n)
  BY <1>1 DEF Transposed, Column, Flipped
<1> QED
  BY <1>2, <1>3 DEF Transposed

\* Transposing swaps groups and keeps the total.
LEMMA FlippedIs ==
  ASSUME NEW n \in Nat, NEW m \in IntMatrices(n)
  PROVE  /\ Flipped(m, n) \in IntMatrices(n)
         /\ \A g, h \in 1..n : Flipped(m, n)[g][h] = m[h][g]
         /\ Total(RowTotals(Flipped(m, n), n)) = Total(RowTotals(m, n))
<1>1. Flipped(m, n) \in IntMatrices(n)
  BY ColumnIs DEF Flipped, IntMatrices
<1>2. RowTotals(Flipped(m, n), n) = ColumnTotals(m, n)
  BY DEF Flipped, RowTotals, ColumnTotals
<1>3. \A g, h \in 1..n : Flipped(m, n)[g][h] = m[h][g]
  BY DEF Flipped, Column
<1> QED
  BY <1>1, <1>2, <1>3, SumsExchange

\* An entry of the fission matrix is a product.
LEMMA FissionMatrix ==
  ASSUME NEW n \in Nat, NEW nu \in IntVectors(n), NEW chi, NEW m, IsFission(m, nu, chi, n)
  PROVE  m \in IntMatrices(n) /\ \A g, h \in 1..n : m[h][g] = nu[h] * chi[g]
<1>1. m = [h \in 1..n |-> [g \in 1..n |-> nu[h] * chi[g]]] /\ chi \in IntVectors(n)
  BY DEF IsFission
<1>2. \A h \in 1..n : nu[h] \in Int /\ chi[h] \in Int
  BY <1>1 DEF IntVectors
<1>3. \A h, g \in 1..n : nu[h] * chi[g] \in Int
  BY <1>2
<1>4. \A h \in 1..n : [g \in 1..n |-> nu[h] * chi[g]] \in IntVectors(n)
  BY <1>3 DEF IntVectors
<1> QED
  BY <1>1, <1>4 DEF IntMatrices

\* What the material absorbs in all groups under a spectral shape.
Absorbed(xs, shape, id, n) ==
  Total([g \in 1..n |->
           shape[g] * (xs.sigma_t[id][g] - Total([h \in 1..n |-> xs.sigma_s[id][h][g]]))])
\* And what it produces.
Produced(xs, shape, id, n) == Total([g \in 1..n |-> shape[g] * ChiUnit * xs.nu_sigma_f[id][g]])

\* The absorption of the constructor with scaling, written per group.
LEMMA CollapsedAbsorption ==
  ASSUME NEW n \in Nat, NEW xs, DataOf(xs, n), NEW s, NEW id \in DOMAIN xs.sigma_t,
         s[id] \in IntVectors(n)
  PROVE  Collapsed(xs, s).sigma_absorption[id] = Absorbed(xs, s[id], id, n)
<1> DEFINE sigma_t == CollapseVector(ScaleVector(xs.sigma_t, s))
           sigma_s == CollapseMatrix(ScaleMatrix(xs.sigma_s, s))
           t == xs.sigma_t[id]
           m == xs.sigma_s[id]
           f == s[id]
<1>1. t \in IntVectors(n) /\ m \in IntMatrices(n) /\ id \in DOMAIN xs.sigma_s
  BY DEF DataOf
<1>2. sigma_t[id] = Total(Times(t, f, n))
  BY <1>1, CollapsedVector
<1>3. sigma_s[id] = Total(RowTotals(Scaled(m, f, n), n))
  <2>1. xs.sigma_s[id] \in IntMatrices(n)
    BY <1>1
  <2> DEFINE matrices == xs.sigma_s
  <2> HIDE DEF matrices
  <2>2. CollapseMatrix(ScaleMatrix(matrices, s))[id]
          = Total(RowTotals(Scaled(matrices[id], s[id], n), n))
    BY <1>1, <2>1, CollapsedMatrix DEF matrices
  <2> QED
    BY <2>2 DEF matrices
<1>4. id \in DOMAIN sigma_t
  BY DEF CollapseVector, ScaleVector
<1>5. Collapsed(xs, s).sigma_absorption = [i \in DOMAIN sigma_t |-> sigma_t[i] - sigma_s[i]]
  BY DEF Collapsed
<1> HIDE DEF sigma_t, sigma_s, t, m, f
<1>6. Collapsed(xs, s).sigma_absorption[id] = sigma_t[id] - sigma_s[id]
  BY <1>4, <1>5
<1>7. f \in IntVectors(n)
  BY DEF f
<1>8. Total(Times(t, f, n)) - Total(RowTotals(Scaled(m, f, n), n))
        = Total([g \in 1..n |-> f[g] * (t[g] - Total(Column(m, n, g)))])
  BY <1>1, <1>7, AbsorbedInAll
<1> QED
  BY <1>2, <1>3, <1>6, <1>8 DEF Absorbed, Column, t, m, f

\* The fission matrix that is transposed before it is scaled by columns
\* collapses to the production of every incoming group.
LEMMA CollapsedFission ==
  ASSUME NEW n \in Nat, NEW xs, DataOf(xs, n), NEW s, NEW id \in DOMAIN xs.fiss_transfer,
         s[id] \in IntVectors(n)
  PROVE  Collapsed(xs, s).fiss_transfer[id] = Produced(xs, s[id], id, n)
<1> DEFINE m == xs.fiss_transfer[id]
           nu == xs.nu_sigma_f[id]
           f == s[id]
           turned == Transposed(xs.fiss_transfer)
<1>1. nu \in IntVectors(n) /\ \E chi : IsFission(m, nu, chi, n)
  BY DEF DataOf
<1>2. PICK chi : IsFission(m, nu, chi, n)
  BY <1>1
<1>3. chi \in IntVectors(n) /\ Total(chi) = ChiUnit
  BY <1>2 DEF IsFission
<1>4. m \in IntMatrices(n) /\ \A g, h \in 1..n : m[h][g] = nu[h] * chi[g]
  BY <1>1, <1>2, FissionMatrix
<1>5. id \in DOMAIN turned /\ turned[id] = Flipped(m, n)
  BY <1>4, UnscaledMatrix
<1>6. turned[id] \in IntMatrices(n) /\ \A g, h \in 1..n : turned[id][g][h] = nu[h] * chi[g]
  BY <1>4, <1>5, FlippedIs
<1>7. Collapsed(xs, s).fiss_transfer = CollapseMatrix(ScaleMatrix(turned, s))
  BY DEF Collapsed
<1> HIDE DEF turned, m, nu, f
<1>8. f = s[id] /\ f \in IntVectors(n)
  BY DEF f
<1>9. CollapseMatrix(ScaleMatrix(turned, s))[id] = Total(RowTotals(Scaled(turned[id], f, n), n))
  <2>1. CollapseMatrix(ScaleMatrix(turned, s))[id] = Total(RowTotals(Scaled(turned[id], s[id], n), n))
    BY <1>5, <1>6, CollapsedMatrix
  <2> QED
    BY <1>8, <2>1
<1>10. Total(RowTotals(Scaled(turned[id], f, n), n)) = Total([g \in 1..n |-> f[g] * Total(chi) * nu[g]])
  <2> DEFINE w == turned[id]
  <2>1. w \in IntMatrices(n) /\ \A g, h \in 1..n : w[g][h] = nu[h] * chi[g]
    BY <1>6
  <2> HIDE DEF w
  <2>2. Total(RowTotals(Scaled(w, f, n), n)) = Total([g \in 1..n |-> f[g] * Total(chi) * nu[g]])
    BY <1>1, <1>3, <1>8, <2>1, BornInAll
  <2> QED
    BY <2>2 DEF w
<1> QED
  BY <1>3, <1>7, <1>8, <1>9, <1>10 DEF Produced, nu

\* The same weight for every group.
OneEach(n) == [g \in 1..n |-> 1]

\* Equal weights change nothing.
LEMMA ScaledByOne ==
  ASSUME NEW n \in Nat
  PROVE  /\ OneEach(n) \in IntVectors(n)
         /\ \A v \in IntVectors(n) : Times(v, OneEach(n), n) = v
         /\ \A m \in IntMatrices(n) : Scaled(m, OneEach(n), n) = m
<1>1. OneEach(n) \in IntVectors(n)
  BY DEF OneEach, IntVectors
<1>2. ASSUME NEW v \in IntVectors(n) PROVE Times(v, OneEach(n), n) = v
  <2>1. \A g \in 1..n : v[g] \in Int /\ OneEach(n)[g] = 1
    BY DEF IntVectors, OneEach
  <2>2. \A g \in 1..n : v[g] * OneEach(n)[g] = v[g]
    BY <2>1
  <2> QED
    BY <2>2 DEF Times, IntVectors
<1>3. ASSUME NEW m \in IntMatrices(n) PROVE Scaled(m, OneEach(n), n) = m
  <2>1. \A g \in 1..n : m[g] \in IntVectors(n)
    BY DEF IntMatrices
  <2>2. \A g \in 1..n : [h \in 1..n |-> m[g][h] * OneEach(n)[h]] = m[g]
    BY <1>2, <2>1 DEF Times
  <2> QED
    BY <2>2 DEF Scaled, IntMatrices
<1> QED
  BY <1>1, <1>2, <1>3

\* Vectors collapse to the same numbers without scaling.
LEMMA VectorsUnscaled ==
  ASSUME NEW n \in Nat, NEW vectors, NEW s,
         \A id \in DOMAIN vectors : vectors[id] \in IntVectors(n) /\ s[id] = OneEach(n)
  PROVE  CollapseVector(ScaleVector(vectors, s)) = CollapseVector(vectors)
<1>1. ASSUME NEW id \in DOMAIN vectors
      PROVE  CollapseVector(ScaleVector(vectors, s))[id] = CollapseVector(vectors)[id]
  <2>1. vectors[id] \in IntVectors(n) /\ s[id] = OneEach(n)
    OBVIOUS
  <2>2. /\ CollapseVector(ScaleVector(vectors, s))[id] = Total(Times(vectors[id], s[id], n))
        /\ CollapseVector(vectors)[id] = Total(vectors[id])
    BY <2>1, CollapsedVector
  <2> QED
    BY <2>1, <2>2, ScaledByOne
<1>2. /\ DOMAIN ScaleVector(vectors, s) = DOMAIN vectors
  BY DEF ScaleVector
<1>3. /\ CollapseVector(ScaleVector(vectors, s))
           = [id \in DOMAIN vectors |-> CollapseVector(ScaleVector(vectors, s))[id]]
      /\ CollapseVector(vectors) = [id \in DOMAIN vectors |-> CollapseVector(vectors)[id]]
  BY <1>2 DEF CollapseVector
<1> QED
  BY <1>1, <1>3

\* And matrices, transposed or not.
LEMMA MatricesUnscaled ==
  ASSUME NEW n \in Nat, NEW matrices, NEW s,
         \A id \in DOMAIN matrices : matrices[id] \in IntMatrices(n) /\ s[id] = OneEach(n)
  PROVE  /\ CollapseMatrix(ScaleMatrix(matrices, s)) = CollapseMatrix(matrices)
         /\ CollapseMatrix(ScaleMatrix(Transposed(matrices), s)) = CollapseMatrix(matrices)
         /\ \A id \in DOMAIN matrices : ScaleMatrix(matrices, s)[id] = matrices[id]
<1> DEFINE turned == Transposed(matrices)
<1>1. ASSUME NEW id \in DOMAIN matrices
      PROVE  /\ ScaleMatrix(matrices, s)[id] = matrices[id]
             /\ CollapseMatrix(ScaleMatrix(matrices, s))[id] = CollapseMatrix(matrices)[id]
             /\ CollapseMatrix(ScaleMatrix(turned, s))[id] = CollapseMatrix(matrices)[id]
  <2>1. matrices[id] \in IntMatrices(n) /\ s[id] = OneEach(n)
    OBVIOUS
  <2>2. /\ ScaleMatrix(matrices, s)[id] = Scaled(matrices[id], s[id], n)
        /\ CollapseMatrix(ScaleMatrix(matrices, s))[id]
             = Total(RowTotals(Scaled(matrices[id], s[id], n), n))
    BY <2>1, CollapsedMatrix
  <2>3. /\ CollapseMatrix(matrices)[id] = Total(RowTotals(matrices[id], n))
        /\ id \in DOMAIN turned /\ turned[id] = Flipped(matrices[id], n)
    BY <2>1, UnscaledMatrix
  <2>4. Scaled(matrices[id], s[id], n) = matrices[id]
    BY <2>1, ScaledByOne
  <2>5. turned[id] \in IntMatrices(n) /\ Total(RowTotals(turned[id], n)) = Total(RowTotals(matrices[id], n))
    BY <2>1, <2>3, FlippedIs
  <2> HIDE DEF turned
  <2>6. CollapseMatrix(ScaleMatrix(turned, s))[id] = Total(RowTotals(Scaled(turned[id], s[id], n), n))
    BY <2>3, <2>5, CollapsedMatrix
  <2>7. Scaled(turned[id], s[id], n) = turned[id]
    BY <2>1, <2>5, ScaledByOne
  <2> QED
    BY <2>2, <2>3, <2>4, <2>5, <2>6, <2>7
<1>2. /\ DOMAIN ScaleMatrix(matrices, s) = DOMAIN matrices
      /\ DOMAIN ScaleMatrix(turned, s) = DOMAIN matrices
  BY DEF ScaleMatrix, Transposed
<1> HIDE DEF turned
<1>3. /\ CollapseMatrix(ScaleMatrix(matrices, s))
           = [id \in DOMAIN matrices |-> CollapseMatrix(ScaleMatrix(matrices, s))[id]]
      /\ CollapseMatrix(ScaleMatrix(turned, s))
           = [id \in DOMAIN matrices |-> CollapseMatrix(ScaleMatrix(turned, s))[id]]
      /\ CollapseMatrix(matrices) = [id \in DOMAIN matrices |-> CollapseMatrix(matrices)[id]]
  BY <1>2 DEF CollapseMatrix
<1> QED
  BY <1>1, <1>3 DEF turned

\* The constructor with scaling, given ones, is the one without.
LEMMA UnscaledCollapse ==
  ASSUME NEW n \in Nat, NEW xs, DataOf(xs, n)
  PROVE  Collapsed(xs, [id \in DOMAIN xs.sigma_t |-> OneEach(n)]) = CollapsedUnscaled(xs)
<1> DEFINE ones == [id \in DOMAIN xs.sigma_t |-> OneEach(n)]
<1>1. CollapseVector(ScaleVector(xs.sigma_t, ones)) = CollapseVector(xs.sigma_t)
  BY VectorsUnscaled DEF DataOf
<1>2. CollapseVector(ScaleVector(xs.nu_sigma_f, ones)) = CollapseVector(xs.nu_sigma_f)
  <2>1. \A id \in DOMAIN xs.nu_sigma_f :
          xs.nu_sigma_f[id] \in IntVectors(n) /\ ones[id] = OneEach(n)
    BY DEF DataOf
  <2> QED
    BY <2>1, VectorsUnscaled
<1>3. CollapseVector(ScaleVector(xs.q, ones)) = CollapseVector(xs.q)
  <2>1. \A id \in DOMAIN xs.q : xs.q[id] \in IntVectors(n) /\ ones[id] = OneEach(n)
    BY DEF DataOf
  <2> QED
    BY <2>1, VectorsUnscaled
<1>4. /\ CollapseMatrix(ScaleMatrix(xs.sigma_s, ones)) = CollapseMatrix(xs.sigma_s)
      /\ \A id \in DOMAIN xs.sigma_s : ScaleMatrix(xs.sigma_s, ones)[id] = xs.sigma_s[id]
  <2>1. \A id \in DOMAIN xs.sigma_s : xs.sigma_s[id] \in IntMatrices(n) /\ ones[id] = OneEach(n)
    BY DEF DataOf
  <2> QED
    BY <2>1, MatricesUnscaled
<1>5. CollapseMatrix(ScaleMatrix(Transposed(xs.fiss_transfer), ones)) = CollapseMatrix(xs.fiss_transfer)
  <2>1. ASSUME NEW id \in DOMAIN xs.fiss_transfer
        PROVE  xs.fiss_transfer[id] \in IntMatrices(n) /\ ones[id] = OneEach(n)
    <3>1. /\ xs.nu_sigma_f[id] \in IntVectors(n)
          /\ \E chi : IsFission(xs.fiss_transfer[id], xs.nu_sigma_f[id], chi, n)
      BY DEF DataOf
    <3>2. xs.fiss_transfer[id] \in IntMatrices(n)
      BY <3>1, FissionMatrix
    <3> QED
      BY <3>2 DEF DataOf
  <2> QED
    BY <2>1, MatricesUnscaled
<1>6. DOMAIN CollapseVector(xs.sigma_t) \subseteq DOMAIN xs.sigma_s
  BY DEF CollapseVector, DataOf
<1> HIDE DEF ones
<1>7. [id \in DOMAIN CollapseVector(xs.sigma_t) |->
         CollapseVector(xs.sigma_t)[id] - WithinGroup(ScaleMatrix(xs.sigma_s, ones)[id])]
        = [id \in DOMAIN CollapseVector(xs.sigma_t) |->
             CollapseVector(xs.sigma_t)[id] - WithinGroup(xs.sigma_s[id])]
  BY <1>4, <1>6
<1>8. Collapsed(xs, ones) = CollapsedUnscaled(xs)
  BY <1>1, <1>2, <1>3, <1>4, <1>5, <1>7 DEF Collapsed, CollapsedUnscaled
<1> QED
  BY <1>8 DEF ones

\* The collapsed data, from the step that makes them on.
CollapseInv == collapsed # None => Accepted /\ CollapsePreservesReactions

\* The cross sections of a run are numbers of its groups.
LEMMA RunData ==
  ASSUME SetUpInv, Accepted
  PROVE  /\ parameters.neutron_energy_groups \in Nat
         /\ DataOf(cross_sections, parameters.neutron_energy_groups)
<1> DEFINE materials == MaterialsOf(input.material_files)
<1>1. /\ input \in ParsedInputs /\ InputError(input) = "none"
      /\ cross_sections = PopulateData(materials, IsEigenvalueSolve(input))
      /\ parameters = ToFrameworkParameters(input)
  BY DEF SetUpInv, AcceptedInv
<1>2. \A id \in DOMAIN materials : materials[id] \in ReadMaterial
  BY <1>1, ReadMaterials
<1> HIDE DEF materials
<1>3. MaterialError(materials, IsEigenvalueSolve(input), input.n_groups, input.n_materials) = "none"
  BY <1>1 DEF InputError, materials
<1>4. IsEigenvalueSolve(input) \in BOOLEAN
  BY DEF IsEigenvalueSolve
<1>5. DataOf(cross_sections, input.n_groups)
  BY <1>1, <1>2, <1>3, <1>4, AcceptedData
<1>6. parameters.neutron_energy_groups = input.n_groups /\ input.n_groups \in Nat
  BY <1>1, ParsedEntries DEF ToFrameworkParameters
<1> QED
  BY <1>5, <1>6

\* The data preserve the reactions when they are collapsed.
LEMMA NewCollapse ==
  ASSUME SetUpInv, ParametersInv, Collapse, collapsed' # collapsed
  PROVE  Accepted' /\ CollapsePreservesReactions'
<1> DEFINE xs == cross_sections
           n == parameters.neutron_energy_groups
<1>1. Accepted
  <2>1. phase = "collapse"
    BY DEF Collapse
  <2> QED
    BY <2>1, BuildingIsAccepted DEF Building
<1>2. n \in Nat /\ DataOf(xs, n)
  BY <1>1, RunData
<1>3. parameters' = parameters /\ cross_sections' = cross_sections
  BY DEF Collapse
<1>4. PICK s \in [DOMAIN xs.sigma_t -> {shape \in Scalings : Len(shape) = n}] :
        collapsed' = [one_group |-> Collapsed(xs, s), scaling |-> s]
  BY DEF Collapse
<1>5. ASSUME NEW id \in DOMAIN xs.sigma_t PROVE s[id] \in IntVectors(n)
  <2>1. s[id] \in Seq(Int) /\ Len(s[id]) = n
    BY <1>4, SetUpAssumption
  <2> QED
    BY <2>1 DEF IntVectors
<1>6. collapsed'.one_group = Collapsed(xs, s) /\ collapsed'.scaling = s
  BY <1>4
<1> HIDE DEF xs, n
<1>7. \A id \in DOMAIN xs.sigma_t :
        Collapsed(xs, s).sigma_absorption[id] = Absorbed(xs, s[id], id, n)
  <2> TAKE id \in DOMAIN xs.sigma_t
  <2>1. s[id] \in IntVectors(n)
    BY <1>5
  <2> QED
    BY <1>2, <2>1, CollapsedAbsorption
<1>8. \A id \in DOMAIN xs.fiss_transfer :
        Collapsed(xs, s).fiss_transfer[id] = Produced(xs, s[id], id, n)
  <2>1. DOMAIN xs.fiss_transfer \subseteq DOMAIN xs.sigma_t
    BY <1>2 DEF DataOf
  <2> QED
    BY <1>2, <1>5, <2>1, CollapsedFission
<1>9. Collapsed(xs, [id \in DOMAIN xs.sigma_t |-> [g \in 1..n |-> 1]]) = CollapsedUnscaled(xs)
  BY <1>2, UnscaledCollapse DEF OneEach
<1>10. xs' = xs /\ n' = n
  BY <1>3 DEF xs, n
<1>11. CollapsePreservesReactions'
  BY <1>6, <1>7, <1>8, <1>9, <1>10 DEF CollapsePreservesReactions, Absorbed, Produced, xs, n
<1> QED
  BY <1>1, <1>3, <1>11 DEF Accepted

\* Every step keeps the cross sections that were collapsed.
LEMMA NextCollapseInv == SetUpInv /\ ParametersInv /\ CollapseInv /\ [Next]_vars => CollapseInv'
<1> SUFFICES ASSUME SetUpInv, ParametersInv, CollapseInv, [Next]_vars
             PROVE  CollapseInv'
  OBVIOUS
<1>1. ASSUME collapsed' = collapsed, cross_sections' = cross_sections, parameters' = parameters
      PROVE  CollapseInv'
  BY <1>1 DEF CollapseInv, Accepted, CollapsePreservesReactions
<1>2. CASE ReadParameters \/ MakeParameters
  <2>1. collapsed' = collapsed /\ parameters = None
    BY <1>2 DEF ReadParameters, MakeParameters, Step, SetUpInv, AcceptedInv
  <2> QED
    BY <2>1 DEF CollapseInv, Accepted
<1>3. CASE Collapse
  <2>1. cross_sections' = cross_sections /\ parameters' = parameters
    BY <1>3 DEF Collapse
  <2> QED
    BY <1>1, <1>3, <2>1, NewCollapse DEF CollapseInv
<1>4. CASE BuildDomain \/ SetUpDomain \/ BuildQuadrature \/ BuildSolutions \/ BuildSystem \/ ReflectAngle
  BY <1>1, <1>4 DEF BuildDomain, SetUpDomain, BuildQuadrature, BuildSolutions, BuildSystem,
                    ReflectAngle, core
<1>5. CASE UNCHANGED vars
  BY <1>1, <1>5 DEF vars, core
<1> QED
  BY <1>2, <1>3, <1>4, <1>5 DEF Next

\* For all material files that are accepted and all spectral shapes: one
\* group absorbs what all groups absorb under the shape, and produces what
\* they produce (CollapsedOneGroupCrossSections, with the scaling), and with
\* equal weights the two constructors make the same data.
THEOREM ReactionsArePreserved == Spec => []CollapsePreservesReactions
<1>1. Init => CollapseInv
  BY DEF Init, CollapseInv
<1>2. CollapseInv => CollapsePreservesReactions
  BY DEF CollapseInv, CollapsePreservesReactions
<1> QED
  BY <1>1, <1>2, NextCollapseInv, SetUpInvariant, ParametersInvariant, PTL DEF Spec
=============================================================================
