------------------------------ MODULE Materials ------------------------------
(***************************************************************************)
(* The material files: what makes a set of them acceptable, the cross      *)
(* sections made of them, and their collapse to one group.                 *)
(*                                                                         *)
(* A material is a record: the number of groups, whether it is fissionable *)
(* and its vector and matrix properties as sequences of an id and values.  *)
(* Values are integers; ChiUnit stands for the one a fission spectrum sums *)
(* to.  A matrix is the sequence of its values row by row.  Quantities per *)
(* steradian are the same numbers divided by 4 pi and are left out.        *)
(***************************************************************************)
EXTENDS Integers, Sequences, SequencesExt

CONSTANT ChiUnit

Property(id, values) == [id |-> id, values |-> values]
File(status, material) == [status |-> status, material |-> material]
Material(groups, fissionable, vectors, matrices) ==
  [number_of_groups |-> groups, is_fissionable |-> fissionable,
   vectors |-> vectors, matrices |-> matrices]

HasProperty(properties, id) == \E i \in DOMAIN properties : properties[i].id = id
\* The first property of that id; no values when there is none.
GetProperty(properties, id) ==
  IF HasProperty(properties, id)
  THEN properties[CHOOSE i \in DOMAIN properties :
                    /\ properties[i].id = id
                    /\ \A j \in 1..i - 1 : properties[j].id # id].values
  ELSE <<>>
GetVectorProperty(material, id) == GetProperty(material.vectors, id)
\* Rows are outgoing groups, columns incoming ones.
GetScatteringMatrix(material) ==
  LET n == material.number_of_groups
      raw == GetProperty(material.matrices, "SIGMA_S")
  IN  [g \in 1..n |-> [g_in \in 1..n |-> raw[(g - 1) * n + g_in]]]

(***************************************************************************)
(* CheckValid: the first of these that fails throws.                       *)
(***************************************************************************)
RequiredVectors(fissile) ==
  {"ENERGY_GROUPS", "SIGMA_T"} \cup (IF fissile THEN {"NU_SIG_F", "CHI"} ELSE {})
CheckedVectors(material, fissile) ==
  RequiredVectors(fissile)
    \cup {id \in {"Q", "DIFFUSION_COEFF"} : HasProperty(material.vectors, id)}
RequiredCount(id, n) == IF id = "ENERGY_GROUPS" THEN n + 1 ELSE n

DefinedTwice(properties, unknown) ==
  \E i, j \in DOMAIN properties : i < j /\ properties[i].id = properties[j].id
                                        /\ properties[i].id # unknown
MultipleDefinition(material) ==
  \/ DefinedTwice(material.vectors, "UNKNOWN_VECTOR")
  \/ DefinedTwice(material.matrices, "UNKNOWN_MATRIX")
MissingProperty(material, fissile) ==
  \/ \E id \in RequiredVectors(fissile) : ~HasProperty(material.vectors, id)
  \/ ~HasProperty(material.matrices, "SIGMA_S")
\* Mutant: the properties a material may leave out are not counted.
RequiredNumberOfValues(material, fissile) ==
  LET n == material.number_of_groups
  IN  \/ \E id \in RequiredVectors(fissile) :
           Len(GetVectorProperty(material, id)) # RequiredCount(id, n)
      \/ Len(GetProperty(material.matrices, "SIGMA_S")) # n * n
WrongNumberOfValues(material, fissile) ==
  LET n == material.number_of_groups
  IN  \/ \E id \in CheckedVectors(material, fissile) :
           Len(GetVectorProperty(material, id)) # RequiredCount(id, n)
      \/ Len(GetProperty(material.matrices, "SIGMA_S")) # n * n
AnyNegative(values) == \E i \in DOMAIN values : values[i] < 0
WrongSign(material, fissile) ==
  \/ \E id \in CheckedVectors(material, fissile) : AnyNegative(GetVectorProperty(material, id))
  \/ AnyNegative(GetProperty(material.matrices, "SIGMA_S"))
EnergyGroupBoundariesNotSorted(material) ==
  LET e == GetVectorProperty(material, "ENERGY_GROUPS")
  IN  \E i \in 2..Len(e) - 1 : /\ ~(e[i - 1] > e[i] /\ e[i] > e[i + 1])
                               /\ ~(e[i - 1] < e[i] /\ e[i] < e[i + 1])
Total(values) ==
  LET sum[n \in 0..Len(values)] == IF n = 0 THEN 0 ELSE sum[n - 1] + values[n]
  IN  sum[Len(values)]
ChiDoesNotSumToOne(material, fissile) ==
  fissile /\ Total(GetVectorProperty(material, "CHI")) # ChiUnit

CheckValid(material, fissile) ==
  CASE MultipleDefinition(material) -> "MultipleDefinition"
    [] ~MultipleDefinition(material) /\ MissingProperty(material, fissile) -> "MissingProperty"
    [] OTHER ->
       IF WrongNumberOfValues(material, fissile) THEN "WrongNumberOfValues"
       ELSE IF WrongSign(material, fissile) THEN "WrongSign"
       ELSE IF EnergyGroupBoundariesNotSorted(material)
            THEN "EnergyGroupBoundariesNotSorted"
       ELSE IF ChiDoesNotSumToOne(material, fissile) THEN "ChiDoesNotSumToOne"
       ELSE "none"

\* All materials must have the groups and the energy boundaries of the first.
CheckConsistent(materials) ==
  LET energies(id) == GetVectorProperty(materials[id], "ENERGY_GROUPS")
  IN  CASE \E id, other \in DOMAIN materials :
             materials[id].number_of_groups # materials[other].number_of_groups ->
               "NumberOfGroupsMismatch"
        [] OTHER -> IF \E id, other \in DOMAIN materials : energies(id) # energies(other)
                    THEN "EnergyGroupsMismatch" ELSE "none"

(***************************************************************************)
(* The constructor.  Materials are fissile only in an eigenvalue problem.  *)
(***************************************************************************)
FissileIDs(materials, is_eigen) ==
  {id \in DOMAIN materials : is_eigen /\ materials[id].is_fissionable}
\* A file can be missing or unreadable, in either of the two formats.
ParseMaterials(file_names, files) ==
  LET statuses == {files[file_names[id]].status : id \in DOMAIN file_names}
  IN  CASE "missing" \in statuses -> "FailedToFindMaterialFile"
        [] "missing" \notin statuses /\ "unreadable" \in statuses ->
             "FailedToParseMaterialFile"
        [] OTHER -> "none"
InvalidMaterials(materials, fissile) ==
  {id \in DOMAIN materials : CheckValid(materials[id], id \in fissile) # "none"}
MaterialError(materials, is_eigen, n_groups, n_materials) ==
  LET fissile == FissileIDs(materials, is_eigen)
      invalid == InvalidMaterials(materials, fissile)
  IN  IF is_eigen /\ fissile = {} THEN "NoFissileIDs"
      ELSE IF Cardinality(DOMAIN materials) # n_materials THEN "WrongNumberOfMaterials"
      ELSE IF invalid # {}
           THEN LET first == CHOOSE id \in invalid : TRUE
                IN  CheckValid(materials[first], first \in fissile)
      ELSE IF \E id \in DOMAIN materials : materials[id].number_of_groups # n_groups
           THEN "WrongNumberOfGroups"
      ELSE CheckConsistent(materials)

(***************************************************************************)
(* The cross sections of accepted materials.  Fission data only of fissile *)
(* materials, fixed sources only of a problem that is no eigenvalue        *)
(* problem.  Rows of fiss_transfer are incoming groups, columns outgoing.  *)
(***************************************************************************)
OrZeros(material, id) ==
  IF HasProperty(material.vectors, id) THEN GetVectorProperty(material, id)
  ELSE [g \in 1..material.number_of_groups |-> 0]
FissionTransfer(nu_sigma_f, chi) ==
  [g_in \in DOMAIN nu_sigma_f |-> [g \in DOMAIN chi |-> nu_sigma_f[g_in] * chi[g]]]
PopulateData(materials, is_eigen) ==
  LET fissile == FissileIDs(materials, is_eigen)
      ids == DOMAIN materials
      vector(id, name) == GetVectorProperty(materials[id], name)
  IN  [sigma_t |-> [id \in ids |-> vector(id, "SIGMA_T")],
       sigma_s |-> [id \in ids |-> GetScatteringMatrix(materials[id])],
       diffusion_coef |-> [id \in ids |-> OrZeros(materials[id], "DIFFUSION_COEFF")],
       is_material_fissile |-> [id \in ids |-> id \in fissile],
       nu_sigma_f |-> [id \in fissile |-> vector(id, "NU_SIG_F")],
       fiss_transfer |-> [id \in fissile |->
                            FissionTransfer(vector(id, "NU_SIG_F"), vector(id, "CHI"))],
       q |-> [id \in {i \in ids : ~is_eigen} |-> OrZeros(materials[id], "Q")]]

(***************************************************************************)
(* Collapse to one group, with the scaling of every group and material.    *)
(***************************************************************************)
ScaleVector(vectors, scaling) ==
  [id \in DOMAIN vectors |-> [g \in DOMAIN vectors[id] |-> vectors[id][g] * scaling[id][g]]]
CollapseVector(vectors) == [id \in DOMAIN vectors |-> Total(vectors[id])]
\* Every column is scaled with its group.
ScaleMatrix(matrices, scaling) ==
  [id \in DOMAIN matrices |-> [g \in DOMAIN matrices[id] |->
     [g_in \in DOMAIN matrices[id] |-> matrices[id][g][g_in] * scaling[id][g_in]]]]
CollapseMatrix(matrices) ==
  [id \in DOMAIN matrices |-> Total([g \in DOMAIN matrices[id] |-> Total(matrices[id][g])])]
\* Mutant: the fission matrices are scaled as they are.
AsTheyAre(matrices) == [id \in DOMAIN matrices |-> matrices[id]]
Transposed(matrices) ==
  [id \in DOMAIN matrices |-> [g \in DOMAIN matrices[id] |->
     [g_in \in DOMAIN matrices[id] |-> matrices[id][g_in][g]]]]
WithinGroup(matrix) == Total([g \in DOMAIN matrix |-> matrix[g][g]])

Collapsed(xs, scaling) ==
  LET sigma_t == CollapseVector(ScaleVector(xs.sigma_t, scaling))
      sigma_s == ScaleMatrix(xs.sigma_s, scaling)
  IN  [sigma_t |-> sigma_t,
       sigma_s |-> CollapseMatrix(sigma_s),
       nu_sigma_f |-> CollapseVector(ScaleVector(xs.nu_sigma_f, scaling)),
       fiss_transfer |-> CollapseMatrix(ScaleMatrix(Transposed(xs.fiss_transfer), scaling)),
       q |-> CollapseVector(ScaleVector(xs.q, scaling)),
       sigma_absorption |-> [id \in DOMAIN sigma_t |->
                               sigma_t[id] - CollapseMatrix(sigma_s)[id]],
       sigma_removal |-> [id \in DOMAIN sigma_t |-> sigma_t[id] - WithinGroup(sigma_s[id])]]

\* Without scaling: plain sums, and no need to transpose.
CollapsedUnscaled(xs) ==
  LET sigma_t == CollapseVector(xs.sigma_t)
      sigma_s == CollapseMatrix(xs.sigma_s)
  IN  [sigma_t |-> sigma_t, sigma_s |-> sigma_s,
       nu_sigma_f |-> CollapseVector(xs.nu_sigma_f),
       fiss_transfer |-> CollapseMatrix(xs.fiss_transfer),
       q |-> CollapseVector(xs.q),
       sigma_absorption |-> [id \in DOMAIN sigma_t |-> sigma_t[id] - sigma_s[id]],
       sigma_removal |-> [id \in DOMAIN sigma_t |-> sigma_t[id] - WithinGroup(xs.sigma_s[id])]]
=============================================================================
