--------------------------- MODULE MCMainProgram ---------------------------
(***************************************************************************)
(* One and two processes; a solve of two outer iterations in two groups,   *)
(* with nested solves of two.  The fluxes have four samples, so that the roots  *)
(* of unity are 1, -i, -1 and i, and are multiples of four, so that the    *)
(* normalized transforms are whole.  Buffers hold one character, a line    *)
(* or two, or everything: nothing, something and all is left to the end.   *)
(* The local sums of the processes have one and two digits.                *)
(***************************************************************************)
EXTENDS MainProgram

MCRoot == (0 :> <<1, 0>>) @@ (1 :> <<0, -1>>) @@ (2 :> <<-1, 0>>) @@ (3 :> <<0, 1>>)

MCIterate(k) ==
  IF k = 1 THEN (0 :> <<4, 8, 4, 0>>) @@ (1 :> <<0, 4, 12, 4>>)
  ELSE (0 :> <<8, 8, 0, 4>>) @@ (1 :> <<4, 0, 8, 8>>)

MCLocalSource(p, k) == 9 * p + k

MCWidth(v) == (IF v < 0 THEN 1 ELSE 0) + (IF AbsoluteOf(v) < 10 THEN 1 ELSE 2)

Everything == {"eigenvalue", "angular", "reflective", "aggregated sources",
               "inner iterations", "scalar flux", "fission source", "scattering source"}

MCOptionSets ==
  {{}, {"inner iterations", "fission source", "fourier"},
   Everything, Everything \union {"fourier"},
   {"eigenvalue", "nda", "angular", "aggregated sources", "scalar flux", "fourier"},
   {"eigenvalue", "two grid", "inner iterations", "scattering source", "fourier"}}
=============================================================================
