SPECIFICATION Spec
CONSTANT NestMax = 3
INVARIANT NDASolvesDriftDiffusion
