---------------------------- MODULE MainProgram ----------------------------
(***************************************************************************)
(* main(), the frameworks it builds and the instruments in their ports.    *)
(* Every process runs it.  A second framework, "fourier", repeats the      *)
(* solve of the first with an instrument that compares every iterate with  *)
(* what the first one converged to; it takes the same file names, while    *)
(* the first framework, released and not destroyed, still has its streams  *)
(* open.  Inside a framework may be another, which the outer iteration     *)
(* runs after each of its iterations and whose file names have a suffix.   *)
(*                                                                         *)
(* The solve itself is module OuterIteration's: here it is a sequence of   *)
(* iterates, the same for equal parameters (SolveIsRepeatable there).      *)
(***************************************************************************)
EXTENDS OutputFiles, Converters

CONSTANTS
  Sizes,          \* numbers of MPI processes tried
  Groups,         \* 0..n-1, the energy groups
  Iterations,     \* outer iterations the solve takes
  NestedIterations, \* outer iterations of each solve of a nested power iteration
  Iterate(_),     \* outer iteration -> [Groups -> vector], the scalar fluxes
  LocalSource(_,_), \* (process, outer iteration) -> what the cells it owns add
  OptionSets,     \* the sets of options tried
  BufferSizes     \* characters that fit into the buffer of a stream

Options == {"eigenvalue", "nda", "two grid", "angular", "reflective", "fourier",
            "aggregated sources", "inner iterations", "scalar flux",
            "fission source", "scattering source"}

ASSUME MainProgramAssumption ==
  /\ Sizes \subseteq Nat \ {0}
  /\ Iterations \in Nat \ {0} /\ NestedIterations \in Nat \ {0}
  /\ BufferSizes \subseteq Nat \ {0}
  /\ OptionSets \subseteq SUBSET Options

VARIABLES
  size,           \* of MPI_COMM_WORLD
  options,        \* of the input file; the same for every process
  arguments,      \* of the command line
  mapping,        \* how often the material mapping file can be opened
  throwsAt,       \* iteration of the solve that throws; 0 if none does
  bufferSize,
  phase,          \* [Processes -> where main is]
  iteration,      \* [Processes -> outer iterations done by this solve]
  outstreams,     \* [Processes -> streams and counters of module OutputFiles]
  disk,
  moments,        \* [Processes -> [solves -> current_moments of its framework]]
  previous,       \* [Processes -> what the Fourier instruments were built with]
  value,          \* [Processes -> [ports -> value_ of the source updater]]
  exposed,        \* [Processes -> [ports -> texts read there]], a history
  console,        \* [Processes -> the last line printed]
  exitCode        \* [Processes -> what main returned, or "running"]

programVars == <<size, options, arguments, mapping, throwsAt, bufferSize>>
stateVars == <<outstreams, disk, moments, previous, value, exposed>>
processVars == <<phase, iteration, stateVars, console, exitCode>>
vars == <<programVars, processVars>>

Processes == 0..size - 1

-----------------------------------------------------------------------------
\* Levels of the frameworks one BuildFramework call makes.
Levels == IF options \intersect {"nda", "two grid"} = {} THEN {0} ELSE {0, 1}

\* The two-grid framework is not given the eigenvalue solver.
IsEigenvalue(level) == "eigenvalue" \in options /\ (level = 0 \/ "two grid" \notin options)

IterationsOf(level) ==
  IF ~IsEigenvalue(level) THEN 1 ELSE IF level = 0 THEN Iterations ELSE NestedIterations

\* Bug: the nested framework keeps the base of the file names.
SameFilenameBase(level) == ""

\* FrameworkHelper: output_filename_base, with a suffix for a nested framework.
FilenameBase(level) ==
  IF level = 0 THEN "" ELSE IF "nda" \in options THEN "_nda" ELSE "_two_grid"

\* Only the formulation of the main framework and of the NDA is angular.
IsAngular(level) == "angular" \in options /\ (level = 0 \/ "two grid" \notin options)

When(condition, set) == IF condition THEN set ELSE {}

\* Ports of the updaters and the group iteration, whose .csv files are opened
\* before a nested framework is built.  Boundary conditions have an updater
\* only where SAAF has reflective boundaries.
InnerPorts(level) ==
  When("aggregated sources" \in options, {<<"fission source value">>, <<"scattering source value">>})
  \union When({"aggregated sources", "reflective"} \subseteq options /\ IsAngular(level),
              {<<"boundary source value">>})
  \union When("inner iterations" \in options, {<<"number of iterations">>})

\* Ports of the outer iteration, after it: the errors of a power iteration,
\* and one instrument per group in the array of the fourier framework.
OuterPorts(solve, level) ==
  When(IsEigenvalue(level), {<<"iteration error">>})
  \union When(solve = "fourier" /\ level = 0, {<<"solution moments", g>> : g \in Groups})

\* The directories of .vtu files of a group iteration and an outer iteration.
VTUPorts ==
  When("scattering source" \in options, {<<"inner scattering source">>, <<"outer scattering source">>})
  \union When("fission source" \in options, {<<"outer fission source">>})
  \union When("scalar flux" \in options, {<<"outer scalar flux">>})

Id(solve, level, port) == [solve |-> solve, level |-> level, port |-> port]
PathOf(id) == [base |-> FilenameBase(id.level), port |-> id.port, number |-> 0]

-----------------------------------------------------------------------------
\* What a step of process p reads and leaves: the disk, its own outstreams,
\* the moments of its frameworks and those its instruments keep, the values
\* its updaters have added up, and the history of its ports.
StateOf(p) ==
  [disk |-> disk, streams |-> outstreams[p].streams, counters |-> outstreams[p].counters,
   moments |-> moments[p], previous |-> previous[p],
   value |-> value[p], exposed |-> exposed[p]]

BecomesState(p, new) ==
  /\ disk' = new.disk
  /\ outstreams' = [outstreams EXCEPT ![p] = [streams |-> new.streams,
                                              counters |-> new.counters]]
  /\ moments' = [moments EXCEPT ![p] = new.moments]
  /\ previous' = [previous EXCEPT ![p] = new.previous]
  /\ value' = [value EXCEPT ![p] = new.value]
  /\ exposed' = [exposed EXCEPT ![p] = new.exposed]

\* A port with an instrument: what it exposes from now on is remembered.
Watched(state, id) == [state EXCEPT !.exposed = (id :> <<>>) @@ @]

OpenAll(state, solve, level, ports) ==
  FoldSet(LAMBDA port, left : LET id == Id(solve, level, port)
                              IN Watched(OpenStream(left, id, PathOf(id)), id), state, ports)

\* The instruments BuildFramework adds to the ports of one framework, around
\* what it does to build the nested one.
Instrumented(state, solve, level, Nested(_)) ==
  LET inner == Nested(OpenAll(state, solve, level, InnerPorts(level)))
      outer == OpenAll(inner, solve, level, OuterPorts(solve, level))
  IN FoldSet(LAMBDA port, left : LET id == Id(solve, level, port)
                                 IN Watched(NewCounter(left, id), id), outer, VTUPorts)

\* The Fourier instruments are built with copies of the moments the first
\* framework has then.
BuiltFramework(state, solve) ==
  LET built == Instrumented(state, solve, 0,
                 LAMBDA left : IF 1 \in Levels THEN Instrumented(left, solve, 1, LAMBDA l : l)
                               ELSE left)
  IN IF solve = "fourier" THEN [built EXCEPT !.previous = built.moments["main"]] ELSE built

-----------------------------------------------------------------------------
Remembered(state, id, text) == [state EXCEPT !.exposed[id] = Append(@, text)]

\* Instrument::Read and BasicInstrument::Read: the outstream gets the text.
Read(state, id, text) ==
  IF id \in DOMAIN state.streams THEN ToOstream(state, id, bufferSize, text)
  ELSE ToVTU(state, id, PathOf(id), text)

\* Port::Expose: an instrument reads the data if one was added.
Expose(state, solve, level, port, text) ==
  LET id == Id(solve, level, port)
  IN IF id \in DOMAIN state.streams \union DOMAIN state.counters
     THEN Read(Remembered(state, id, text), id, text)
     ELSE state

\* HasValue::Add for every cell an updater stamps: nothing resets the value.
AddValue(state, id, added) ==
  [state EXCEPT !.value = (id :> (IF id \in DOMAIN @ THEN @[id] + added ELSE added)) @@ @]

\* The sources are updated, and the SAAF updater adds them up; it has
\* boundary conditions to update where boundaries reflect.
UpdateSource(state, p, solve, level, port, k) ==
  IF IsAngular(level) /\ (port = <<"boundary source value">> => "reflective" \in options)
  THEN AddValue(state, Id(solve, level, port), LocalSource(p, k)) ELSE state

ValueOf(state, id) == IF id \in DOMAIN state.value THEN state.value[id] ELSE 0

\* GroupSourceIteration exposes value() of its updaters when it is done.
ExposeSource(state, solve, level, port) ==
  Expose(state, solve, level, port, DoubleToString(ValueOf(state, Id(solve, level, port))))

\* One pass of the group iteration up to its subroutine, and what its
\* ExposeIterationData adds after the subroutine.
Swept(state, p, solve, level, k) ==
  LET fission == IF IsEigenvalue(level)
                 THEN UpdateSource(state, p, solve, level, <<"fission source value">>, k) ELSE state
  IN UpdateSource(UpdateSource(fission, p, solve, level, <<"scattering source value">>, k),
                  p, solve, level, <<"boundary source value">>, k)
GroupIterated(corrected, solve, level, k) ==
  LET passed == Expose(corrected, solve, level, <<"inner scattering source">>, <<Value(k)>>)
      counted == Expose(passed, solve, level, <<"number of iterations">>, DoubleToString(1))
      scattered == ExposeSource(counted, solve, level, <<"scattering source value">>)
  IN ExposeSource(scattered, solve, level, <<"boundary source value">>)

\* InstrumentArray::Read: every group's instrument reads the moments.  The
\* number of its PairIncrementer before the call is that of earlier calls.
ExposeMoments(state, solve, level, k) ==
  FoldSet(LAMBDA g, left :
            Expose(left, solve, level, <<"solution moments", g>>,
                   FourierOfGroupError(state.previous[g], g, k - 2, state.moments[solve])),
          state, Groups)

\* OuterIteration::ExposeIterationData and that of the power iteration.
ExposeIterationData(state, solve, level, k) ==
  LET transformed == ExposeMoments(state, solve, level, k)
      flux == Expose(transformed, solve, level, <<"outer scalar flux">>, <<Value(Iterate(k))>>)
      scattering == Expose(flux, solve, level, <<"outer scattering source">>, <<Value(k)>>)
  IN IF ~IsEigenvalue(level) THEN scattering
     ELSE ExposeSource(Expose(scattering, solve, level, <<"outer fission source">>, <<Value(k)>>),
                       solve, level, <<"fission source value">>)

\* Only a power iteration has a delta to expose.
Checked(grouped, solve, level, k) ==
  IF IsEigenvalue(level)
  THEN Expose(grouped, solve, level, <<"iteration error">>, IntDoublePairToString(<<k, k>>))
  ELSE grouped

\* SolveSystem of the nested framework, which has no subroutines.
NestedSolved(state, p, solve) ==
  LET OuterIterated(left, k) ==
        ExposeIterationData(Checked(GroupIterated(Swept(left, p, solve, 1, k), solve, 1, k),
                                    solve, 1, k), solve, 1, k)
  IN FoldLeft(OuterIterated, state, [k \in 1..IterationsOf(1) |-> k])

\* One outer iteration of the framework of process p, the nested solve in its
\* place: after the pass for the two-grid method, after the check for NDA.
Iterated(state, p, solve, k) ==
  LET Subroutine(option, left) ==
        IF option \in options THEN NestedSolved(left, p, solve) ELSE left
      swept == [Swept(state, p, solve, 0, k) EXCEPT !.moments = (solve :> Iterate(k)) @@ @]
      grouped == GroupIterated(Subroutine("two grid", swept), solve, 0, k)
  IN ExposeIterationData(Subroutine("nda", Checked(grouped, solve, 0, k)), solve, 0, k)

-----------------------------------------------------------------------------
Init ==
  /\ size \in Sizes
  /\ options \in OptionSets
  /\ arguments \in {"filename", "pause", "help", "none"}
  /\ mapping \in 0..2
  /\ throwsAt \in 0..Iterations
  /\ bufferSize \in BufferSizes
  /\ phase = [p \in Processes |-> "started"]
  /\ iteration = [p \in Processes |-> 0]
  /\ outstreams = [p \in Processes |-> [streams |-> <<>>, counters |-> <<>>]]
  /\ disk = <<>>
  /\ moments = [p \in Processes |-> <<>>]
  /\ previous = [p \in Processes |-> <<>>]
  /\ value = [p \in Processes |-> <<>>]
  /\ exposed = [p \in Processes |-> <<>>]
  /\ console = [p \in Processes |-> <<>>]
  /\ exitCode = [p \in Processes |-> "running"]

SolveOf(p) == IF phase[p] \in {"fourier", "fourier solved"} THEN "fourier" ELSE "main"

\* What prints the status: instruments with a ToConditionalOstream.
Prints(p, text) == console' = [console EXCEPT ![p] = ToConditionalOstream(@, p, text)]

\* The streams of main itself, which serve the framework solved last.
ResultsId(p) == Id("program", 0, <<"results", p>>)
MasterId == Id("program", 0, <<"master">>)

Exits(p, code) == phase' = [phase EXCEPT ![p] = "exited"] /\ exitCode' = [exitCode EXCEPT ![p] = code]

\* RuntimeHelper::ParseArguments; --help and a missing filename fail.
ParseArguments(p) ==
  /\ phase[p] = "started"
  /\ IF arguments \in {"help", "none"} THEN Exits(p, 1)
     ELSE phase' = [phase EXCEPT ![p] = "parsed"] /\ UNCHANGED exitCode
  /\ UNCHANGED <<programVars, iteration, stateVars, console>>

\* The file of the results of each process and, with several, the master.
OpenOutput(p) ==
  /\ phase[p] = "parsed"
  /\ BecomesState(p, LET own == Watched(OpenStream(StateOf(p), ResultsId(p), PathOf(ResultsId(p))),
                                        ResultsId(p))
                     IN IF size = 1 THEN own ELSE OpenStream(own, MasterId, PathOf(MasterId)))
  /\ phase' = [phase EXCEPT ![p] = "opened"]
  /\ UNCHANGED <<programVars, iteration, console, exitCode>>

\* Exceptions unwind main: the frameworks it owns go, and the streams of
\* main itself; then it returns 1.
Unwound(p, owned) ==
  /\ BecomesState(p, CloseStreams(StateOf(p), owned))
  /\ Exits(p, 1)

StreamsOf(p, solves) == {id \in DOMAIN outstreams[p].streams : id.solve \in solves}

\* Every process takes part in the making of the mesh, so that a framework
\* is instrumented when all have come to build it.
AllCameTo(phases) == \A q \in Processes : phase[q] \in phases

\* FrameworkHelper reads the mapping file before it builds anything.
BuildFramework(p) ==
  /\ phase[p] = "opened"
  /\ AllCameTo({"opened", "built", "main", "exited"})
  /\ IF mapping = 0 THEN Unwound(p, StreamsOf(p, {"program"})) /\ UNCHANGED console
     ELSE /\ BecomesState(p, BuiltFramework(StateOf(p), "main"))
          /\ phase' = [phase EXCEPT ![p] = IF arguments = "pause" THEN "built" ELSE "main"]
          /\ Prints(p, StringColorPairToString(<<"Built", "green">>))
          /\ UNCHANGED exitCode
  /\ UNCHANGED <<programVars, iteration>>

\* <Enter> begins the solve.
EndPause(p) ==
  /\ phase[p] = "built"
  /\ phase' = [phase EXCEPT ![p] = "main"]
  /\ UNCHANGED <<programVars, iteration, stateVars, console, exitCode>>

\* No process is a whole iteration ahead of another: the solves are joint.
InStep(p) ==
  \A q \in Processes : phase[q] = phase[p] => iteration[q] >= iteration[p]

\* An outer iteration of SolveSystem.
SolveSystem(p) ==
  /\ phase[p] \in {"main", "fourier"}
  /\ AllCameTo({phase[p], IF phase[p] = "main" THEN "solved" ELSE "fourier solved", "exited"})
  /\ InStep(p)
  /\ LET k == iteration[p] + 1
     IN IF k = throwsAt
        THEN /\ Unwound(p, StreamsOf(p, {"program", phase[p]}))
             /\ UNCHANGED <<iteration, console>>
        ELSE /\ BecomesState(p, Iterated(StateOf(p), p, SolveOf(p), k))
             /\ iteration' = [iteration EXCEPT ![p] = IF k = IterationsOf(0) THEN 0 ELSE k]
             /\ phase' = IF k # IterationsOf(0) THEN phase
                         ELSE [phase EXCEPT ![p] = IF @ = "main" THEN "solved"
                                                   ELSE "fourier solved"]
             /\ Prints(p, ConvergenceToString([number |-> k, max |-> 1000, delta |-> {k},
                                               failedIndex |-> {}]))
             /\ UNCHANGED exitCode
  /\ UNCHANGED programVars

\* framework_ptr.release(): its streams stay as they are, for ever.
ReleaseFramework(state, ids) ==
  [state EXCEPT !.streams = [id \in DOMAIN @ \ ids |-> @[id]]]

\* The second framework, with the instruments that compare with the first.
BuildFourierFramework(p) ==
  /\ phase[p] = "solved" /\ "fourier" \in options
  /\ AllCameTo({"solved", "fourier", "exited"})
  /\ IF mapping = 1 THEN Unwound(p, StreamsOf(p, {"program", "main"})) /\ UNCHANGED console
     ELSE /\ BecomesState(p, ReleaseFramework(BuiltFramework(StateOf(p), "fourier"),
                                              StreamsOf(p, {"main"})))
          /\ phase' = [phase EXCEPT ![p] = "fourier"]
          /\ Prints(p, StringColorPairToString(<<"Built", "green">>))
          /\ UNCHANGED exitCode
  /\ UNCHANGED <<programVars, iteration>>

\* What a .vtu or .pvtu file holds of some data.
File(data) == <<"data", data>>

\* OutputDealiiVtu adds the fluxes of all groups and writes them.
WriteData(state, p) ==
  LET text == <<File(state.moments[SolveOf(p)])>>
  IN ToOstream(Remembered(state, ResultsId(p), text), ResultsId(p), bufferSize, text)

WriteMasterFile(state, p) ==
  ToOstream(state, MasterId, bufferSize, <<File({ResultsId(q) : q \in Processes})>>)

\* OutputResults and, by process 0, OutputMasterFile, of the framework solved
\* last; then main returns, which destroys the framework and the streams.
OutputResults(p) ==
  /\ phase[p] = (IF "fourier" \in options THEN "fourier solved" ELSE "solved")
  /\ LET written == WriteData(StateOf(p), p)
         all == IF MasterId \in DOMAIN written.streams /\ p = 0
                THEN WriteMasterFile(written, p) ELSE written
     IN BecomesState(p, CloseStreams(all, DOMAIN all.streams))
  /\ Exits(p, 0)
  /\ UNCHANGED <<programVars, iteration, console>>

Next ==
  \E p \in Processes :
    \/ ParseArguments(p)
    \/ OpenOutput(p)
    \/ BuildFramework(p)
    \/ EndPause(p)
    \/ SolveSystem(p)
    \/ BuildFourierFramework(p)
    \/ OutputResults(p)

Finished == (\A p \in Processes : phase[p] = "exited") /\ UNCHANGED vars

Spec == Init /\ [][Next \/ Finished]_vars

-----------------------------------------------------------------------------
AllExited == \A p \in Processes : phase[p] = "exited"

\* The solve whose framework was built last, with its files.
LastSolve ==
  IF "fourier" \in options /\ mapping = 2 /\ throwsAt \notin 1..IterationsOf(0) THEN "fourier" ELSE "main"

\* What a port exposes is the same in all processes, unless it is the sum a
\* SAAF updater makes over the cells its process owns, which is not reduced.
IsReplicated(id) ==
  \/ size = 1
  \/ ~IsAngular(id.level)
  \/ id.port \notin {<<"fission source value">>, <<"scattering source value">>,
                     <<"boundary source value">>}

(***************************************************************************)
(* When the program has ended, also by an exception, every file tells of   *)
(* one solve of one framework, the last that was given its name: it holds  *)
(* the texts of the values its port exposed, all of them, each once and in *)
(* order, character by character.  The frameworks, nested and repeated,    *)
(* the processes, and the streams nobody closes share a directory and many *)
(* names.  Set apart are the files of values that differ between the       *)
(* processes, which all write them (instrument_builder.cpp:166): these     *)
(* hold whatever the last writes left of each other.                       *)
(***************************************************************************)
FilesTellOneSolve ==
  AllExited =>
    \A p \in Processes : \A id \in DOMAIN exposed[p] :
      id.solve \in {LastSolve, "program"} /\ IsReplicated(id) =>
        IF id.port \in VTUPorts
        THEN /\ {path.number : path \in {f \in DOMAIN disk :
                                    PathOf(id) = [f EXCEPT !.number = 0]}}
                 = 0..Len(exposed[p][id]) - 1
             /\ \A i \in DOMAIN exposed[p][id] :
                  disk[[PathOf(id) EXCEPT !.number = i - 1]] = exposed[p][id][i]
        ELSE disk[PathOf(id)] =
               FlattenSeq([i \in DOMAIN exposed[p][id] |-> Printed(exposed[p][id][i])])

(***************************************************************************)
(* What the Fourier files hold is the error of every iterate of the second *)
(* solve: transformed back, record i of a group is the flux the first      *)
(* solve converged to less the flux of iteration i, and the last is zero.  *)
(* The instruments keep copies made between the two solves, which are      *)
(* followed with the moments they are copied from.                         *)
(***************************************************************************)
NumbersOf(content) ==
  LET first == SelectSeq(content, LAMBDA piece : piece[1] = "value" /\ piece[3] = 1)
  IN [i \in DOMAIN first |-> first[i][2]]

Conjugate(z) == <<z[1], -z[2]>>

\* The samples the coefficients of record i of a file belong to.
TransformedBack(content, i) ==
  LET at(k) == 2 * ((i - 1) * Samples + k)
      coefficient(k) == <<NumbersOf(content)[at(k) - 1], NumbersOf(content)[at(k)]>>
  IN [j \in 1..Samples |->
        SumOf([k \in 1..Samples |->
                 Times(coefficient(k), Conjugate(Root[((k - 1) * (j - 1)) % Samples]))])]

FourierFilesTellTheError ==
  AllExited /\ LastSolve = "fourier" /\ (\E p \in Processes : exitCode[p] = 0) =>
    \A g \in Groups :
      LET content == disk[PathOf(Id("fourier", 0, <<"solution moments", g>>))]
      IN /\ Len(NumbersOf(content)) = 2 * Samples * IterationsOf(0)
         /\ \A i \in 1..IterationsOf(0) :
              TransformedBack(content, i) =
                [j \in 1..Samples |-> <<Iterate(IterationsOf(0))[g][j] - Iterate(i)[g][j], 0>>]
=============================================================================
