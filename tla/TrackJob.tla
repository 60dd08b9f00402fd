------------------------------ MODULE TrackJob ------------------------------
(***************************************************************************)
(* A track job of SixTrackLib on the CPU (common/track/track_job_base.cpp, *)
(* common/track/track_job_cpu.cpp): the object that ties a particle buffer *)
(* and a line of beam elements to an output buffer, its own or one of the  *)
(* caller, and tracks.                                                     *)
(*                                                                         *)
(* The job and the beam monitors keep addresses of particle objects in the *)
(* output buffer.  A buffer that grows moves its objects, and a job frees  *)
(* the buffer it owns: the calls have to be ordered so that no address     *)
(* outlives its object.                                                    *)
(***************************************************************************)
EXTENDS OutputBuffer, SequencesExt

CONSTANTS
    Sets,           \* particle buffer -> its sets: <<first id, last id>>
    Selections,     \* the sets of set indices a caller selects
    Lines,          \* line -> its monitors, before any use
    NumElements,    \* beam elements in a line
    Externals,      \* output buffers of the caller
    Untils,         \* turns a caller asks for
    MaxTurn,        \* bound: turns tracked
    MaxObjects      \* bound: objects in an output buffer of the caller

None == "none"      \* a null pointer
Keep == {}          \* no selection given: the one the job has

\* Output buffers are numbers: 0 is the one of the job, -1 stands for none.
Own      == 0
NoBuffer == -1

ParticleBuffers == DOMAIN Sets
Buffers == Externals \cup {Own}

\* Every line holds at least one element, and ids are valid.
ASSUME TrackJobAssumption ==
    /\ \A b \in ParticleBuffers : Sets[b] \in Seq(Nat \X Nat) /\ Len(Sets[b]) > 0
    /\ \A b \in ParticleBuffers : \A i \in DOMAIN Sets[b] : Sets[b][i][1] <= Sets[b][i][2]
    /\ Selections \subseteq SUBSET Nat
    /\ Lines \in [DOMAIN Lines -> Seq(Monitors)]
    /\ NumElements \in Nat \ {0} /\ Untils \subseteq Nat
    /\ MaxTurn \in Nat /\ MaxObjects \in Nat
    /\ None \notin ParticleBuffers \cup DOMAIN Lines
    /\ Externals \subseteq Nat \ {Own}

VARIABLES
    turn,       \* particle buffer -> set index (from 1) -> turn it is at
    lines,      \* line -> its monitors
    buffers,    \* output buffer -> its objects
    job         \* the members of the job

vars == <<turn, lines, buffers, job>>

NoConfig  == Preset
NoExtents == [min_particle_id |-> 0, max_particle_id |-> -1,
              min_element_id |-> 0, max_element_id |-> -1, min_turn |-> 0]

\* The job without its three parts.  usable: the last call that set it up
\* reported success, so a caller may track.
EmptyJob ==
    [particles |-> None, sets |-> {0}, extents |-> NoExtents,
     line |-> None, line_cxx |-> FALSE,
     output |-> NoBuffer, output_cxx |-> FALSE,
     until |-> 0, config |-> NoConfig,
     elem_output |-> FALSE, monitor_output |-> FALSE,
     elem_offset |-> 0, monitor_offset |-> 0,
     usable |-> FALSE]

Init ==
    /\ turn = [b \in ParticleBuffers |-> [i \in DOMAIN Sets[b] |-> 0]]
    /\ lines = Lines
    /\ buffers = [b \in Buffers |-> <<>>]
    /\ job = EmptyJob

\* What the calls work on: the job, the lines and the output buffers, with
\* the status so far.
World(j, l, b, status) == [job |-> j, lines |-> l, buffers |-> b, status |-> status]
Failed(w)  == [w EXCEPT !.status = "failure"]
Current    == World(job, lines, buffers, "success")
Succeeds(w) == w.status = "success"
Then(w, next(_)) == IF Succeeds(w) THEN next(w) ELSE w

HasOutput(j)  == j.output # NoBuffer
OwnsOutput(j) == j.output = Own

MinOf(S) == CHOOSE x \in S : \A y \in S : x <= y
MaxOf(S) == CHOOSE x \in S : \A y \in S : x >= y

FirstTurn(particles, sets) == MinOf({turn[particles][i + 1] : i \in sets})

\* Particles_get_min_max_attributes over the selected sets, and the element
\* ids of the line.
ExtentsOf(particles, sets) ==
    [min_particle_id |-> MinOf({Sets[particles][i + 1][1] : i \in sets}),
     max_particle_id |-> MaxOf({Sets[particles][i + 1][2] : i \in sets}),
     min_element_id  |-> 0,
     max_element_id  |-> NumElements - 1,
     min_turn        |-> FirstTurn(particles, sets)]

\* An object is known by its place: the address of the i-th object of a
\* buffer.  When the objects move or are freed, whatever pointed to them
\* dangles.
Address(buffer, i) == 1 + buffer * MaxObjects + i
Dangling == 1

PointsTo(addr, buffer) == addr \in {Address(buffer, i) : i \in 1 .. MaxObjects}
AfterMove(addr, buffer) == IF PointsTo(addr, buffer) THEN Dangling ELSE addr

LineAfterMove(line, buffer) ==
    [i \in DOMAIN line |-> [line[i] EXCEPT !.out_address = AfterMove(@, buffer)]]

Moved(w, buffer) ==
    [w EXCEPT !.lines = [l \in DOMAIN Lines |-> LineAfterMove(@[l], buffer)],
              !.job.config.out_store_addr = AfterMove(@, buffer)]

-----------------------------------------------------------------------------
(* doClear, and which parts a reset clears first.                          *)

ClearParticles(w) ==
    [w EXCEPT !.job.particles = None, !.job.sets = {0}, !.job.extents = NoExtents]

ClearLine(w) == [w EXCEPT !.job.line = None, !.job.line_cxx = FALSE]

\* Clearing the output also frees the buffer the job owns.
FreeOwn(w) == [Moved(w, Own) EXCEPT !.buffers[Own] = <<>>]

ClearOutput(w) ==
    World([EmptyJob EXCEPT !.particles = w.job.particles, !.sets = w.job.sets,
                           !.extents = w.job.extents, !.line = w.job.line,
                           !.line_cxx = w.job.line_cxx],
          FreeOwn(w).lines, FreeOwn(w).buffers, w.status)

If(condition, w, change(_)) == IF condition THEN change(w) ELSE w

\* doPrepareResetClearFlags: what is passed again is not cleared.
ReplacesParticles(j, particles, sets) == particles # j.particles \/ sets # j.sets
ReplacesLine(j, line) == line # j.line
ReplacesOutput(j, output) == output = NoBuffer \/ output # j.output

ClearForReset(w, particles, sets, line, output) ==
    LET w1 == If(ReplacesParticles(w.job, particles, sets), w, ClearParticles)
        w2 == If(ReplacesLine(w.job, line), w1, ClearLine)
    IN  If(ReplacesOutput(w.job, output), w2, ClearOutput)

-----------------------------------------------------------------------------
(* Output structures.                                                      *)

\* The objects of a buffer with new ones at its end.
Grown(objects, buffer, sizes) ==
    objects \o [i \in 1 .. Len(sizes) |->
                  [addr |-> Address(buffer, Len(objects) + i), size |-> sizes[i]]]

SetOutput(w, output) ==
    [w EXCEPT !.job.output = output,
              !.job.output_cxx = @ /\ output = w.job.output]

\* doPrepareOutputStructures, first part: the buffer to use.  The buffer the
\* job owns is replaced by one of the caller, but not passed to it again.
BadSelectOutputKeepsOwn(w, output) ==
    IF output # NoBuffer THEN SetOutput(w, output)
    ELSE IF HasOutput(w.job) THEN w
    ELSE [w EXCEPT !.job.output = Own, !.job.output_cxx = TRUE]
SelectOutput(w, output) ==
    IF output = NoBuffer
    THEN IF HasOutput(w.job) THEN w
         ELSE [w EXCEPT !.job.output = Own, !.job.output_cxx = TRUE]
    ELSE IF ~OwnsOutput(w.job) THEN SetOutput(w, output)
    ELSE IF output # Own THEN SetOutput(FreeOwn(w), output)
    ELSE Failed(w)

\* Second part: the objects, the monitors and the configuration.
BadConfigForNoReset(w, until) ==
    IF NeedsElemByElem(w.job.extents.min_turn, until)
    THEN ElemByElemFor(w.job.extents, until)
    ELSE w.job.config
ConfigFor(w, until) ==
    IF NeedsElemByElem(w.job.extents.min_turn, until)
    THEN ElemByElemFor(w.job.extents, until)
    ELSE NoConfig
LayOutOutput(w, until) ==
    LET x       == w.job.extents
        line    == w.lines[w.job.line]
        objects == w.buffers[w.job.output]
        wanted  == NeedsElemByElem(x.min_turn, until)
    IN  World([w.job EXCEPT
                   !.config = ConfigFor(w, until),
                   !.until = IF wanted THEN until ELSE 0,
                   !.monitor_offset = MonitorOffset(objects, x, until),
                   !.elem_offset = ElemByElemOffset(objects, x, until)],
              [w.lines EXCEPT ![w.job.line] = PreparedLine(line, x)],
              [w.buffers EXCEPT ![w.job.output] =
                   Grown(objects, w.job.output, OutputSizes(line, x, until))],
              "success")

\* A buffer that grows may have to move.
PrepareOutput(w, output, until, moves) ==
    Then(SelectOutput(w, output), LAMBDA s :
         LayOutOutput(If(moves, s, LAMBDA r : Moved(r, r.job.output)), until))

\* doAssignOutputBufferToElemByElemConfig
AssignConfigOutput(w) ==
    LET objects == w.buffers[w.job.output]
        at      == w.job.elem_offset + 1
        off     == [w EXCEPT !.job.elem_output = FALSE]
    IN  IF w.job.config = NoConfig \/ at > Len(objects) THEN Failed(w)
        ELSE IF objects[at].size < OutStoreNumParticles(w.job.config)
        THEN Failed(off)
        ELSE [w EXCEPT !.job.elem_output = TRUE,
                       !.job.config.out_store_addr = objects[at].addr]

\* doAssignOutputBufferToBeamMonitors
AssignMonitorOutput(w) ==
    LET objects == w.buffers[w.job.output]
        line    == w.lines[w.job.line]
        a       == AssignMonitors(line, objects, w.job.extents.min_turn,
                                  w.job.monitor_offset)
        off     == [w EXCEPT !.job.monitor_output = FALSE]
    IN  IF line = <<>> \/ w.job.monitor_offset >= Len(objects) THEN Failed(off)
        ELSE [off EXCEPT !.lines[w.job.line] = a.line, !.status = a.status,
                         !.job.monitor_output = (a.status = "success")]

-----------------------------------------------------------------------------
(* The calls.                                                              *)

\* doPrepareParticlesStructures
PrepareParticles(w, particles) ==
    [w EXCEPT !.job.extents = ExtentsOf(particles, w.job.sets)]

\* doPrepareBeamElementsStructures: all monitors of the line learn the
\* particle ids, unless this is the first particle buffer of the job.
PrepareLine(w, line) ==
    [w EXCEPT !.lines[line] =
        IF w.job.particles = None THEN @
        ELSE [i \in DOMAIN @ |-> MonitorFor(@[i], w.job.extents)]]

\* What doReset and doAssignNewOutputBuffer find required, for the turn the
\* selected particles are at now.
Required(w, until) ==
    [elem |-> NeedsElemByElem(FirstTurn(w.job.particles, w.job.sets), until),
     monitors |-> NeedsMonitors(w.lines[w.job.line])]

\* doReset: the particles and the line first ...
WithInputs(w, particles, line) ==
    [PrepareLine(PrepareParticles(w, particles), line) EXCEPT
        !.job.particles = particles, !.job.line = line,
        !.job.line_cxx = @ /\ line = w.job.line]

\* ... then the output, as far as tracking needs any.
ResetOutput(w, output, until, moves) ==
    LET needs    == Required(w, until)
        Elem(s)  == If(needs.elem, s, AssignConfigOutput)
        Watch(s) == If(needs.monitors, s, AssignMonitorOutput)
    IN  IF needs.elem \/ needs.monitors
        THEN Then(Then(PrepareOutput(w, output, until, moves), Elem), Watch)
        ELSE If(output # NoBuffer /\ ~HasOutput(w.job), w,
                LAMBDA s : SetOutput(s, output))

DoReset(w, particles, line, output, until, moves) ==
    ResetOutput(WithInputs(w, particles, line), output, until, moves)

\* The C++ calls also keep the C++ handles of the buffers.
KeepHandles(w, output) ==
    [w EXCEPT !.job.line_cxx = TRUE,
              !.job.output_cxx = @ \/ (HasOutput(w.job) /\ output = w.job.output)]

\* Selecting the particle sets of a buffer: indices it does not have are
\* dropped, and it fails if none is left.
SelectSets(w, particles, selection) ==
    LET there == {i \in selection : i < Len(Sets[particles])}
    IN  [w EXCEPT !.job.sets = there,
                  !.status = IF there = {} THEN "failure" ELSE @]

ResetWorld(particles, selection, line, output, until, moves) ==
    LET sets    == IF selection = Keep THEN job.sets ELSE selection
        cleared == ClearForReset(Current, particles, sets, line, output)
        chosen  == IF selection = Keep THEN cleared
                   ELSE SelectSets(cleared, particles, selection)
    IN  Then(chosen, LAMBDA w : DoReset(w, particles, line, output, until, moves))

Bounded(w) == \A b \in Buffers : Len(w.buffers[b]) <= MaxObjects

Become(w) ==
    /\ Bounded(w)
    /\ job' = [w.job EXCEPT !.usable = Succeeds(w)]
    /\ lines' = w.lines
    /\ buffers' = w.buffers
    /\ UNCHANGED turn

\* A caller passes one of its output buffers, none, or that of the job.
Outputs == Externals \cup {NoBuffer} \cup (IF OwnsOutput(job) THEN {Own} ELSE {})

Reset ==
    \E particles \in ParticleBuffers, selection \in Selections \cup {Keep},
       line \in DOMAIN Lines, output \in Outputs, until \in Untils,
       cxx \in BOOLEAN, moves \in BOOLEAN :
        LET w == ResetWorld(particles, selection, line, output, until, moves)
        IN  Become(If(cxx /\ Succeeds(w), w, LAMBDA s : KeepHandles(s, output)))

Clear ==
    LET w == ClearOutput(ClearLine(ClearParticles(Current)))
    IN  Become(Failed(w))

\* What selectParticleSet asserts before it resets the job.
SelectAsserts(j) ==
    /\ OwnsOutput(j) \/ ~HasOutput(j)
    /\ ~(j.output_cxx /\ j.line_cxx)

SelectParticleSet ==
    /\ job.usable
    /\ SelectAsserts(job)
    /\ \E index \in 0 .. Len(Sets[job.particles]) - 1, moves \in BOOLEAN :
            Become(ResetWorld(job.particles, {index}, job.line, NoBuffer, job.until, moves))

NumElemByElemTurns ==
    IF job.until > job.extents.min_turn THEN job.until - job.extents.min_turn ELSE 0

AssignOutputWorld(output, moves) ==
    LET until    == NumElemByElemTurns
        needs    == Required(Current, until)
        Elem(s)  == If(needs.elem /\ s.job.elem_output, s, AssignConfigOutput)
        Watch(s) == If(needs.monitors /\ s.job.monitor_output, s, AssignMonitorOutput)
    IN  IF needs.elem \/ needs.monitors
        THEN Then(Then(PrepareOutput(Current, output, until, moves), Watch), Elem)
        ELSE Failed(Current)

\* The C++ call takes a failure for success: it keeps the handle, and asserts
\* that the buffer is the one of the job.
AssignAsserts(w, output) ==
    ~Succeeds(w) /\ HasOutput(w.job) => w.job.output = output

AssignOutputBuffer ==
    /\ job.usable
    /\ \E output \in Outputs, cxx \in BOOLEAN, moves \in BOOLEAN :
         LET w == AssignOutputWorld(output, moves)
         IN  /\ cxx => output # NoBuffer /\ AssignAsserts(w, output)
             /\ Become(If(cxx /\ ~Succeeds(w) /\ HasOutput(w.job), w,
                          LAMBDA s : [s EXCEPT !.job.output_cxx = TRUE]))

\* BeamMonitor_reset_all, on a line the job does not use.
ResetMonitors ==
    \E l \in DOMAIN Lines :
        /\ l # job.line
        /\ lines' = [lines EXCEPT ![l] = [i \in DOMAIN @ |-> MonitorReset(@[i])]]
        /\ UNCHANGED <<turn, buffers, job>>

-----------------------------------------------------------------------------
(* Tracking, as far as the output has to know: the turns it takes the      *)
(* selected sets to.  Module Tracking has the rest.                        *)

TurnsTo(after(_)) ==
    turn' = [turn EXCEPT ![job.particles] =
                [i \in DOMAIN @ |-> IF i - 1 \in job.sets THEN after(@[i]) ELSE @[i]]]

\* Both trackUntil and trackElemByElem, which differ in what they store.
TrackUntil ==
    /\ job.usable
    /\ \E until \in Untils :
         /\ until <= MaxTurn
         /\ TurnsTo(LAMBDA t : MaxOf({t, until}))
    /\ UNCHANGED <<lines, buffers, job>>

TrackLine ==
    /\ job.usable
    /\ \A i \in job.sets : turn[job.particles][i + 1] < MaxTurn
    /\ TurnsTo(LAMBDA t : t + 1)
    /\ UNCHANGED <<lines, buffers, job>>

-----------------------------------------------------------------------------
Next == \/ Reset \/ Clear \/ SelectParticleSet \/ AssignOutputBuffer
        \/ ResetMonitors
        \/ TrackUntil \/ TrackLine

Spec == Init /\ [][Next]_vars

-----------------------------------------------------------------------------
(* Properties.                                                             *)

\* The shape of the state: addresses are those of particle objects or null.
TypeOK ==
    /\ turn \in [ParticleBuffers -> Seq(Nat)]
    /\ \A b \in ParticleBuffers : DOMAIN turn[b] = DOMAIN Sets[b]
    /\ DOMAIN lines = DOMAIN Lines
    /\ \A l \in DOMAIN Lines : lines[l] \in Seq(Monitors)
    /\ buffers \in [Buffers -> Seq(Objects)]
    /\ job.particles \in ParticleBuffers \cup {None}
    /\ job.line \in DOMAIN Lines \cup {None}
    /\ job.output \in Buffers \cup {NoBuffer}
    /\ job.config \in Configs /\ job.until \in Nat
    /\ job.elem_offset \in Nat /\ job.monitor_offset \in Nat

Monitored == {i \in DOMAIN lines[job.line] :
                IsPrepared(lines[job.line][i], job.extents.min_turn)}

\* The object of the job's output that holds an address, 0 if none does.
ObjectAt(addr) ==
    SelectInSeq(buffers[job.output], LAMBDA o : o.addr = addr)

Holds(addr, num_particles) ==
    LET i == ObjectAt(addr)
    IN  i > 0 /\ buffers[job.output][i].size >= num_particles

\* In a job that is set up, what a kernel writes to is there: every monitor
\* that was given output for the turns ahead, and the element by element
\* configuration, point to an object of the job's output buffer that has
\* room for all they may store, and a monitor's range of particle ids holds
\* those of the selected sets.  (The kernels check an index only against the
\* particle object they are led to.)
OutputsLive ==
    job.usable =>
        /\ \A i \in Monitored :
             LET m == lines[job.line][i]
             IN  /\ Holds(m.out_address, StoredNumParticles(m))
                 /\ m.min_particle_id <= job.extents.min_particle_id
                 /\ m.max_particle_id >= job.extents.max_particle_id
        /\ job.config.out_store_addr # NoAddress =>
                Holds(job.config.out_store_addr, OutStoreNumParticles(job.config))

\* A caller finds the output by position: the n-th of these monitors stores
\* in the n-th object from the monitor offset of the job on, and the element
\* by element output is the object at the other offset, before them.
OutputInOrder ==
    job.usable =>
        /\ \A i \in Monitored :
             ObjectAt(lines[job.line][i].out_address)
                = job.monitor_offset + Cardinality({k \in Monitored : k <= i})
        /\ (job.config.out_store_addr # NoAddress /\ Monitored # {}) =>
             /\ ObjectAt(job.config.out_store_addr) = job.elem_offset + 1
             /\ job.elem_offset < job.monitor_offset

\* What ownsOutputBuffer, hasBeamMonitorOutput and elemByElemOutputBufferOffset
\* assert (track_job_base.cpp:1335-1342, 1355-1357, 1376-1381), whichever call
\* came last and however it ended: output the job owns has both handles and no
\* flag is on without a buffer; the object named for the element by element
\* output is in the buffer of the job, also after that has been replaced by
\* another; and nothing is left in a buffer that was freed.  What
\* beamMonitorsOutputBufferOffset asserts in the same words (1365-1369) is not
\* so: see the README.
JobAssertions ==
    /\ OwnsOutput(job) => job.output_cxx
    /\ job.monitor_output \/ job.elem_output => HasOutput(job)
    /\ job.elem_offset # 0 =>
            HasOutput(job) /\ job.elem_offset < Len(buffers[job.output])
    /\ ~OwnsOutput(job) => buffers[Own] = <<>>
=============================================================================
