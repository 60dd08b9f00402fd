----------------------------- MODULE DeviceJob -----------------------------
(***************************************************************************)
(* A track job on a CUDA device (cuda/track/track_job.cpp on top of        *)
(* common/track/track_job_ctrl_arg_base.cpp): the track job of TrackJob,   *)
(* which also keeps a copy of its particles, its line, its element by      *)
(* element configuration and its output on the device, one argument each.  *)
(*                                                                         *)
(* The host and the device have addresses of their own.  A copy arrives    *)
(* with those of the host; kernels then lead the device's monitors and     *)
(* configuration to the objects of the output on the device.               *)
(***************************************************************************)
EXTENDS TrackJob

\* An argument of the device: what it takes its name from, and an outcome of
\* a set-up.  At most one argument fails to be made in a call (a bound).
Arguments == {"addresses", "particles", "line", "config", "output"}

\* There is a last output buffer.
ASSUME DeviceAssumption == \E last \in Buffers : \A b \in Buffers : b <= last

\* The device's memory is one more place an address may point to.
DeviceMemory == 1 + MaxOf(Buffers)

\* What is on the device.  A name is that of the host buffer an argument was
\* made of; config is that of an argument if there is one.
\*   ready : the job has its controller and its kernels
\*   whole : every argument the last set-up wanted was made
\*   stray : the line came with addresses the device did not give
EmptyDevice ==
    [ready |-> TRUE, particles |-> None, turn |-> <<>>,
     line |-> None, monitors |-> <<>>, config |-> NoConfig,
     output |-> NoBuffer, objects |-> <<>>, whole |-> TRUE, stray |-> FALSE]

VARIABLE dev

deviceVars == <<turn, lines, buffers, job, dev>>

DeviceInit == Init /\ dev = EmptyDevice

\* What the calls work on: the host's world and the device.
Both(host, device) == [host |-> host, dev |-> device]
Works(w)      == Succeeds(w.host)
Fails(w)      == Both(Failed(w.host), w.dev)
AndThen(w, next(_)) == IF Works(w) THEN next(w) ELSE w
OnHost(w, change(_)) == Both(change(w.host), w.dev)

-----------------------------------------------------------------------------
(* Freeing arguments.                                                      *)

FreeDeviceParticles(w) == Both(w.host, [w.dev EXCEPT !.particles = None, !.turn = <<>>])
FreeDeviceLine(w)      == Both(w.host, [w.dev EXCEPT !.line = None, !.monitors = <<>>])

\* What pointed into the output on the device dangles, in a line that was
\* collected too.
WithoutOutput(d) ==
    [d EXCEPT !.output = NoBuffer, !.objects = <<>>,
              !.config.out_store_addr = AfterMove(@, DeviceMemory),
              !.monitors = LineAfterMove(@, DeviceMemory)]
FreeDeviceOutput(w) == Both(Moved(w.host, DeviceMemory), WithoutOutput(w.dev))
FreeDeviceOutputs(w) ==
    Both(Moved(w.host, DeviceMemory), [WithoutOutput(w.dev) EXCEPT !.config = NoConfig])

\* doClear, for the parts a reset replaces: the arguments go with them.
DeviceClearForReset(w, particles, sets, line, output) ==
    LET j  == w.host.job
        w1 == If(ReplacesParticles(j, particles, sets), w, FreeDeviceParticles)
        w2 == If(ReplacesLine(j, line), w1, FreeDeviceLine)
        w3 == If(ReplacesOutput(j, output), w2, FreeDeviceOutputs)
    IN  OnHost(w3, LAMBDA h : ClearForReset(h, particles, sets, line, output))

-----------------------------------------------------------------------------
(* Making arguments: each is a copy of its buffer at that moment.          *)

Short(w) == Both(w.host, [w.dev EXCEPT !.whole = FALSE])

\* The addresses come first and report failure; that of the particles goes
\* unnoticed.  An argument that is not made leaves the one before.
DevicePrepareParticles(w, particles, failing) ==
    IF ~w.dev.ready \/ failing = "addresses" THEN Short(Fails(w))
    ELSE IF failing = "particles" THEN Short(w)
    ELSE Both(w.host, [w.dev EXCEPT !.particles = particles, !.turn = turn[particles]])

DevicePrepareLine(w, line, failing) ==
    IF ~w.dev.ready \/ failing = "line" THEN Short(Fails(w))
    ELSE Both(w.host, [w.dev EXCEPT !.line = line, !.monitors = w.host.lines[line],
                                    !.stray = TRUE])

\* Without a configuration its argument stays as it is.
DevicePrepareConfig(w, failing) ==
    IF ~w.dev.ready THEN Short(Fails(w))
    ELSE IF w.host.job.config = NoConfig THEN w
    ELSE IF failing = "config"
    THEN Short(Fails(Both(w.host, [w.dev EXCEPT !.config = NoConfig])))
    ELSE Both(w.host, [w.dev EXCEPT !.config = w.host.job.config])

BadOnDeviceKeepsPlace(objects) == objects
OnDevice(objects) ==
    [i \in DOMAIN objects |-> [objects[i] EXCEPT !.addr = Address(DeviceMemory, i)]]

BadDeviceMakeOutputReused(w, failing) ==
    IF w.dev.output # NoBuffer THEN w
    ELSE IF failing = "output" THEN Short(Fails(w))
    ELSE Both(w.host, [w.dev EXCEPT !.output = w.host.job.output,
                           !.objects = OnDevice(w.host.buffers[w.host.job.output])])
DeviceMakeOutput(w, failing) ==
    LET freed == FreeDeviceOutput(w)
        b     == w.host.job.output
    IN  IF failing = "output" THEN Short(Fails(freed))
        ELSE Both(freed.host, [freed.dev EXCEPT !.output = b,
                                   !.objects = OnDevice(w.host.buffers[b])])

DevicePrepareOutput(w, failing) ==
    AndThen(DevicePrepareConfig(w, failing), LAMBDA c : DeviceMakeOutput(c, failing))

-----------------------------------------------------------------------------
(* The kernels that lead the device to its output.  Outside debug mode     *)
(* what they report is lost.                                               *)

DeviceOutputNamed(w, offset) ==
    /\ w.dev.ready /\ w.dev.output # NoBuffer
    /\ w.dev.output = w.host.job.output
    /\ Len(w.dev.objects) > offset

DeviceAssignConfig(w) ==
    LET j == w.host.job
        o == w.dev.objects[j.elem_offset + 1]
    IN  IF ~(/\ j.elem_output /\ w.dev.config # NoConfig
             /\ DeviceOutputNamed(w, j.elem_offset))
        THEN Fails(w)
        ELSE IF o.size < OutStoreNumParticles(w.dev.config) THEN w
        ELSE Both(w.host, [w.dev EXCEPT !.config = [@ EXCEPT !.out_store_addr = o.addr]])

BadDeviceAssignMonitorsFromElem(w) ==
    LET j == w.host.job
    IN  IF ~(/\ j.monitor_output /\ w.dev.line = j.line
             /\ DeviceOutputNamed(w, j.elem_offset))
        THEN Fails(w)
        ELSE Both(w.host, [w.dev EXCEPT !.stray = FALSE,
                 !.monitors = AssignMonitors(@, w.dev.objects,
                                             j.extents.min_turn, j.elem_offset).line])
DeviceAssignMonitors(w) ==
    LET j == w.host.job
    IN  IF ~(/\ j.monitor_output /\ w.dev.line = j.line
             /\ DeviceOutputNamed(w, j.monitor_offset))
        THEN Fails(w)
        ELSE Both(w.host, [w.dev EXCEPT !.stray = FALSE,
                 !.monitors = AssignMonitors(@, w.dev.objects,
                                             j.extents.min_turn, j.monitor_offset).line])

AssignConfigBoth(w) ==
    AndThen(OnHost(w, AssignConfigOutput), DeviceAssignConfig)
AssignMonitorsBoth(w) ==
    AndThen(OnHost(w, AssignMonitorOutput), DeviceAssignMonitors)

\* doPrepareOutputStructures of both, which reports a status of its own.
PrepareOutputBoth(w, output, until, moves, failing) ==
    LET laid == PrepareOutput([w.host EXCEPT !.status = "success"],
                              output, until, moves)
    IN  AndThen(Both(laid, w.dev), LAMBDA s : DevicePrepareOutput(s, failing))

-----------------------------------------------------------------------------
(* The calls.                                                              *)

\* Particles, then the line: host first, then the argument.
PrepareInputs(w, particles, line, failing) ==
    LET p == DevicePrepareParticles(
                 OnHost(w, LAMBDA h : PrepareParticles(h, particles)),
                 particles, failing)
    IN  AndThen(p, LAMBDA s : DevicePrepareLine(
                 OnHost(s, LAMBDA h : PrepareLine(h, line)), line, failing))

Attach(w, j) ==
    Both([w.host EXCEPT !.job = [@ EXCEPT !.particles = j.particles, !.line = j.line,
                                          !.line_cxx = j.line_cxx]], w.dev)

\* doResetCudaImpl.  The output is prepared whatever came of the inputs, and
\* its status takes the place of theirs; only inputs that were prepared are
\* attached to the job.
DeviceDoReset(w, particles, line, output, until, moves, failing) ==
    LET inputs   == PrepareInputs(w, particles, line, failing)
        before   == inputs.host.job
        attached == Attach(inputs, [before EXCEPT
                        !.particles = particles, !.line = line,
                        !.line_cxx = @ /\ line = before.line])
        needs    == Required(attached.host, until)
        Elem(s)  == If(needs.elem, s, AssignConfigBoth)
        Watch(s) == If(needs.monitors, s, AssignMonitorsBoth)
        out      == PrepareOutputBoth(attached, output, until, moves, failing)
        done     == IF ~(needs.elem \/ needs.monitors) /\ output = NoBuffer
                    THEN attached
                    ELSE AndThen(AndThen(out, Elem), Watch)
    IN  IF Works(inputs) THEN done ELSE Attach(done, before)

DeviceResetWorld(particles, selection, line, output, until, moves, failing) ==
    LET sets    == IF selection = Keep THEN job.sets ELSE selection
        cleared == DeviceClearForReset(
                       Both(Current, [dev EXCEPT !.whole = TRUE]),
                       particles, sets, line, output)
        chosen  == IF selection = Keep THEN cleared
                   ELSE OnHost(cleared, LAMBDA h : SelectSets(h, particles, selection))
    IN  AndThen(chosen, LAMBDA w :
            DeviceDoReset(w, particles, line, output, until, moves, failing))

DeviceBecome(w) == Become(w.host) /\ dev' = w.dev

DeviceReset ==
    \E particles \in ParticleBuffers, selection \in Selections \cup {Keep},
       line \in DOMAIN Lines, output \in Outputs, until \in Untils,
       moves \in BOOLEAN, failing \in Arguments \cup {None} :
        DeviceBecome(DeviceResetWorld(particles, selection, line, output,
                                      until, moves, failing))

\* clear: the controller and the kernels go as well.
DeviceClear ==
    LET freed == FreeDeviceOutputs(FreeDeviceLine(FreeDeviceParticles(Both(Current, dev))))
        host  == ClearOutput(ClearLine(ClearParticles(freed.host)))
    IN  /\ dev.ready
        /\ DeviceBecome(Both(Failed(host), [freed.dev EXCEPT !.ready = FALSE]))

\* A job a caller may use.  One that hid a failure may have no buffers, which
\* the calls below take to be there.
Attached == job.usable /\ job.particles # None /\ job.line # None

\* doAssignNewOutputBuffer, with the parts for the device behind the virtual
\* calls.
DeviceAssignWorld(output, moves, failing) ==
    LET until    == NumElemByElemTurns
        here     == Both(Current, dev)
        needs    == Required(Current, until)
        Elem(s)  == If(needs.elem /\ s.host.job.elem_output, s, AssignConfigBoth)
        Watch(s) == If(needs.monitors /\ s.host.job.monitor_output, s, AssignMonitorsBoth)
    IN  IF needs.elem \/ needs.monitors
        THEN AndThen(AndThen(PrepareOutputBoth(here, output, until, moves, failing),
                             Watch), Elem)
        ELSE Fails(here)

DeviceAssignOutputBuffer ==
    /\ Attached
    /\ \E output \in Outputs, moves \in BOOLEAN,
          failing \in {"config", "output", None} :
            DeviceBecome(DeviceAssignWorld(output, moves, failing))

-----------------------------------------------------------------------------
(* Collecting and pushing: doCollect and doPush, part by part.  What the   *)
(* objects of the output hold is no part of the model.                     *)

CollectParticles ==
    /\ job.particles # None /\ dev.particles # None
    /\ turn' = [turn EXCEPT ![job.particles] = dev.turn]
    /\ UNCHANGED <<lines, buffers, job, dev>>

PushParticles ==
    /\ job.particles # None /\ dev.particles # None
    /\ dev' = [dev EXCEPT !.turn = turn[job.particles]]
    /\ UNCHANGED <<turn, lines, buffers, job>>

\* The monitors of the host now have the addresses of the device ...
CollectLine ==
    /\ job.line # None /\ dev.line # None
    /\ lines' = [lines EXCEPT ![job.line] = dev.monitors]
    /\ UNCHANGED <<turn, buffers, job, dev>>

\* ... and those of the device whatever the host has.
PushLine ==
    /\ job.line # None /\ dev.line # None
    /\ dev' = [dev EXCEPT !.monitors = lines[job.line],
                          !.stray = @ \/ lines[job.line] # dev.monitors]
    /\ UNCHANGED <<turn, lines, buffers, job>>

-----------------------------------------------------------------------------
(* Tracking, on the device only.  The kernels take one set.                *)

DeviceTurnsTo(after(_)) ==
    dev' = [dev EXCEPT !.turn =
               [i \in DOMAIN @ |-> IF i - 1 \in job.sets THEN after(@[i]) ELSE @[i]]]

Trackable == Attached /\ dev.particles # None /\ dev.line # None /\ Cardinality(job.sets) = 1

DeviceTrackUntil ==
    /\ Trackable
    /\ \E until \in Untils :
         /\ until <= MaxTurn
         /\ DeviceTurnsTo(LAMBDA t : MaxOf({t, until}))
    /\ UNCHANGED <<turn, lines, buffers, job>>

DeviceTrackLine ==
    /\ Trackable
    /\ \A i \in job.sets : dev.turn[i + 1] < MaxTurn
    /\ DeviceTurnsTo(LAMBDA t : t + 1)
    /\ UNCHANGED <<turn, lines, buffers, job>>

-----------------------------------------------------------------------------
DeviceNext ==
    \/ DeviceReset \/ DeviceClear \/ DeviceAssignOutputBuffer
    \/ CollectParticles \/ PushParticles \/ CollectLine \/ PushLine
    \/ DeviceTrackUntil \/ DeviceTrackLine

DeviceSpec == DeviceInit /\ [][DeviceNext]_deviceVars

-----------------------------------------------------------------------------
(* Properties.                                                             *)

\* The shape of the state.  The objects on the device are those of the host
\* when the argument was made, at addresses of the device.
DeviceTypeOK ==
    /\ dev.ready \in BOOLEAN /\ dev.whole \in BOOLEAN /\ dev.stray \in BOOLEAN
    /\ dev.particles \in ParticleBuffers \cup {None}
    /\ dev.turn = <<>> \/ DOMAIN dev.turn = DOMAIN Sets[dev.particles]
    /\ dev.line \in DOMAIN Lines \cup {None}
    /\ dev.monitors \in Seq(Monitors) /\ dev.config \in Configs
    /\ dev.output \in Buffers \cup {NoBuffer} /\ dev.objects \in Seq(Objects)
    /\ \A i \in DOMAIN dev.objects : dev.objects[i].addr = Address(DeviceMemory, i)

DeviceMonitored == {i \in DOMAIN dev.monitors :
                      IsPrepared(dev.monitors[i], job.extents.min_turn)}

DeviceHolds(addr, num_particles) ==
    \E i \in DOMAIN dev.objects : /\ dev.objects[i].addr = addr
                                 /\ dev.objects[i].size >= num_particles

\* The particle ids of the selected sets, and a monitor that has come to the
\* device with a range of ids that is not larger.  (It comes with those it
\* knew before the set-up; the assignment kernel refuses one whose range needs
\* more than the object it is offered, and nobody hears of it.)
NumIds == job.extents.max_particle_id - job.extents.min_particle_id + 1
InRange(m) == 0 < ParticlesPerTurn(m) /\ ParticlesPerTurn(m) <= NumIds

\* A job that a caller may use tracks into the output on the device: every
\* monitor it was given, and the configuration, lead to an object that is there
\* and has room for the selected particles, for the n-th monitor and the
\* configuration the one at the place the host reports.  Only pushing a line
\* that was not collected before leads monitors elsewhere, and only a line whose
\* monitors knew more ids than are selected is not led there.
DeviceOutputLive ==
    Attached =>
        /\ (~dev.stray /\ \A i \in DeviceMonitored : InRange(dev.monitors[i])) =>
             \A i \in DeviceMonitored :
                LET at == job.monitor_offset + Cardinality({k \in DeviceMonitored : k <= i})
                IN  /\ dev.monitors[i].out_address = Address(DeviceMemory, at)
                    /\ DeviceHolds(Address(DeviceMemory, at),
                                   NumIds * dev.monitors[i].num_stores)
        /\ job.config.out_store_addr # NoAddress =>
             /\ dev.config.out_store_addr = Address(DeviceMemory, job.elem_offset + 1)
             /\ DeviceHolds(dev.config.out_store_addr, OutStoreNumParticles(job.config))

\* Whatever leads into the output on the device, on the device or, collected,
\* in any line of the host that may be pushed again, leads to an object with
\* room for every id the monitor knows.  (The kernels check an index against
\* the monitor's own range and write.)
Fits(m) ==
    PointsTo(m.out_address, DeviceMemory) =>
        DeviceHolds(m.out_address, StoredNumParticles(m))
DeviceWritesFit ==
    job.usable =>
        /\ \A i \in DOMAIN dev.monitors : Fits(dev.monitors[i])
        /\ \A l \in DOMAIN Lines : \A i \in DOMAIN lines[l] : Fits(lines[l][i])

\* A job set up with all of its arguments has those that tracking asserts
\* (track_job.cpp:2344, 2345, 2413 and 2414), made of the buffers the job names,
\* so that to collect or to push never copies between buffers of two set-ups.
ArgumentsNamed ==
    (job.usable /\ dev.whole) =>
        /\ dev.ready
        /\ job.particles # None /\ dev.particles = job.particles
        /\ job.line # None /\ dev.line = job.line
        /\ job.elem_output \/ job.monitor_output => dev.output = job.output
        /\ job.elem_output /\ job.config # NoConfig => dev.config # NoConfig

\* A particle on the device is in the range of every monitor it may pass that
\* has output, as BeamMonitor_get_store_particle_index asserts
\* (be_monitor/track.h:69-73).
DeviceWindows ==
    (Attached /\ dev.whole) =>
        \A i \in DeviceMonitored :
            dev.monitors[i].out_address # NullAddress =>
                /\ dev.monitors[i].min_particle_id <= job.extents.min_particle_id
                /\ dev.monitors[i].max_particle_id >= job.extents.max_particle_id
=============================================================================
