# SixTrackLib in TLA+

SixTrackLib tracks sets of charged particles through a line of beam elements,
turn after turn, on a CPU or on many work items of a GPU, and stores what it is
asked for in a shared output buffer. This directory holds TLA+ modules of the
parts of it where the order of calls, or of work items, decides whether the
output is right; TLC configurations that check them on small instances; and
proofs, checked by TLAPS, for every instance.

Paths below are relative to `sixtracklib/common/` unless they start with `tests/`.

## 1. Inventory

| Component | State it keeps | Operations | Interacts with | What is hard | Correct when |
|---|---|---|---|---|---|
| Element by element configuration (`output/elem_by_elem_config.*`) | window of particle ids, element ids, turns; counts; order; rolling flag; output address | preset, clear, init, independent setters, store index, three inverse functions | read by the tracking kernels for every element; laid out by the output buffer functions; owned by the job | setters in any order; wrap of a rolling store; boundaries | indices lie in the store, are unique up to rolling, and inverses agree |
| Beam monitor (`be_monitor/*`) | schedule (start, skip, stores, rolling, order), id range, output address | reset, setters, tracking function, store index, has_turn_stored | an element of the line; address assigned by the job | wrap of rows, calls that stop and resume | holds the turns has_turn_stored promises |
| Particles (`particles.h`) | ids, element id, turn, state, coordinates per particle | copy of one particle, state and id updates | moved by the kernels, copied to outputs | lost particles | a lost particle keeps the record of its loss: ids, turn and state |
| Tracking kernels (`track/track.h`, `track/track_kernel_impl.h`) | none but locals: iterator, element id and turn per particle | track until a turn, element by element, line; one work item per start index and stride | particles, line, configuration, output objects | concurrent work items writing one output; partial failure; mid-line resumption | results are those of tracking one by one |
| Optimised kernels (`track/track_kernel_opt_impl.h`) | a private copy of one particle per work item | the same three | the same | the particle set is stale until the copy is written back, on every way out of the loops | the same |
| Output buffer layout (`output/output_buffer.*`, `output/elem_by_elem_output_buffer.c`, `be_monitor/output_buffer.*`) | none (works on buffers) | what is required; prepare; assign | buffer, configuration, monitors | two kinds of output in one buffer; skipped monitors | each output has its own, large enough object |
| Track job (`track/track_job_base.*`, `track/track_job_cpu.*`) | C and C++ handles of three buffers, its own output buffer, set indices, extents, flags, offsets, configuration | reset (overloads), clear, selectParticleSet, assignOutputBuffer, track calls, collect/push | everything above | addresses kept in monitors of the caller while buffers move or are freed; stale flags | what a kernel writes to is there |
| Buffer (`buffer.h`, `buffer/*`) | an image in memory with sections for slots, objects index, data pointers and garbage; fields that repeat what the image says | new, reserve, reserve capacity, add object, clear, reset, copy, open on an image, remap, from file | holds everything above | sections are moved over one another and stop half way; the image holds absolute addresses and moves | objects and the pointers in them stay what was stored |
| Memory pool (`buffer/mem_pool.*`) | begin, size, capacity, chunk size | init, reserve, append, clear | memory of a buffer | moves when it grows; rounding and alignment, failed append | the buffer follows its block; blocks do not overlap |
| Stored buffers (`track/track_job_buffer_store.*`, `track/track_job_base.cpp`) | slots with a buffer that is owned or only pointed to, and the number in use | store, remove, look up by id, copy with the job | items, callers | ids that stay when buffers go | an id never comes to name another buffer |
| Assign address items (`buffer/assign_address_item.*`, `track/track_job_base.cpp`) | items (object of a destination, object of a source) in a map from pairs of buffer ids, and the pairs once more in a sorted vector | add, remove, assign one pair or all | stored and other buffers of a job | stale addresses after a buffer moves or goes; two tables that must agree | destination holds the source's address |
| Controllers (`control/controller_base.cpp`, `control/node_controller_base.cpp`, `cuda/control/controller.cpp`) | nodes, selected node, device of the CUDA runtime, readiness, mode, kernel configurations, ids of the remap kernels | construct, select and change node, add kernel, switch debug mode, clear | arguments and jobs on devices | a device that stops to answer in the middle of a change; a status taken for a truth value | the runtime works on the selected node, with remap kernels fitted to it |
| Arguments (`control/argument_base.cpp`, `cuda/control/argument.cpp`) | block of device memory, its size, the C, C++ or raw host memory it mirrors | construct, send, receive and remap in their overloads | controller; kernels | any call to the runtime fails; memory grows by being freed first | what was reported as sent is there and comes back |
| Controller and argument jobs (`track/track_job_ctrl_arg_base.cpp`, `track/track_job_nodectrl_arg_base.cpp`, `cuda/track/track_job.cpp`) | an argument for particles, line, configuration, output, and the host's job | reset, clear, assign output, collect, push, track | host job, controllers, kernels | two address spaces; set-up in turns on host and device; hidden failures | the device works on copies of what the job names, and stores where the host will look |
| Beam element maps, beam-beam, space charge | - | floating point maps | particles | physics | numerical tests |
| Old track jobs (`internal/*`), OpenCL, MPFR4, SIMD, Python bindings, vendored headers | - | - | - | - | - |

How they interact: a caller fills a particle buffer and a line, and sets up a
**track job** (`reset`). The job computes the extents of the selected particle
sets, asks the **output layout** what must be stored, appends objects to the
**output buffer** (its own or the caller's), and writes their addresses into its
**element by element configuration** and into the **beam monitors** inside the
caller's line. A track call launches a **kernel**: work items walk particles
through the line and copy records into the objects those addresses name, checked
only against the size of the object they are led to. So three things must fit
together: index arithmetic (configuration, monitor), the kernels' bookkeeping of
element ids and turns, and the lifetime of addresses (job).

A job on a CUDA device is the same job with copies: each buffer has an
**argument** in device memory, made and filled through the **controller** of the
device, and kernels that lead the copies of monitors and configuration to the
copy of the output. Nothing keeps the copies up to date but the order of the
calls in a set-up, and `collect` and `push`.

Behaviours that are hard to test, with the line where each bites and the
properties that watch it, are listed in `PROJECT.json` under `hazards`.

## 2. Modules

Written in this order; a module extends those it is built from.

| Module | Models |
|---|---|
| `ElemByElemConfig` | the configuration as a record and its arithmetic: pure operators |
| `ElemByElemConfigApi` | one configuration object, one action per writing call |
| `BeamMonitor` | the monitor as a record: rows, indices, has_turn_stored, reset |
| `Beamline` | particles, line, configuration and monitors together; what one element does to one particle |
| `Tracking` | the three kernels with `NumThreads` work items, one step per element |
| `TrackCalls` | abstract specification: a call tracks each particle atomically, in any order |
| `TrackingRefinement` | the refinement mapping from `Tracking` to `TrackCalls` |
| `PrivateTracking` | the optimised kernels beside the plain ones, and the plain ones seen through the private copies |
| `OutputBuffer` | what is required, how objects are appended, how monitors are assigned |
| `TrackJob` | the CPU job: state, calls, ownership, addresses |
| `ManagedBuffer` | the image as a function of slots: layout, reserve, initialise, clear, remap; pure operators |
| `Buffer` | one buffer with the memory it owns or was given: its calls, and the pool as far as the buffer sees it |
| `CudaController` | the nodes, the selected one, the runtime's device and the kernels of one CUDA controller |
| `CudaArgument` | one argument with its controller and the host memory it mirrors |
| `DeviceJob` | the CUDA job: `TrackJob` and what it keeps on the device, composed call by call |
| `StoredBuffers` | the buffers that jobs store for their users, and the memory behind them |
| `AssignItems` | the items of those jobs, and assigning addresses |
| `MC_Tracking`, `MC_PrivateTracking`, `MC_TrackJob`, `MC_Buffer`, `MC_CudaArgument`, `MC_DeviceJob`, `MC_AssignItems` | instances for TLC |
| `ElemByElemConfig_lemmas`, `ElemByElemConfigApi_proofs`, `Tracking_proofs` (with the refinement), `PrivateTracking_proofs`, `TrackJob_proofs` (with `DeviceJob`), `Buffer_proofs`, `CudaArgument_proofs`, `AssignItems_proofs` | lemmas and proofs |

### How state and actions correspond to the code

*Configuration.* Record fields are the struct's members; `num_particles`,
`num_elements` and `num_turns` stand for the `num_..._to_store` members.
`InitDetailed` refuses what `init_detailed` refuses and then leaves its argument
alone. `Cleared` leaves order and rolling flag, as `clear` does. `StoreIndex` is
`get_particles_store_index_details` in a build without assertions: outside the
window, or without an order, it is -1.

*Kernels.* `thread[t]` has the locals of a work item; `pc` says where it is:
about to turn to a particle (`next`), about to copy it into the element by
element store (`store`), or at an element (`track`). `EnterParticle` and
`SkipParticle` are the conditions before the loops of `Track_particle_*_objs`;
the element by element loop does not look at the state of the particle, and
neither does the model. `TrackNext`, `TrackTurnEnd`, `TrackLineEnd` and
`TrackStop` are one dispatch with the bookkeeping that follows it in the same
loop iteration. An element can let the particle pass, lose it, or fail
(`Outcomes`): a map compiled out fails and leaves the particle alive, an unknown
type and a monitor whose index is outside its output lose it. Only
the kernel that tracks until a turn marks as lost whatever stopped. Monitors
write in the dispatch step, so two monitors' writes interleave as the work
items' elements do. Launching is the job's call; without an output address
element by element tracking falls back to tracking until a turn (`KernelFor`).
Coordinates are left out, so nothing is said of them: not of particles on the way, and
not of lost ones, which an element may still move (disagreement 5 below). A record in an
output slot is its ids, turn and state.

*Optimised kernels.* `own[t]` is the particle in the flat arrays of a work item.
A work item copies in (`PrivateEnter`, `PrivateSkip`), goes through the same loops
on the copy, and copies back in a step of its own (`pc = "back"`); only then does
the particle set show what happened. `optimised` says which kind of kernel runs:
a caller may launch either, call by call. `Seen` is the particle set with every
held copy in its place and `SeenThread` the work items with the copying back
taken away: `Plain!Spec` is `Tracking` of those, so `ImplementsPlainKernels` says
that every private step is the plain kernel's step, and copying back nothing.

*Job.* `job` holds the members of `TrackJobBaseNew` that output depends on.
Output buffers are numbers: 0 the job's own, -1 none. An object's address is its
place, `Address(buffer, i)`; when the buffer is reallocated (`moves`) or freed,
every address that pointed into it becomes `Dangling`. That a later allocation
happens to get the old address is not modelled: the model is the stricter one.
`ResetWorld` is a whole call: clear flags, clearing, choice of sets, and
`DoReset` with all it calls, in their order, stopping where the code stops; each
helper is a function from world (job, lines, buffers, status) to world (`WithInputs`
and `ResetOutput` are the two halves of `doReset`). What the loops over the line find
is stated in closed form: `Nth` names the prepared monitors in their order, `NextObject` the
object a monitor is offered, which counts those that took one before it, and
`Reaches` how far the loop gets until an object is missing or too small (`Passes`). `usable`
is history: the last set-up reported success. The job's configuration starts as
cleared. Actions that would meet an assertion of the call itself are
disabled in `Next`; the runs that expect a violation show where that is.

*Buffer.* The memory is a function from slots (eight bytes) to integers. Addresses
are those of slots, so an image that was copied holds addresses of the place it
came from, and `Remap` does what the remapping functions do: section after
section, entity after entity, up to the first that does not fit. A section keeps
its maximal size in bytes, as in the code; it matters when a stale header makes
a reader take one number for another. `Relocate` is one branch of
`ManagedBuffer_reserve`: sections are moved from the last to the first, and a
refusal leaves those that have been moved. `Buffer` has the fields of `st_Buffer` next to the
memory: `addr` may differ from `base`, where the block really is, when a move of
the pool was not followed. A call has a set of results, since the pool may refuse
memory or find it elsewhere. `stored` is history: the shapes of the objects added
since the buffer was last cleared. Objects are a handle and pointers to
attributes of the same object; the values in their slots are all different
numbers, so that `ObjectIntact` tells them apart. A buffer opened on memory of the caller has no
datastore address, so it is never cleared, reset or reserved (`buffer_generic.h:224`, `:272`,
`:602`; the guard is `owned`), and only takes objects while there is room. The model is of a build without
assertions, which goes on where an assertion would stop it; what such a build
writes behind the memory is left out.

*Controller and argument.* `ctrl` has the members of the controller classes that
decide what a call does; each call is a function from controller to controller
and whether it reports success, so that `doChangeSelectedNode` can be read as
written, including the status of the base class that it takes for a truth value.
`device` is the runtime's current device, set by `cudaSetDevice`; a device in
`dead` answers nothing. A change of node takes any index for the current one, as callers
may give one that has become stale. The model is of a build without assertions, as
one with them stops at the first change of node (disagreement 9). Kernel ids count from 1. An argument is its three names (C++,
C, raw), `size`, `capacity`, and what its memory `holds`; what is held may be
`Torn` by a copy that failed. Every call picks the first runtime call that fails,
or none. `sent` is history: what the last status made the caller believe. Contents are
model values with a size.

*Device job.* `dev` is what is on the device, next to the variables of `TrackJob`.
`DeviceMemory` is one more buffer number, so that host and device addresses
can be told apart wherever one is copied into the other. `DeviceResetWorld`
follows `doResetCudaImpl`: arguments go with what a reset replaces, then
particles, line and output are prepared in turns on host and device, and the
statuses are combined as the code combines them. At most one argument fails to be
made in a call. `whole` is history: the last set-up made all the arguments it wanted;
`stray`: the line on the device came with addresses of the host, or was pushed with
others than it had, and no kernel has led it to the output since.

*Stored buffers and items.* `slots` and `num` are `m_stored_buffers` and its counter
for each of several jobs. `memory` is what the buffers are to them: allocated or
not, a place that changes when a buffer grows into another block, and one pointer
in each object. An address is a buffer, a place and an object, so that an address
from before a move, or into a buffer that is gone, differs from every good one. A
caller keeps what it lends and gives away only what nobody else names
(`MayStore`). `CopyJob` is the copy constructor, with the old job at that place
destroyed: owned buffers are copied with the pointers in them as they are.
`items` is the map and `keys` the vector. A sort after `push_back` is an
insertion where the key belongs; the vector was sorted before. `Kept` is what
removing an item leaves of its pair: nothing (see below). `Assigned` applies the
items of some pairs in the order of the map, in which the last item for a
pointer wins; `settled` is history: the job whose `assign_all_addresses` has just
reported success. Each object has one pointer field: offsets into it, and the slot
alignment they must have, are left out. The three fixed buffers are those the
jobs were made with.

*Mutants.* Operators whose names begin with `Bad` stand before the definition
they vary and are used by no specification: each is the plausible slip (a dropped
term, a missed reset, an off-by-one) that shows that a property can fail. `mutants` in
`PROJECT.json` says which property each must break.

## 3. Runs

| Run | Question | Instance |
|---|---|---|
| `elem_by_elem_api` | Can any order of calls leave a configuration that hands out a bad index? | bounds 0..2 (reversed windows are refused), queries up to 4: ids and turns beyond the window on both sides, rolling wraps more than once; every window shape up to 3x3x3 |
| `tracking_schedules` | Do interleavings matter, with plain and with optimised kernels? | either kind in every call; 2 particles with ids 2 and 0 (gap, reversed), 2 work items, line aperture-monitor-monitor, one rolling monitor two rows deep and one with start 1 and skip 2; targets 1 and 3, whole-line calls, at most 3 turns: rows and the two-turn store wrap |
| `tracking_faults` | What do failures leave, and does every call return? | either kind in every call; 3 particles on 2 work items (one item has two), a monitor that runs out of its object, a disabled map, an unknown element, sections that skip, overlap and are empty |
| `tracking_particle_order` | Do particle-ordered monitors keep their turns? | violated |
| `track_job_sets` | Do addresses and offsets survive reselecting sets and changing buffers? | one buffer with two sets of different ids, a line with a monitor that stores nothing between two that do |
| `track_job_lines` | ... and changing lines? | a line whose first monitor falls behind after a turn, and one without monitors |
| `buffer` | Do objects survive every new layout, move, copy and refusal? | up to two objects, with one attribute that is not given and with two that are; two requests, the second with fewer slots and more pointers than the first; two capacities; a pool that grows in place by one slot or moves |
| `cuda_arguments` | Can a failing device or runtime call leave a controller or an argument that lies? | two nodes, one of which may die at any time, four kernel configurations (two selections, or one and a kernel of the user); a large and a small buffer, one raw object, three contents of two sizes, so that a send may grow the argument, fit, or leave room |
| `cuda_argument_names` | Does an argument mirror what it was sent last, as a test says? | violated; the same instance |
| `device_job` | Does the device store where the host will look, and nothing outside its objects? | one set of two particles, a line whose first monitor falls behind and whose second was used before with three particle ids, and a line without monitors, an own and one external output buffer, up to one turn; any one argument may fail in every call |
| `stored_buffers` | Can ids, items and addresses of stored buffers go out of step? | two jobs on one line, two buffers that may be stored (lent or given away), removed, copied with a job, and move once each; two slots a job; two items for one object of the line, one of them with a wrong source type, and one for a stored buffer: two pairs, one with two items |
| `device_job_windows` | Do the monitors on the device know the ids, as the code asserts? | violated; the instance of `device_job` |

Bounds, all named: `MaxSlots` (two stored buffers: one can be removed while the other
keeps ids valid, and both), `MaxPlace` (one move makes an address stale),
`MaxItems` (two items of a pair: enough for both to write one object, and for
removing one to drop the other), `MaxKernels` (every selection appends two configurations),
`MaxDead` (one of the two nodes may die, so that there may or may not be one to
fall back to), `MaxTurn` (line calls can finish turns without end; a job
tracks no further), `MaxElement` (a particle that fails again and again, or
repeated sections, would move its element id without end), `MaxObjects` (a
caller's output buffer collects objects over set-ups). Three turns are more
than the depth of any store used, two work items are enough for every race
since races are between two, and three particles make one work item take a
second one. The lines contain each kind of element the control flow
distinguishes. Four objects of an output buffer leave room for two layouts of
the same buffer, one behind the other. For the buffer two objects are enough:
the index is checked for order only between neighbours, and with two objects
the second request already fails half way, an exact fit and a fit with spare
room both occur, and a full buffer grows in place (one spare slot in the block)
as well as by moving. The addresses 100 and 200 are further apart than any
image is long and larger than any count. Attributes have at least one slot: a
pointer to an empty attribute at the end of the data is outside the slots in
use, and remapping refuses it. Nothing in the modelled code makes a garbage
range, so that section is always empty. Deadlock is checked in every run: a
caller can always call again, except where a bound stops it, and instances are
such that some call stays possible.

What the passing runs show: `IndexInStore`, `SlotsCollideOnlyAcrossRolls` and
`InverseAgrees` that slots are right for a configuration; `SlotFaithful` that kernels
file every record under its own ids, across lost particles, failures, and calls
that resume mid-line; `NoOutputRace` that unsynchronised
copies never meet; `MonitorKeepsTurns` that a monitor holds a turn exactly if
`has_turn_stored` says so; `LostKeepsRecord` that a lost particle keeps its ids, turn and
state, and that no element but the first of a line tracked element by element ever
meets it; `SuccessDelivers` what a call must have done to particles; `ImplementsAtomicCalls` (refinement) that the final
result, outputs and status included, is one of tracking particles one by one;
`OutputsLive` that whatever a kernel of a set-up job writes through is an object
in the job's buffer with room; `OutputInOrder` that callers find outputs at the
offsets the job reports; `JobAssertions` that the assertions of three accessors hold, `ownsOutputBuffer`,
`hasBeamMonitorOutput` and `elemByElemOutputBufferOffset` (that of a fourth is not so:
disagreement 16);
`ObjectsIntact` that whatever is done to a buffer its objects are those stored,
at the places its index says, with pointers to what was stored; `SectionsInOrder`
that even a call refused half way leaves slots, objects and pointers laid out
in order; `GrowthAccepted` that a request that takes nothing away is accepted if
there is room; `DataInPool` that a buffer follows its block when that moves, as
long as no request was refused half way; `IndexKept` that only growing the memory
makes the address of the objects index stale (where `Buffer_get_const_object`
would look is wrong after that, until the next refresh);
`ImplementsPlainKernels` (refinement) and `PrivateInv` that a private copy is
nobody else's and that tracking copies is tracking; `SeenInductiveInv`,
`SeenNoOutputRace`, `SeenLostKeepsRecord` and `SeenAtomicCalls` are the properties of
`Tracking` of the particles as they are seen, so that they hold while a copy is
out (both instances run kernels of both kinds, so the plain ones are covered); `RemapKernelsOfNode` and `NodeIsKept` that selecting,
changing and failing leave the controller and its kernels on one node;
`DeviceFollows` that the runtime works on that node too, unless a change was asked for
from a stale index (disagreement 15), that no other step takes it off the node, and
that selecting any node that answers brings it back; `SentIsHeld` and `SentIsRetrievable` that a reported send is on the device,
whole, and comes back; `NamesAgree` the assertions of `argument_base.cpp:347` and
`:372`; `DeviceOutputLive` that monitors and configuration on the device lead to
objects with room, at the places the host reports, and `DeviceWritesFit` that no monitor,
on the device or in a line that may be pushed to it, leads there with a longer
range of ids than its object has room for; `ArgumentsNamed` that what is
collected or pushed is a copy of the buffer the job names; `TablesAgree` that the
counter, the slots, the map, the vector and the memory of every job agree, whatever is
stored, removed, copied or freed; `IdsNameOneBuffer` that items which outlive a
buffer never act on another; `AssignedIsCurrent` that a reported assignment left
no item out and no address stale.

`ArgumentsNamed` speaks of set-ups that made all their arguments,
`DeviceOutputLive` and `DeviceWritesFit` of all that reported success. The model has the
set-ups with missing arguments as well: a reset whose particles argument
fails (`cuda/track/track_job.cpp:1218`), or whose inputs failed before the output was
prepared (`:1701`), reports success.

### Where the code and its own statements disagree

Each of the first three is the counterexample of a run; the others were met on the
way and are stated here only.

1. `tracking_particle_order`: a particle-ordered monitor strides by particles where
   it should stride by stores (`be_monitor/track.h:105`); with more stores than
   particles entries collide.
2. `cuda_argument_names`: an argument records the buffer it mirrors when it has none,
   or when its memory grows (`control/argument_base.cpp:157`). A second send of
   another buffer that fits leaves the first as the target of `receive()`; sending raw
   memory to an argument that mirrors a C++ buffer keeps the C pointer.
3. `device_job_windows`: a set-up sends the line to the device before its monitors
   are given the particle ids (`cuda/track/track_job.cpp:1677`), and the kernel
   that assigns the output sets addresses only. After the first reset of a job
   the monitors on the device have an output and no id range, against the
   assertions of `be_monitor/track.h:69-73`. After a later reset to
   particles with fewer ids they come with the range of those before; the
   kernel refuses to assign them objects too small for it, nobody asks what the kernel
   reports, and the set-up succeeds (`DeviceOutputLive` excludes such monitors by
   `InRange`; `DeviceWritesFit` shows that they write nowhere).
4. `ManagedBuffer_reserve` compares the new place of a
   section that is to move down with where the section before it still is
   (`buffer/managed_buffer.h:676`). A request that takes slots away and gives
   pointers more than that is refused, although `ManagedBuffer_can_reserve`
   grants it, and after the garbage section has moved. The header then still
   names the old place of the garbage section, which is zeroed: its maximal
   size is 0, against an assertion of the accessor
   (`buffer/managed_buffer_minimal.h:645`), and its count is the old size. If
   such a buffer then grows by moving, remapping fails and `data_addr` keeps
   the address of the block that is gone.
5. The element by element kernel dispatches particles that an earlier
   call lost (`track/track.h:708`), against the assertions at 227 and 715. With
   assertions off the element acts on the lost particle and the kernel then stops:
   its coordinates move, and nothing in the model can tell. What `LostKeepsRecord` says
   holds all the same: ids, turn and state stay, and it meets no element after the first.
6. A reset with the same external output buffer to a line without monitors keeps
   `hasBeamMonitorOutput()` true (`track/track_job_base.cpp:2667`).
7. `selectParticleSet` takes the particle handle from `ptrOutputBuffer()` and asserts
   that the output buffer *needs* remapping (`track/track_job_base.cpp:474`, `:495`,
   `:509`): its assertions fail for any job with C++ handles and an output buffer, or
   with an external output buffer.
8. The C++ `assignOutputBuffer` reads a status as a truth value
   (`track/track_job_base.cpp:553`): success is 0.
9. `CudaController::doChangeSelectedNode` takes the status of the base class for a
   truth value as well (`cuda/control/controller.cpp:1143`): a change that was made
   is reported as a failure, and one that was not goes on. On its way the base class
   asserts that the node can be unselected (`control/node_controller_base.cpp:1021`, called
   at `:906`), which a CUDA controller never allows (`cuda/control/controller.cpp:1297`;
   `tests/sixtracklib/cuda/control/test_controller_cxx.cpp:40` expects so): a build with
   assertions stops at the first change of node that is not refused. `NodeIsKept`, and the way
   back to the old node, are of a build without assertions.
10. The debug forms of the line kernels compare the *first* element of the section
   with the length of the line (`track/track_kernel_impl.h:522`,
   `track/track_kernel_opt_impl.h:709`), where the plain forms assert it of the last:
   they accept a section that ends behind the line.
11. Clearing a CUDA job drops its controller and kernels
   (`track/track_job_ctrl_arg_base.cpp:485`), and no reset makes new ones.
12. Removing an assign address item copies the items that stay into the buffer they
   are in, which is then swapped for the new, empty one
   (`track/track_job_base.cpp:3009`): with one item, all of its pair of buffers go.
13. Copy assignment of a job takes the number of stored buffers but neither the buffers
   nor the items (`track/track_job_base.cpp:1999`), move assignment the buffers but not
   their number, and the move constructor leaves a number with an empty vector behind:
   the assertion of `num_stored_buffers` (`:1218`) fails for the job that results.
14. `reserve_stored_buffers_capacity` reserves only less than there is (`:1202`);
   `assign_items_end` returns the beginning (`:1088`), and
   `assign_item_dest_src_end` moves only if there is nothing to move over (`:1106`).
15. A change of node from an index that is not the selected one is refused by the base
   class, after which `CudaController::doChangeSelectedNode` has set the device
   (`cuda/control/controller.cpp:1136`), selected nothing, and reports success. Any caller
   can do that: the public overload (`control/node_controller_base.cpp:666`) and that of a
   job (`track/track_job_nodectrl_arg_base.cpp:82`) take the current index as an
   argument. Memory is then taken, and kernels run, on a device nobody selected.
16. `beamMonitorsOutputBufferOffset` asserts that the output buffer has more objects than
   the offset, or that the offset is 0 (`track/track_job_base.cpp:1365`). It fails for a usable
   job on a line without monitors that has element by element output (one object,
   monitor offset 1), and inside a reset (`:2733`) if all monitors of the line start before the first
   turn: none was prepared, and the offset is the number of objects; with assertions
   off the assignment to the monitors is then refused. Where a monitor was given output, `OutputsLive`
   and `OutputInOrder` put the offset inside the buffer.

## 4. Fairness

`FairSpec` adds weak fairness of each work item's steps and of `Return`: a
launched kernel is executed. On the CPU the loop simply runs; on a GPU a
submitted kernel's work items are scheduled. Nothing is assumed of the caller,
and no particular outcome of an element is. `PrivateFairSpec` says the same of
work items of either kind. The other specifications state no fairness: their
calls are single steps, and nothing obliges a caller to make one.

## 5. Proofs

`tlapm` proves, for all values of the constants under the named assumptions:

- `ElemByElemConfigApi_proofs`: all five invariants of the configuration.
  `ConfigTypeOK` is inductive as it stands: windows are consistent or empty.
  From it, `FlatIndex` is the row-major encoding of three digits in ranges
  (`ElemByElemConfig_lemmas`): lemmas on division and products show that the
  encoding is below the product of the sizes, injective, and undone by the
  inverse functions; rolling adds a multiple of the store size, which is a
  multiple of the turn stride.
- `Tracking_proofs`: `TrackingInductive` proves
  `InductiveInv = TypeOK /\ WorkItemsOwn /\ CountersInStep /\ IdsKept /\ SlotFaithful`.
  `SlotFaithful` alone is not inductive: the slot is computed from ids the work
  item counts itself (`CountersInStep`), which only stay equal to the
  particle's because no other work item moves it (`WorkItemsOwn`: the particle
  index is `t` modulo the stride), and from the caller's particle id, which
  never changes (`IdsKept`). One lemma per action preserves the invariant.
  `TrackingNoParticleShared` and `TrackingSlotFaithful` follow.
  `TrackingNoOutputRace` adds injectivity of the index and, for monitors,
  `MonitorsCover`: turn order and an id range that covers the set, which is the
  id-window part of `OutputsLive`. `TrackingLostKeepsRecord` is an action property:
  the kernels other than the element by element one enter no lost particle
  (`LostAtFirstKept`), and that one leaves it at the first dispatch, with its record.
  It says nothing of coordinates.
  `TrackingPositions` relates the middle of a call to its beginning (`PositionInv`): a
  particle no work item has come to is as the call found it, one under way is
  where its work item counts it, and one that is done is lost, delivered, or the
  call has failed. That needs the owner of every particle to be behind it,
  at it or past it (`OwnerIsNotAhead`). `TrackingSuccessDelivers` is the last step of
  that, when all work items are done and the status is still success.
- `Tracking_proofs` too: `TrackingImplementsAtomicCalls`, that `Tracking`
  implements `TrackCalls`, where a call tracks one whole particle per step. The
  abstract state is the present one with the particles under way put back as they
  were when the call began, and so are the output slots they will write; a particle
  is tracked, abstractly, in the step in which its work item leaves it. What an
  element does to a particle must then be replayed at the end, so the proof needs
  to know what is in every slot in the middle of a call: `TrackingOutput`
  (`OutputInv`) says that a slot which differs from what the call found holds the
  record of a particle of this call, and that the slots of a particle under way
  hold the last of its passages. Turns and elements passed are compared as one
  number per passage (turn, then element), which the kernels only increase.
  Slots have one writer because ids are unique (`UniqueIds`) and monitors keep
  turns and ids apart (`MonitorSlotsDistinct`, the hypothesis of both theorems).
  It follows from `MonitorsCover` (`CoverDistinct`), but leaves particles outside
  the id range, which are stored nowhere, and other orders alone. It speaks of all
  turns, so TLC does not evaluate it; for the turns the instances of the two
  tracking runs reach it holds.
  The lemmas: both specifications compute the same sets, indices
  and elements (`SameSets`, `SameIndex`, `SameElement`); a call begins and ends as an
  atomic call (`SameCalls` and those after it); and each action of a work item is
  a stutter, or one particle tracked.
- `PrivateTracking_proofs`: `PrivateInvariant` proves
  `PrivateInv = PrivateTypeOK /\ CopiesOwned /\ IdsKept`. The type alone is not
  inductive: that copying back writes inside the particle set, with the right
  id, needs that a work item holds a copy of a particle of its own stride
  (`CopiesOwned`). `PrivateImplementsPlain` is the refinement: with the copies in
  their place every step of an optimised kernel is one of the plain kernel or
  none. Its lemmas are in three groups: the operators of `Tracking` that do not
  look at the state are the same under the view (`SameSlots`, `SameElements`,
  `SameRecords`, `SamePlaces`); how the view changes when a copy is changed, and that
  it does not when one is written back (`ViewStep`, `ViewOfCopyBack`, both from
  `CopiesOwned`); and one lemma per action (`SeenEnter` ... `SeenLoop`). The theorems about
  `Tracking` are then cited under the view (`PlainTheorems`), which makes
  `PrivateSeenInductive`, `PrivateNoOutputRace` and `PrivateLostKeepsRecord` theorems of any
  mix of kernels: no race, no misfiled record and no revived particle comes in
  by the copies. `PrivateAtomicCalls` puts the two refinements together: any mix of
  kernels implements calls that track one particle per step.
  `PrivateSuccessDelivers` carries `TrackingSuccessDelivers` over: when a call
  returns no copy is out, so what is seen is what is there, and the kind of kernel
  did not change on the way (`KindKept`).
- `TrackJob_proofs`: `JobInvariant` proves `IInv`, of which `JobTypeOK`,
  `JobAssertionsHold`, `JobOutputsLive` and `JobOutputInOrder` are consequences. A
  call goes through many states no other call sees, so its parts are predicates of
  worlds, and each helper of a call has a lemma that says what it needs of the world
  it gets and what it leaves. `Sound` holds at every point of a call, failures included: the
  shape of the world, every object at its place, chosen sets exist, what the three accessors
  assert. `ConfigLive` too: a configuration that has an address has that of its own
  object, in front of those of the monitors, and an element by element offset that is not 0
  is inside the job's buffer (`OffsetIn`). `SetUp` only holds in a usable job, and
  its parts come one after the other: `Equipped` and `Windows` (monitors with turns
  ahead know the ids of the selected sets) from `WithInputs` and the layout, `MonitorsLive` (they have
  the objects from the monitor offset on, in their order, with room) from
  `AssignMonitorOutput`. `OutputsLive` alone is not inductive: it says
  nothing of a job whose last set-up failed, and the next call may succeed without
  laying out or assigning anything, with the configuration it finds. That is why
  `ConfigLive` is kept through failures, and why `SetUp` names the object of every
  monitor instead of saying that there is one: a call that moves the buffer
  has to show that each gets its own again. Objects are
  laid out by the same count by which they are assigned: `PositionsFinite`, `CountedOnce` and
  `NthIs` say that the n-th prepared monitor is the one with n of them up to it,
  and `ObjectsInOrder` that the two passes over the line agree. A call of tracking or of
  `ResetMonitors` leaves addresses alone. `ExtentsAre` is the other root: the ids of the
  sets have a least and a greatest (`MinOfNat`, `MaxOfNat`, from well-foundedness).
- `TrackJob_proofs` too, about `DeviceJob`: `DeviceInvariant` proves `DInv`, from which `DeviceShape`
  (`DeviceTypeOK`), `DeviceTracksIntoOutput` (`DeviceOutputLive`), `DeviceNeverOverruns`
  (`DeviceWritesFit`), `DeviceArgumentsNamed` and `DeviceKeepsAssertions` follow, for any
  particle buffers, lines, output buffers, order of calls and order of failures. It stands on
  the lemmas about `TrackJob` for every step of a call that works on the host (they cite
  nothing of the device). Three
  parts hold at every point of a call, failures included (`BothSound`, `Agree`): the world of the host is
  sound, and every line still has the schedules it began with; the device
  has turns and monitors of the buffers it names, and its objects are at their places
  in its own memory; what it names is what the job names. The last is not obvious:
  inputs are attached only after all of them were prepared, while the arguments were made
  one by one, so it needs that a reset begins with what it keeps or with none (`Started`).
  `Done` only holds if the last set-up reported success, and is what such a set-up
  promises: the arguments (`Named`), nothing that leads to the device lacks room (`AllFit`), and
  monitors and configuration are led to the objects the host reports
  (`MonitorsLed`, `ConfigLed`). The properties alone are not inductive. `DeviceOutputLive`
  says nothing of host lines, but pushing one makes its addresses those of the
  device: `AllFit` speaks of all lines. That a set-up leads the device's monitors to
  the same objects as those of the host is `CopiedLineLed`: both passes over the
  line count the same monitors (their schedules agree, `SameLine`), the host's pass reached the end
  (`Reaches`), and the device's objects have the sizes of the host's, so a
  monitor of the device whose range is no longer (`Ranged`) is never refused.
  That no monitor leads to an output that was replaced comes from freeing it
  (`NothingLeads`), also in lines that are not in use. `Bounded` (the instance's `MaxObjects`) keeps the
  addresses of two buffers apart, which `ConfigAway` needs.
- `Buffer_proofs`: `BufferInvariant` proves `BInv`, from which `BufferTypes` (`TypeOK`),
  `BufferSections` (`SectionsInOrder`), `BufferKeepsObjects` (`ObjectsIntact`), `BufferGrows`
  (`GrowthAccepted`) and the action properties `BufferKeepsIndex` (`IndexKept`) and
  `BufferKeepsMemory` (`DataInPool`) follow, for any requests, objects, capacities and places
  in memory. The properties are not inductive. `ObjectsIntact` reads objects through the
  index of the image, and a call could only be shown to keep them if the places the
  index names were known: `BInv` says that there are counts `q` the image is laid out
  for (`Laid`: the four sections one behind the other, each with room for its count) and
  places `at` of the stored objects, in order and apart (`Placing`), which hold the values
  (`Filled`), and of which the index (`Indexed`) and the list of pointers (`Listed`) speak, both
  in the order of storing. Values, index and list are said word by word, so each
  has a lemma for each thing that happens to an image: it is laid out anew
  (`ReserveInsideIs`), remapped to another place (`RemapIs`, `RemapKeeps`), appended to
  (`AppendedIs`, `StoredIs`), laid over a fresh image of another size (`OverlaidIs`). A
  layout that is refused half way still is one for the counts of before: only
  the garbage section has moved, and its header may be lost (`RangesKept`). That is the
  one way in which remapping can fail: garbage that is there and attributes that all have
  a length (`RemapSucceeds`) are enough. `BufferKeepsMemory` needs the second as
  a hypothesis, `NoneEmpty`: a pointer to an empty attribute at the end of the data is
  outside the slots in use, remapping refuses it, and a buffer that has moved then keeps the
  address of the old block; the shapes of the `buffer` run satisfy it. The invariant itself does
  without: it speaks of the contents only while the address is that of the block.
- `CudaArgument_proofs`: `CudaInductive` proves one inductive invariant of
  controller and argument, from which `CudaTypeOK`,
  `CudaRemapKernelsOfNode`, `CudaNamesAgree` and `CudaSentIsHeld` follow, and the
  action properties `CudaNodeIsKept` and `CudaDeviceFollows`. The device is not part of the
  invariant, as a change from a stale index may leave it off the selected node:
  what a change does is said by cases (`RefusedChange`, `MadeChange`, `SelectChanges`),
  and `SelectionBringsBack` that selecting a node that answers ends it. `SentIsHeld` needs that a torn or empty
  memory is never reported as sent; all hold for any nodes, buffers, sizes and
  order of failures. `CudaSentIsRetrievable` is the promise a caller relies on: from what is
  held and whom the argument mirrors, that `Receive` gets the value back.
- `AssignItems_proofs`: `Invariant` proves `IInv = StoresInv /\ FilingInv /\
  settled \in SUBSET Jobs`: what the jobs rely on of their slots (types, the count,
  who owns what) and, per job, that map and sorted vector are one table (`Table`).
  `TablesAgree` is the same fact spelled as the code asserts it (`IInvAgrees`). The
  lemmas are in three groups. The vector: `LowerBound` exists and inserting or
  taking out a pair there keeps the order (`LowerBoundIs`, `WithKeySorted`,
  `WithoutKeySorted`). The slots: storing, removing and moving a buffer and copying a
  job, where what is freed is named by no other slot because what one slot owns no
  other names. The assignment: of any items of a job one is the last
  (`LastWriter`), so every pointer written is what some item for it gives
  (`AssignedIs`); if all pairs succeed none is left out (`EveryItemWritten`), which
  is `AssignedIsCurrent`. `IdsNameOneBuffer` rests on the count: while it is 0 ids are
  not looked up at all, which is right only because no slot is in use then
  (`ByIdSlot`). The least element of a set of natural numbers (`Least`) comes from
  well-foundedness and stands in for induction here.

Assumptions: `ApiAssumption` (queries are natural numbers, as the functions
assert), `BeamlineAssumption`, `ConfigFromApi` (the configuration is one that
`ConfigTypeOK` shows the API makes), `UniqueIds` (initialisation numbers
particles; nothing checks it), `ThreadsAssumption`, `ControllerAssumption` and
`ArgumentAssumption` (there is a node; contents have sizes; the kinds of host memory
are apart), `TrackJobAssumption` (a particle buffer has a set, the ids of a set are a range, lines are
sequences of monitors, no buffer of a caller is the job's own), `DeviceAssumption` (there is a last output buffer), `StoredBuffersAssumption` and `AssignItemsAssumption` (callers hold the
buffers they give, items name ids and objects there can be), `BufferAssumption` (the attributes of
an object follow one another; no request is for 16 garbage ranges or more: nothing in the code makes a
range, and a half refused layout may leave the size of the header, 16 bytes or more, where the
number of ranges was, which such a request would take for ranges to keep). TLC evaluates all of them.

Only model-checked: `MonitorKeepsTurns`, which callers who track whole lines may rely
on, as in the runs that check it, but not every caller: a section that leaves a monitor out can
finish a turn that the monitor has not seen; `CallsReturn`, since liveness under
fairness is out of the prover's reach.
There are no `RECURSIVE` operators. Loops whose length is not known are given in closed form,
since the provers cannot reason about a fold of unknown length: `AssignMonitors` for the loop
that assigns monitors; `BeforeBad` for the remapping loops, which stop at the first
entity that does not fit; `ends`, the slots up to each attribute, for the sum in
`predict_required_num_slots`.

## 6. Not modelled

The physics of the maps; items for raw memory, pointer offsets inside objects, the
buffers a job makes for itself under ids 4 and 5, and copy and move assignment of
jobs; the OpenCL backend, whose controllers and programs come from a library that is not here, and the old
jobs it uses. Of controllers, finding nodes by id or string and updating
regions of an argument; of the CUDA job, C++ handles, debug mode and particle
addresses. Of buffers, `apply_addr_offset`, loading an image into
a buffer that has memory, `new_detailed`, files, and sizes that are not whole
slots; of the memory pool, chunks, alignment and snapshots; parameter calculations of the output
layout (slots, data pointers) and allocation failure; debug registers and the
debug kernels' argument checks; `collect`/`push` of the CPU job, which do nothing;
duplicate particle ids; 64 bit overflow of indices (a store that large does not
fit in memory); the pointer reuse of an allocator; the superseded jobs.

### Hazards beyond those of `PROJECT.json`

`PROJECT.json` lists the hazards the properties are aimed at first. These were
met as well; where a property covers one it is named.

Output:

- `be_monitor/be_monitor.h:639`: `has_turn_stored` accepts a turn equal to the
  number of turns, which a run of that many has not made.
- `output/elem_by_elem_config.h:819`: the inverse functions assert that each
  count is below the size of the store, which fails whenever two of the three counts
  are 1, since the third then is the size.
- `particles.h:1713`: copying into an output set asserts that it is larger than the
  source index, where the destination index is meant.
- `be_monitor/output_buffer.h:270`: assigning fails at any monitor behind the one that
  took the last object, even one that needs none, and leaves the first assigned.
- `track/track_kernel_impl.h:140`: a wrong stride would move a particle twice (`PrivateInv`,
  `SeenInductiveInv`); `track/track.h:779`: a section that stops in the middle of the line is
  resumed by later calls (`SlotFaithful`, `SeenAtomicCalls`).
- `track/track.h:725`: two particles with one id are given the same slots, and
  race for them on different work items (`UniqueIds` assumes them away).

Track jobs:

- `track/track_job_base.cpp:2598`: the plain assignment runs in debug mode and the
  checked one outside it, where the reverse is meant.
- `track/track_job_base.cpp:2758`: assigning an output buffer passes a number of turns
  where a last turn is expected; the two agree for a job that starts in turn 0, as
  the instances do.
- `track/track_job_base.cpp:474`, `:553`: assertions that no job with a caller's output
  buffer meets, and a status taken for a truth value; the actions are guarded by
  the assertions (`SelectAsserts`, `AssignAsserts`).
- `track/track_job_base.cpp:2669`: a reset that keeps the output buffer keeps the flag
  for monitor output, on a line without monitors too.
- `track/track_job_ctrl_arg_base.cpp:485`: a cleared job has no controller and refuses
  every set-up (`ArgumentsNamed`).
- `cuda/track/track_job.cpp:1337`: the configuration is sent before the output argument
  exists, and assigned by a kernel of its own later (`DeviceOutputLive`).
- `cuda/track/track_job.cpp:1701`: preparing the output overwrites the status of particles
  and line (`ArgumentsNamed`, for set-ups that made all their arguments).
- `cuda/track/track_job.cpp:2347`: tracking on the device asserts a single particle
  set, which no set-up checks; `:752`: two statuses are combined with `&&`, where
  success is 0 (not reached: a CUDA job calls the two parts by name).

Stored buffers and items:

- `buffer/assign_address_item.h:504`: `AssignAddressItem_valid` is true of every item. An
  item with raw memory at one end is taken, can never be assigned by a job, and stops
  `assign_all_addresses` at its pair; later pairs keep old addresses.
- `buffer/assign_address_item.h:1024`: a source of another type than its item says gives a
  null pointer, which is written with success (allowed by `AssignedIsCurrent`).
- `track/track_job_base.cpp:1785`: what a copied job owns holds the addresses of the
  original's buffers until addresses are assigned again; a removed or moved source
  leaves its old address where it was written.
- `track/track_job_base.cpp:2836`: pushing or collecting a removed buffer succeeds on the
  CPU while another one is stored, and fails when none is.
- `cuda/track/track_job.cpp:849`: a null buffer as the first stored one gets no argument on
  the device, and removing it looks for one.
- `track/track_job_buffer_store.cpp:128`: copy assignment from a store that does not own its
  buffer keeps the buffer owned before.

Buffers:

- `buffer/buffer_generic.h:232`: clearing leaves maxima and, on request, old contents that
  later objects lie over (`ObjectsIntact`, `TypeOK`); `:539`: after growing, the address
  of the objects index is that of its section (`IndexKept`).
- `buffer/managed_buffer_remap.h:536`: the end of the slots in use is exclusive for pointers
  and inclusive for objects (`DataInPool`, `ObjectsIntact`).
- `buffer/managed_buffer.h:627`: whether a request can be met depends on the order in
  which sections move (`GrowthAccepted`).
- `buffer/managed_buffer_remap.h:665`: the header is shifted before the sections are
  looked at; after a failure the image names its new address.
- `buffer/buffer_generic.h:1151`: loading into a buffer with memory takes the address of
  the index from the source, and succeeds although remapping failed.
- `buffer/buffer.c:326`: `new_detailed` counts one slot per garbage range where two are
  used, so a buffer with two or more ranges is refused.
- `buffer/mem_pool.c:143`: `clear_to_aligned_position` tests for an alignment larger than
  the block where a smaller one is meant.

Controllers and arguments:

- `cuda/control/controller.cpp:829`: kernels of the user keep the warp size of the node
  they were added on, and arguments their memory, after a change of node.
- `control/node_controller_base.cpp:1292`: clearing keeps the pointer to the default
  node's id, into a list that has been cleared.
- `control/argument_base.cpp:40`: `send()` without a source sends raw memory with the size
  of the argument, which after a failed send is that of something else.

## 7. Plan

Done: configuration, monitors, kernels (plain and optimised), the CPU job, buffers,
CUDA controller and argument, the CUDA job, stored buffers and assign address items
with the proofs about them.

Left, in this order:

1. `MemPool` (append, reserve, alignment) with an abstract specification of
   disjoint, aligned blocks; `Buffer` shown to implement "a sequence of objects".
2. A bound on the turns of a section that makes `MonitorKeepsTurns` provable for
   callers who track whole lines.
