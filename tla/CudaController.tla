--------------------------- MODULE CudaController ---------------------------
(***************************************************************************)
(* The controller of the CUDA nodes (common/control/controller_base.cpp,   *)
(* common/control/node_controller_base.cpp, cuda/control/controller.cpp):  *)
(* the nodes, the one that is selected, the device the CUDA runtime works  *)
(* on, and the configurations of the kernels.                              *)
(*                                                                         *)
(* A CUDA controller changes its node directly and never unselects one: it *)
(* gives up the old node before it has the new one, and a device that does *)
(* not answer leaves it to find its way back.                              *)
(***************************************************************************)
EXTENDS Integers, Sequences, FiniteSets

CONSTANTS
    NumNodes,       \* CUDA devices found, each a node
    MaxKernels,     \* bound: kernel configurations of the controller
    MaxDead         \* bound: devices that stop to answer

ASSUME ControllerAssumption ==
    /\ NumNodes \in Nat \ {0}
    /\ MaxKernels \in Nat /\ MaxDead \in Nat

Nodes    == 0 .. NumNodes - 1
NoNode   == -1      \* NODE_UNDEFINED_INDEX
NoKernel == 0       \* ILLEGAL_KERNEL_ID: ids are counted from 1 here

Kinds == {"remap", "remap_debug", "other"}

\* A controller before it has selected a node.
NewController ==
    [available |-> Nodes, selected |-> NoNode, device |-> 0, ready |-> FALSE,
     debug |-> FALSE, kernels |-> <<>>,
     remap_id |-> NoKernel, remap_debug_id |-> NoKernel]

\* What a call leaves: the controller and whether it reports success.
Reports(c, ok) == [ctrl |-> c, ok |-> ok]

HasKernel(c, id) == id \in 1 .. Len(c.kernels)

\* readyForRemap: kernels may run, and the remap kernel of the mode is there.
ReadyForRemap(c) ==
    /\ c.ready
    /\ HasKernel(c, IF c.debug THEN c.remap_debug_id ELSE c.remap_id)

\* cudaSetDevice: the devices in "off" do not answer.
SetDevice(c, n, off) == IF n \in off THEN c ELSE [c EXCEPT !.device = n]

\* doAppendCudaKernelConfig: the work groups are fitted to the selected node.
WithKernel(c, kind) ==
    [c EXCEPT !.kernels = Append(@, [kind |-> kind, node |-> c.selected])]

BadWithRemapKernelsOnce(c) ==
    IF HasKernel(c, c.remap_id) THEN c
    ELSE LET two == WithKernel(WithKernel(c, "remap"), "remap_debug")
         IN  [two EXCEPT !.remap_id = Len(c.kernels) + 1, !.remap_debug_id = Len(two.kernels)]

WithRemapKernels(c) ==
    LET one == WithKernel(c, "remap")
        two == WithKernel(one, "remap_debug")
    IN  [two EXCEPT !.remap_id = Len(one.kernels),
                    !.remap_debug_id = Len(two.kernels)]

BadDoSelectNodeKernelsFirst(c, n, off) ==
    IF n \in c.available \ off /\ c.selected = NoNode
    THEN Reports([WithRemapKernels(c) EXCEPT !.device = n, !.selected = n], TRUE)
    ELSE Reports(SetDevice(c, n, off), FALSE)

BadDoSelectNodeUnchecked(c, n, off) ==
    IF n \notin c.available THEN Reports(c, FALSE)
    ELSE IF c.selected = NoNode
         THEN Reports(WithRemapKernels([SetDevice(c, n, off) EXCEPT !.selected = n]), TRUE)
         ELSE Reports(SetDevice(c, n, off), FALSE)

\* doSelectNodeCudaImpl.  The device is set even if a node is selected, which
\* doSelectNodeNodeControllerBaseImpl then refuses to replace.
DoSelectNode(c, n, off) ==
    IF n \in c.available \ off
    THEN IF c.selected = NoNode
         THEN Reports(WithRemapKernels([c EXCEPT !.device = n, !.selected = n]), TRUE)
         ELSE Reports([c EXCEPT !.device = n], FALSE)
    ELSE Reports(c, FALSE)

\* NodeControllerBase::doChangeSelectedNode, for a controller that changes
\* directly, in a build without assertions: doRemoveNodeFromSelection asserts
\* that the node can be unselected, which doInitCudaController denies, so that
\* a build with assertions stops here on every change that is not refused.
BaseChange(c, current, new, off) ==
    IF c.selected = current /\ current # NoNode /\ current # new
    THEN DoSelectNode([c EXCEPT !.selected = NoNode], new, off)
    ELSE Reports(c, FALSE)

BadDoChangeSelectedNodeNoReturn(c, current, new, off) ==
    LET base == BaseChange(c, current, new, off)
    IN  IF new \notin c.available \/ base.ok THEN Reports(base.ctrl, FALSE)
        ELSE Reports(SetDevice(base.ctrl, new, off), new \notin off)

\* CudaController::doChangeSelectedNode takes the status of the base for a
\* truth value, and success is zero: a change that was made is reported as a
\* failure, and one that was not goes on.  If "current" is not the selected
\* node the base refuses, and what goes on sets the device all the same.
DoChangeSelectedNode(c, current, new, off) ==
    LET base == BaseChange(c, current, new, off)
        set  == SetDevice(base.ctrl, new, off)
    IN  IF new \notin c.available THEN Reports(c, FALSE)
        ELSE IF base.ok THEN Reports(base.ctrl, FALSE)
        ELSE IF new \in off \/ set.selected = NoNode
             THEN DoSelectNode(set, current, off)
             ELSE Reports(set, TRUE)

SelectNode(c, n, off) ==
    IF c.selected = NoNode THEN DoSelectNode(c, n, off)
                           ELSE DoChangeSelectedNode(c, c.selected, n, off)

\* The constructors select the node that is asked for, or else the default
\* one, and then enable the controller.
Constructed(n, off) ==
    LET selected == DoSelectNode(NewController, n, off)
    IN  [selected.ctrl EXCEPT !.ready = selected.ok]

\* doClear of the base classes forgets the nodes and is not ready for anything;
\* it keeps the kernels, the debug remap kernel and the mode.
ClearedController(c) ==
    [c EXCEPT !.available = {}, !.selected = NoNode, !.ready = FALSE,
              !.remap_id = NoKernel]

\* doSwitchDebugMode: refused without the remap kernel of the mode.
SwitchedDebugMode(c, debug) ==
    IF HasKernel(c, IF debug THEN c.remap_debug_id ELSE c.remap_id)
    THEN [c EXCEPT !.debug = debug]
    ELSE c

-----------------------------------------------------------------------------
VARIABLES
    ctrl,       \* the controller
    dead        \* devices that have stopped to answer

ctrlVars == <<ctrl, dead>>

ControllerInit ==
    /\ dead \in {off \in SUBSET Nodes : Cardinality(off) <= MaxDead}
    /\ \E n \in Nodes : ctrl = Constructed(n, dead)

\* Room for the kernels a selection may append.
KernelsBounded == Len(ctrl.kernels) + 2 <= MaxKernels

CallSelectNode(n) ==
    /\ KernelsBounded
    /\ ctrl' = SelectNode(ctrl, n, dead).ctrl
    /\ UNCHANGED dead

\* changeSelectedNode in both overloads: "current" is the selected node, or
\* what the caller, a track job or the program, takes for it.
CallChangeSelectedNode(current, n) ==
    /\ KernelsBounded
    /\ ctrl' = DoChangeSelectedNode(ctrl, current, n, dead).ctrl
    /\ UNCHANGED dead

CallAddKernel ==
    /\ KernelsBounded
    /\ ctrl.selected # NoNode
    /\ ctrl' = WithKernel(ctrl, "other")
    /\ UNCHANGED dead

CallSwitchDebugMode(debug) ==
    /\ ctrl' = SwitchedDebugMode(ctrl, debug)
    /\ UNCHANGED dead

CallClear ==
    /\ ctrl' = ClearedController(ctrl)
    /\ UNCHANGED dead

DeviceDies(n) ==
    /\ Cardinality(dead \cup {n}) <= MaxDead
    /\ dead' = dead \cup {n}
    /\ UNCHANGED ctrl

ControllerNext ==
    \/ \E n \in Nodes : CallSelectNode(n) \/ DeviceDies(n)
    \/ \E current \in Nodes \cup {NoNode}, n \in Nodes : CallChangeSelectedNode(current, n)
    \/ \E debug \in BOOLEAN : CallSwitchDebugMode(debug)
    \/ CallAddKernel
    \/ CallClear

ControllerSpec == ControllerInit /\ [][ControllerNext]_ctrlVars

-----------------------------------------------------------------------------
ControllerTypeOK ==
    /\ ctrl \in [available : {Nodes, {}}, selected : Nodes \cup {NoNode},
                 device : Nodes, ready : BOOLEAN, debug : BOOLEAN,
                 kernels : Seq([kind : Kinds, node : Nodes]),
                 remap_id : Nat, remap_debug_id : Nat]
    /\ dead \in SUBSET Nodes

\* The CUDA runtime works on the device of the selected node.
OnSelected(c) == c.selected # NoNode => c.device = c.selected

\* A change from a node that is not the selected one.
StaleChange ==
    \E current \in Nodes \cup {NoNode}, n \in Nodes :
        current # ctrl.selected /\ CallChangeSelectedNode(current, n)

\* Memory is taken and kernels run on the device of the selected node, not on
\* one that was only tried.  A step that leaves the runtime elsewhere found it
\* there, or is a change from a stale index; it does not move the selection;
\* and selecting any node that answers, the selected one included, would bring
\* the runtime back whatever was refused or failed before
\* (doSelectNodeCudaImpl, doChangeSelectedNode).
DeviceFollows ==
    [][ ctrl' # ctrl /\ ~OnSelected(ctrl') =>
            /\ OnSelected(ctrl) => StaleChange
            /\ ctrl'.selected = ctrl.selected
            /\ \A n \in Nodes \ dead' : OnSelected(SelectNode(ctrl', n, dead').ctrl) ]_ctrlVars

\* Both remap kernels are ready and fitted to the selected node: the ids
\* follow the selection and never name a kernel of another kind or of the node
\* before (doSelectNodeCudaImpl, setRemapCObjectBufferKernelId).
RemapKernelsOfNode ==
    ctrl.selected # NoNode =>
        \A k \in {<<"remap", ctrl.remap_id>>, <<"remap_debug", ctrl.remap_debug_id>>} :
            /\ HasKernel(ctrl, k[2])
            /\ ctrl.kernels[k[2]] = [kind |-> k[1], node |-> ctrl.selected]

\* A controller that has a node keeps one, unless its own device has died:
\* a change to a device that does not answer goes back to the node it came
\* from, and a change from a stale index leaves the selection alone
\* (doChangeSelectedNode).  This is the build without assertions: one with
\* assertions does not reach the way back (BaseChange).
NodeIsKept ==
    [][ ctrl'.selected = NoNode =>
            ctrl.selected \notin Nodes \ dead \/ ctrl'.available = {} ]_ctrlVars
=============================================================================
